--------------------------- MODULE FactGenerator ---------------------------
(***************************************************************************)
(* The fact generator: from LLVM modules to the relations the Datalog      *)
(* program imports (FactGenerator/src/FactGenerator.cpp, Functions.cpp,    *)
(* Globals.cpp, Constants.cpp, Assembly.cpp, Variables.cpp and Main.cpp).  *)
(*                                                                         *)
(* Definitions named with "Slip" are not part of the model: each is a      *)
(* mistake that the properties must find.                                  *)
(*                                                                         *)
(* One action is one turn of a loop of processModule, or the code between  *)
(* two loops.  What an instruction asks to be recorded is in module        *)
(* InstructionFacts, how entities are named in Refmodes, signatures in     *)
(* Signatures, and which types are described in TypeFacts.                 *)
(*                                                                         *)
(* A program to analyse is [modules, signatures, sensitivity]; signatures  *)
(* is a sequence with at most one file.  A fact is a tuple of a predicate, *)
(* a refmode and further fields.                                           *)
(***************************************************************************)
EXTENDS Integers, Sequences, FiniteSets, SequencesExt, TLC,
        InstructionFacts, Refmodes, Signatures

CONSTANTS
  Programs,    \* a sequence of programs, one of which is analysed
  Constants    \* the constants that occur in them, also within others

(* What LLVM guarantees of a module that it could parse, and the reader of *)
(* JSON of a file: lists are lists, an indirectbr has an address, a        *)
(* declaration no body, and the operands of an instruction that are        *)
(* parameters or results are those of its own function.                    *)
IsList(l) == Len(l) \in Nat /\ l = [i \in 1..Len(l) |-> l[i]]

OwnValue(F, v) ==
  /\ v.kind = "arg" => \E n \in DOMAIN F.params : v = Arg(n)
  /\ v.kind = "instr" => \E b \in DOMAIN F.blocks : \E i \in DOMAIN F.blocks[b].instrs :
                            v = Instr(b, i) /\ F.blocks[b].instrs[i].type # "void"

InstructionAssumption(F, I) ==
  /\ IsList(I.ops)
  /\ I.op = "indirectbr" => I.ops # <<>>
  /\ I.op \in {"extractvalue", "insertvalue"} => IsList(I.attrs.indices)
  /\ \A n \in DOMAIN Visit(I) :
       Visit(I)[n].what \in {"operand", "indexed", "gepindex"} => OwnValue(F, Visit(I)[n].value)

FunctionAssumption(F) ==
  /\ IsList(F.params) /\ IsList(F.blocks)
  /\ F.decl => F.blocks = <<>>
  /\ \A b \in DOMAIN F.blocks : /\ IsList(F.blocks[b].instrs)
                                /\ \A i \in DOMAIN F.blocks[b].instrs :
                                     InstructionAssumption(F, F.blocks[b].instrs[i])

ListIfArray(v) == v.json = "array" => IsList(v.items)

SignaturesAssumption(file) ==
  file.json = "object" =>
    /\ IsList(file.members)
    /\ \A m \in DOMAIN file.members :
         LET list == file.members[m].value
         IN /\ ListIfArray(list)
            /\ list.json = "array" =>
                 \A n \in DOMAIN list.items :
                   list.items[n].json = "object" =>
                     /\ IsList(list.items[n].members)
                     /\ \A k \in DOMAIN list.items[n].members :
                          ListIfArray(list.items[n].members[k].value)

ASSUME ProgramsAssumption ==
  \A p \in DOMAIN Programs :
    /\ IsList(Programs[p].modules)
    /\ \A m \in DOMAIN Programs[p].modules :
         /\ IsList(Programs[p].modules[m].functions)
         /\ \A f \in DOMAIN Programs[p].modules[m].functions :
              FunctionAssumption(Programs[p].modules[m].functions[f])
    /\ IsList(Programs[p].signatures) /\ Len(Programs[p].signatures) <= 1
    /\ \A s \in DOMAIN Programs[p].signatures : SignaturesAssumption(Programs[p].signatures[s])

VARIABLES
  program,     \* the index of the program
  pc,          \* what processModule does next, or how the run ended
  module,      \* the index of the current module
  at,          \* the place within it: the counters of the loops
  prev,        \* prev_iref, <<>> at the start of a function
  signatures,  \* functions_with_signatures
  gen          \* the fields of the generator object

vars == <<program, pc, module, at, prev, signatures, gen>>

Failures == {"ParseException", "invalid_argument"}

Prog == Programs[program]
Mod == Prog.modules[module]
Fun == Mod.functions[at.function]
Blk == Fun.blocks[at.block]
Ins == Blk.instrs[at.instr]

-----------------------------------------------------------------------------
(* The generator object.  "issued" is a history variable: which refmode    *)
(* was made for which entity; "constants" numbers the calls of             *)
(* writeConstant for it.  Hash codes are left out: they are a function of  *)
(* the printed value.                                                      *)

NewGenerator ==
  [cm |-> <<>>, facts |-> {}, variables |-> <<>>, types |-> {}, results |-> <<>>,
   issued |-> {}, constants |-> 0]

Fact(group, name, fields) == << <<group, name>> >> \o fields

WriteFacts(g, facts) == [g EXCEPT !.facts = @ \cup facts]
RecordType(g, type) == [g EXCEPT !.types = @ \cup {type}]
Issue(g, ref, entity) == [g EXCEPT !.issued = @ \cup {<<ref, entity>>}]

(* variableTypes; the name is the end of the id, from the last % or !.     *)
RecordVariable(g, ref, type, name) ==
  [g EXCEPT !.variables = [id \in DOMAIN @ \cup {ref} |->
                             IF id = ref THEN [type |-> type, name |-> name] ELSE @[id]]]

(* std::map::insert keeps the entry that is there.                         *)
SaveAll(g, pairs) ==
  [g EXCEPT !.results = [key \in DOMAIN @ \cup {p[1] : p \in pairs} |->
                           IF key \in DOMAIN @ THEN @[key]
                           ELSE (CHOOSE p \in pairs : p[1] = key)[2]]]
Save(g, key, entity) == SaveAll(g, {<<key, entity>>})

Optional(condition, fact) == IF condition THEN {fact} ELSE {}
FromOption(option, ref, group, name) ==
  {Fact(group, name, <<ref, option[i]>>) : i \in DOMAIN option}

FunctionEntity(f) == <<"func", Mod.path, f>>
GlobalEntity(name) == <<"global", Mod.path, name>>
InstrEntity(f, b, i) == <<"instr", Mod.path, f, b, i>>
ValueEntity(f, v) == <<"value", Mod.path, f, v>>

-----------------------------------------------------------------------------
(* Constants.                                                              *)

FitsIn16Bits(value) == value < 2 ^ 16

(* The facts that say of which kind a constant is, without its operands.   *)
ConstantKindFacts(c, id) ==
  CASE c.sort = "null" -> {Fact("nullptr_constant", "id", <<id>>)}
    [] c.sort = "int" ->
         {Fact("integer_constant", "id", <<id>>)}
         \cup Optional(FitsIn16Bits(c.value),
                       Fact("constant", "to_integer", <<id, ToString(c.value)>>))
    [] c.sort = "fp" -> {Fact("fp_constant", "id", <<id>>)}
    [] c.sort = "function" ->
         {Fact("func_constant", "id", <<id>>), Fact("func_constant", "name", <<id, c.text>>)}
    [] c.sort = "global" ->
         {Fact("global_var_constant", "id", <<id>>),
          Fact("global_var_constant", "name", <<id, c.text>>)}
    [] c.sort = "undef" -> {Fact("undef_constant", "id", <<id>>)}
    [] OTHER -> {}

CastExpr ==
  [bitcast |-> <<"bitcast_constant_expr", "from_constant">>,
   inttoptr |-> <<"inttoptr_constant_expr", "from_int_constant">>,
   ptrtoint |-> <<"ptrtoint_constant_expr", "from_ptr_constant">>]

(* LLVM 13 tells getelementptr expressions that index past their array.    *)
IsGepExpr(c) == c.sort = "gep" \/ (c.sort = "overindexing gep" /\ LlvmMajor > 13)
IsExpr(c) == c.sort \in DOMAIN CastExpr \cup {"gep", "overindexing gep", "other expr"}

Aggregates ==
  [array |-> "constant_array", struct |-> "constant_struct", vector |-> "constant_vector"]

(* The constants whose operands are written too.                           *)
HasWrittenOperands(c) ==
  c.sort \in DOMAIN CastExpr \/ IsGepExpr(c) \/ c.sort \in DOMAIN Aggregates

WriteConstantExpr(c, id, refs) ==
  {Fact("constant_expr", "id", <<id>>)}
  \cup IF c.sort \in DOMAIN CastExpr
       THEN {Fact(CastExpr[c.sort][1], "id", <<id>>),
             <<CastExpr[c.sort], id, refs[1]>>}
       ELSE IF ~IsGepExpr(c) THEN {}
       ELSE {Fact("gep_constant_expr", "base", <<id, refs[1]>>),
             Fact("gep_constant_expr", "nindices", <<id, Len(refs) - 1>>),
             Fact("gep_constant_expr", "id", <<id>>)}
            \cup {Fact("gep_constant_expr", "index", <<id, i - 2, refs[i]>>) :
                    i \in 2..Len(refs)}

WriteConstantWithOperands(c, id, refs) ==
  LET group == Aggregates[c.sort]
  IN {Fact(group, "index", <<id, i - 1, refs[i]>>) : i \in 1..Len(refs)}
     \cup {Fact(group, "size", <<id, Len(refs)>>), Fact(group, "id", <<id>>)}

(* Of a constant itself, whatever its operands.                            *)
DescribeConstant(c, id, function) ==
  {Fact("constant", "id", <<id>>), Fact("constant", "type", <<id, c.type>>),
   Fact("constant", "value", <<id, c.text>>)}
  \cup Optional(function # <<>>,
                Fact("constant", "in_func",
                     <<id, "@" \o Mod.functions[function[1]].name>>))
  \cup ConstantKindFacts(c, id)

(* The facts that relate it to its operands.                               *)
RelateOperands(c, id, refs) ==
  IF IsExpr(c) THEN WriteConstantExpr(c, id, refs)
  ELSE IF c.sort \in DOMAIN Aggregates THEN WriteConstantWithOperands(c, id, refs)
  ELSE {}

WrittenOperands(c) == IF HasWrittenOperands(c) THEN c.ops ELSE <<>>

ASSUME ConstantsAssumption ==
  \A c \in Constants : WrittenOperands(c) \in Seq(Constants)

(* The constants in the order in which writeConstant is called for them:   *)
(* the constant, and what it reaches through each of its operands.         *)
Reached[c \in Constants] ==
  <<c>> \o FlattenSeq([i \in DOMAIN WrittenOperands(c) |-> Reached[WrittenOperands(c)[i]]])

(* Where in this order the i-th operand comes, counted from the constant.  *)
OperandPlace(c, i) ==
  1 + Len(FlattenSeq([j \in 1..(i - 1) |-> Reached[WrittenOperands(c)[j]]]))

(* writeConstant, with all its calls for operands: each numbers its        *)
(* constant first.  Gives the generator and the constant's refmode.        *)
WriteConstant(g, c) ==
  LET reached == Reached[c]
      calls == DOMAIN reached
      id(n) == ConstantRefmode(Mod, [g.cm EXCEPT !.constantIndex = @ + n - 1], reached[n])
      refs(n) == [i \in DOMAIN WrittenOperands(reached[n]) |->
                    id(n + OperandPlace(reached[n], i))]
      issued == {<<id(n), <<"const", g.constants + n>> >> : n \in calls}
      texts == {<< <<reached[n].text>>, <<"text", reached[n].text>> >> : n \in calls}
  IN [ref |-> id(1),
      gen |-> [SaveAll(g, issued \cup texts) EXCEPT
        !.cm.constantIndex = @ + Len(reached),
        !.constants = @ + Len(reached),
        !.issued = @ \cup issued,
        !.types = @ \cup {reached[n].type : n \in calls},
        !.facts = @ \cup UNION {DescribeConstant(reached[n], id(n), FunctionContext(g.cm))
                                \cup RelateOperands(reached[n], id(n), refs(n)) : n \in calls}]]

WriteAsm(g, v) ==
  LET id == InlineAsmRefmode(g.cm)
  IN [ref |-> id,
      gen |-> WriteFacts(Issue(RecordType(g, v.type), id, <<"asm", Last(g.cm.contexts)>>),
                {Fact("constant", "id", <<id>>), Fact("constant", "type", <<id, v.type>>),
                 Fact("constant", "value", <<id, "<asm>(" \o v.text \o ")">>),
                 Fact("inline_asm", "id", <<id>>),
                 Fact("inline_asm", "constraints", <<id, v.constraints>>),
                 Fact("inline_asm", "text", <<id, v.text>>)})]

-----------------------------------------------------------------------------
(* Operands of instructions.                                               *)

TypeOfValue(v) ==
  CASE v.kind = "arg" -> Fun.params[v.at[1]].type
    [] v.kind = "block" -> "label"
    [] v.kind = "instr" -> Fun.blocks[v.at[1]].instrs[v.at[2]].type
    [] OTHER -> "metadata"

VariableName(v) ==
  CASE v.kind = "meta" -> v.text
    [] v.kind = "localmeta" -> LocalId(Fun, v.inner)
    [] OTHER -> LocalId(Fun, v)

VariableAs(g, v, ref) ==
  [ref |-> ref,
   gen |-> RecordVariable(Issue(g, ref, ValueEntity(at.function, v)),
                          ref, TypeOfValue(v), VariableName(v))]

Variable(g, v) == VariableAs(g, v, ValueRefmode(Mod, g.cm, v))

RecordValue(g, v) ==
  CASE v.kind = "const" -> WriteConstant(g, v)
    [] v.kind = "asm" -> WriteAsm(g, v)
    [] OTHER -> Variable(g, v)

(* A fact with an operand, after the operand itself is written.            *)
WriteOperand(operand, pair, r) ==
  WriteFacts(operand.gen,
    {pair \o (IF r.what = "operand" THEN <<operand.ref>> ELSE <<r.index, operand.ref>>)}
    \cup Optional(r.what = "gepindex" /\ FitsIn16Bits(r.value.value),
                  Fact("constant", "to_integer",
                       <<operand.ref, ToString(r.value.value)>>)))

WriteSource(g, ref, pos, r) ==
  WriteFacts(g,
    {<<r.pred, ref, r.value>>}
    \cup {Fact("variable", "pos", <<ref, pos[i][1], pos[i][2]>>) : i \in DOMAIN pos})

(* One request of the instruction visitor.                                 *)
Execute(g, iref, pos, r) ==
  CASE r.what \in {"entity", "flag"} -> WriteFacts(g, {<<r.pred, iref>>})
    [] r.what = "attribute" -> WriteFacts(g, {<<r.pred, iref, r.value>>})
    [] r.what = "ordinal" -> WriteFacts(g, {<<r.pred, iref, r.index, r.value>>})
    [] r.what = "type" -> WriteFacts(RecordType(g, r.value), {<<r.pred, iref, r.value>>})
    [] r.what \in {"operand", "indexed", "gepindex"} ->
         WriteOperand(RecordValue(g, r.value), <<r.pred, iref>>, r)
    [] r.what = "source" -> WriteSource(g, ValueRefmode(Mod, g.cm, r.index), pos, r)

-----------------------------------------------------------------------------
(* Globals, aliases and functions.                                         *)

DescribeGlobalVar(g, gv, id) ==
  LET valueType == IF LlvmMajor > 14 THEN gv.type ELSE gv.valueType
      tls == ThreadLocalModeToString[gv.tls]
      typed == RecordType(RecordType(
                 Save(Issue(g, id, GlobalEntity(gv.name)), id, GlobalEntity(gv.name)),
                 gv.type), valueType)
  IN WriteFacts(typed,
        {Fact("global_var", "id", <<id>>), Fact("global_var", "name", <<id, "@" \o gv.name>>),
         Fact("global_var", "demangled_name", <<id, gv.demangled>>),
         Fact("global_var", "linkage", <<id, LinkageToString[gv.linkage]>>),
         Fact("global_var", "visibility", <<id, VisibilityToString[gv.visibility]>>),
         Fact("global_var", "flag", <<id, IF gv.constant THEN "constant" ELSE "global">>),
         Fact("global_var", "type", <<id, valueType>>)}
        \cup Optional(gv.init = <<>> /\ gv.linkage = "ExternalLinkage",
                      Fact("global_var", "linkage", <<id, "external">>))
        \cup Optional(tls # "", Fact("global_var", "threadlocal_mode", <<id, tls>>))
        \cup Optional(gv.externallyInitialized,
                      Fact("global_var", "flag", <<id, "externally_initialized">>))
        \cup FromOption(gv.section, id, "global_var", "section")
        \cup Optional(gv.align # 0, Fact("global_var", "aligned_to", <<id, gv.align>>)))

WriteInitializer(init, id) ==
  WriteFacts(init.gen, {Fact("global_var", "initializer", <<id, init.ref>>)})

WriteGlobalVar(g, gv) ==
  LET id == GlobalValueRefmode(g.cm, gv.name)
      described == DescribeGlobalVar(g, gv, id)
  IN IF gv.init = <<>> THEN described
     ELSE WriteInitializer(WriteConstant(described, gv.init[1]), id)

DescribeAlias(aliasee, ga, id) ==
  WriteFacts(aliasee.gen,
    {Fact("alias", "id", <<id>>), Fact("alias", "name", <<id, "@" \o ga.name>>),
     Fact("alias", "visibility", <<id, VisibilityToString[ga.visibility]>>),
     Fact("alias", "linkage", <<id, LinkageToString[ga.linkage]>>),
     Fact("alias", "type", <<id, ga.type>>),
     Fact("alias", "aliasee", <<id, aliasee.ref>>)})

(* An alias is not put into the result map.                                *)
WriteGlobalAlias(g, ga) ==
  LET id == GlobalValueRefmode(g.cm, ga.name)
      typed == RecordType(Issue(g, id, GlobalEntity(ga.name)), ga.type)
  IN DescribeAlias(WriteConstant(typed, ga.aliasee), ga, id)

(* The parameters, of a definition only.                                   *)
WriteParameterSlip(v, funcref, n) ==   \* not put into the result map
  WriteFacts(v.gen, {Fact("func", "param", <<funcref, n - 1, v.ref>>)})
WriteParameter(v, funcref, n) ==
  WriteFacts(Save(v.gen, v.ref, ValueEntity(at.function, Arg(n))),
             {Fact("func", "param", <<funcref, n - 1, v.ref>>)})

(* The personality function is written whether or not there is a body.     *)
DescribeFunction(pers, funcref) ==
  WriteFacts(RecordType(pers.gen, Fun.type),
        {Fact("func", "ty", <<funcref, Fun.type>>),
         Fact("func", "signature", <<funcref, Fun.demangled>>),
         Fact("func", "linkage", <<funcref, LinkageToString[Fun.linkage]>>),
         Fact("func", "visibility", <<funcref, VisibilityToString[Fun.visibility]>>),
         Fact("func", "name", <<funcref, "@" \o Fun.name>>),
         Fact("func", IF Fun.decl THEN "id_decl" ELSE "id_defn", <<funcref>>)}
        \cup Optional(Fun.align # 0, Fact("func", "alignment", <<funcref, Fun.align>>))
        \cup FromOption(Fun.gc, funcref, "func", "gc")
        \cup Optional(Fun.pers # <<>>, Fact("func", "pers_fn", <<funcref, pers.ref>>))
        \cup Optional(Fun.cc # "C",
                      Fact("func", "calling_conv", <<funcref, CallingConvString(Fun.cc)>>))
        \cup Optional(Fun.unnamedAddr, Fact("func", "unnamed_addr", <<funcref>>))
        \cup IF Fun.decl THEN {}
             ELSE FromOption(Fun.section, funcref, "func", "section"))

WriteFunction(g, funcref) ==
  DescribeFunction(IF Fun.pers = <<>> THEN [gen |-> g, ref |-> <<>>]
                   ELSE WriteConstant(g, Fun.pers[1]), funcref)

(* The signatures whose expression matches the function.                   *)
MatchingSlip ==   \* only the first that matches
  {i \in DOMAIN signatures : /\ Fun.demangled \in signatures[i].regex.matches
                            /\ \A j \in 1..(i - 1) : Fun.demangled \notin signatures[j].regex.matches}
Matching == {i \in DOMAIN signatures : Fun.demangled \in signatures[i].regex.matches}

EmitMatchingSignatures ==
  UpToThrow([i \in DOMAIN signatures |->
               IF i \in Matching THEN EmitSignatures(Fun.name, signatures[i].components)
               ELSE Returned({})])

(* All variables seen in the function; the cache is emptied.               *)
WriteLocalVariablesSlip(g) ==   \* the cache is kept
  LET v == g.variables
  IN [WriteFacts(g, UNION {
        {Fact("variable", "id", <<id>>), Fact("variable", "type", <<id, v[id].type>>),
         Fact("variable", "in_func", <<id, "@" \o Fun.name>>),
         Fact("variable", "name", <<id, v[id].name>>)} : id \in DOMAIN v})
      EXCEPT !.types = @ \cup {v[id].type : id \in DOMAIN v}]
WriteLocalVariablesUntypedSlip(g) ==   \* no recordType
  LET v == g.variables
  IN [WriteFacts(g, UNION {
        {Fact("variable", "id", <<id>>), Fact("variable", "type", <<id, v[id].type>>),
         Fact("variable", "in_func", <<id, "@" \o Fun.name>>),
         Fact("variable", "name", <<id, v[id].name>>)} : id \in DOMAIN v})
      EXCEPT !.variables = <<>>]
WriteLocalVariables(g) ==
  LET v == g.variables
  IN [WriteFacts(g, UNION {
        {Fact("variable", "id", <<id>>), Fact("variable", "type", <<id, v[id].type>>),
         Fact("variable", "in_func", <<id, "@" \o Fun.name>>),
         Fact("variable", "name", <<id, v[id].name>>)} : id \in DOMAIN v})
      EXCEPT !.variables = <<>>,
             !.types = @ \cup {v[id].type : id \in DOMAIN v}]

-----------------------------------------------------------------------------
(* The state machine.                                                      *)

Start == [item |-> 1, function |-> 1, param |-> 1, block |-> 1, instr |-> 1, request |-> 1]

Init ==
  /\ program \in DOMAIN Programs
  /\ pc = "module" /\ module = 1 /\ at = Start /\ prev = <<>> /\ signatures = <<>>
  /\ gen = NewGenerator

(* The loop over the input files ends, or the next one is parsed.          *)
Finish ==
  /\ pc = "module" /\ module > Len(Prog.modules)
  /\ pc' = "done"
  /\ UNCHANGED <<program, module, at, prev, signatures, gen>>

(* ParseException; what was written for earlier files stays.               *)
ParseFails ==
  /\ pc = "module" /\ module <= Len(Prog.modules) /\ ~Mod.parses
  /\ pc' = "ParseException"
  /\ UNCHANGED <<program, module, at, prev, signatures, gen>>

(* The members of a JSON object are in the order of a hash table.          *)
EnterModule ==
  /\ pc = "module" /\ module <= Len(Prog.modules) /\ Mod.parses
  /\ gen' = [gen EXCEPT !.cm = NewContextManager(Mod)]
  /\ IF Prog.signatures = <<>>
     THEN pc' = "globals" /\ signatures' = <<>>
     ELSE LET read == PreprocessSignatures(Prog.signatures[1])
          IN IF read.thrown
             THEN pc' = "invalid_argument" /\ signatures' = <<>>
             ELSE /\ pc' = "globals"
                  /\ \E p \in Bijection(DOMAIN read.produced, DOMAIN read.produced) :
                       signatures' = [i \in DOMAIN read.produced |-> read.produced[p[i]]]
  /\ at' = Start
  /\ UNCHANGED <<program, module, prev>>

NextGlobal ==
  /\ pc = "globals" /\ at.item <= Len(Mod.globals)
  /\ gen' = WriteGlobalVar(gen, Mod.globals[at.item])
  /\ at' = [at EXCEPT !.item = @ + 1]
  /\ UNCHANGED <<program, pc, module, prev, signatures>>

NoMoreGlobals ==
  /\ pc = "globals" /\ at.item > Len(Mod.globals)
  /\ pc' = "aliases"
  /\ at' = [at EXCEPT !.item = 1]
  /\ UNCHANGED <<program, module, prev, signatures, gen>>

NextAlias ==
  /\ pc = "aliases" /\ at.item <= Len(Mod.aliases)
  /\ gen' = WriteGlobalAlias(gen, Mod.aliases[at.item])
  /\ at' = [at EXCEPT !.item = @ + 1]
  /\ UNCHANGED <<program, pc, module, prev, signatures>>

WriteOptions ==
  /\ pc = "aliases" /\ at.item > Len(Mod.aliases)
  /\ gen' = WriteFacts(gen, {Fact("user", "options",
                                  << <<"context_sensitivity">>, Prog.sensitivity >>)})
  /\ pc' = "function"
  /\ UNCHANGED <<program, module, at, prev, signatures>>

EnterFunction ==
  /\ pc = "function" /\ at.function <= Len(Mod.functions)
  /\ LET entered == [gen EXCEPT !.cm = PushContext(Mod, @, <<at.function>>)]
         funcref == FunctionRefmode(entered.cm, Fun)
         entity == FunctionEntity(at.function)
         known == Save(Issue(entered, funcref, entity), funcref, entity)
     IN gen' = WriteFunction(known, funcref)
  /\ pc' = IF Fun.decl THEN "signatures" ELSE "params"
  /\ at' = [at EXCEPT !.param = 1]
  /\ prev' = <<>>
  /\ UNCHANGED <<program, module, signatures>>

NextParameter ==
  /\ pc = "params" /\ at.param <= Len(Fun.params)
  /\ gen' = WriteParameter(Variable(gen, Arg(at.param)), FunctionRefmode(gen.cm, Fun), at.param)
  /\ at' = [at EXCEPT !.param = @ + 1]
  /\ UNCHANGED <<program, pc, module, prev, signatures>>

NoMoreParameters ==
  /\ pc = "params" /\ at.param > Len(Fun.params)
  /\ pc' = "signatures"
  /\ UNCHANGED <<program, module, at, prev, signatures, gen>>

(* A function with a signature is left without its body, its variables or  *)
(* its end of function; an exception leaves processModule.                 *)
ApplySignatures ==
  /\ pc = "signatures"
  /\ LET emitted == EmitMatchingSignatures
         signed == WriteFacts(gen, emitted.produced)
     IN /\ gen' = IF Matching = {} THEN signed ELSE [signed EXCEPT !.cm = PopContext(@)]
        /\ CASE emitted.thrown -> pc' = "invalid_argument" /\ at' = at
             [] ~emitted.thrown /\ Matching # {} ->
                  pc' = "function" /\ at' = [at EXCEPT !.function = @ + 1]
             [] OTHER -> pc' = "block" /\ at' = [at EXCEPT !.block = 1]
  /\ UNCHANGED <<program, module, prev, signatures>>

EnterBlock ==
  /\ pc = "block" /\ at.block <= Len(Fun.blocks)
  /\ LET entered == [gen EXCEPT !.cm = PushContext(Mod, @, <<at.function, at.block>>)]
         label(b) == BasicBlockRefmode(Mod, entered.cm, b)
         self == label(at.block)
         predecessors == {b \in DOMAIN Fun.blocks :
                            Fun.blocks[b].instrs # <<>>
                            /\ Block(at.block) \in Successors(Last(Fun.blocks[b].instrs))}
     IN gen' = WriteFacts(Issue(entered, self, ValueEntity(at.function, Block(at.block))),
                 {Fact("variable", "id", <<self>>), Fact("variable", "type", <<self, "label">>),
                  Fact("variable", "in_func", <<self, "@" \o Fun.name>>),
                  Fact("variable", "name", <<self, LocalId(Fun, Block(at.block))>>)}
                 \cup {Fact("block", "predecessor", <<self, label(b)>>) : b \in predecessors})
  /\ pc' = "instr"
  /\ at' = [at EXCEPT !.instr = 1]
  /\ UNCHANGED <<program, module, prev, signatures>>

(* Where the instruction stands.                                           *)
PlaceInstructionSlip(g, iref, I) ==   \* the successor within the test for a result
  WriteFacts(g,
    Optional(prev # <<>> /\ I.type # "void", Fact("instr", "successor", <<prev, iref>>))
    \cup {Fact("instr", "func", <<iref, FunctionRefmode(g.cm, Fun)>>),
          Fact("instr", "bb_entry", <<iref, BasicBlockRefmode(Mod, g.cm, at.block)>>)})
PlaceInstruction(g, iref, I) ==
  WriteFacts(g,
    Optional(prev # <<>>, Fact("instr", "successor", <<prev, iref>>))
    \cup {Fact("instr", "func", <<iref, FunctionRefmode(g.cm, Fun)>>),
          Fact("instr", "bb_entry", <<iref, BasicBlockRefmode(Mod, g.cm, at.block)>>)}
    \cup {Fact("instr", "pos", <<iref, I.pos[i][1], I.pos[i][2]>>) : i \in DOMAIN I.pos})

(* The variable that the instruction assigns to.                           *)
AssignTo(target, iref, entity) ==
  Save(WriteFacts(target.gen, {Fact("instr", "assigns_to", <<iref, target.ref>>)}),
       target.ref, entity)

EnterInstruction ==
  /\ pc = "instr" /\ at.instr <= Len(Blk.instrs)
  /\ LET entered == [gen EXCEPT !.cm = PushContext(Mod, @, <<at.function, at.block, at.instr>>)]
         iref == InstructionRefmode(entered.cm)
         entity == InstrEntity(at.function, at.block, at.instr)
         self == Instr(at.block, at.instr)
         known == Save(Issue(entered, iref, entity), iref, entity)
         assigned == IF Ins.type = "void" THEN known
                     ELSE AssignTo(Variable(known, self), iref, ValueEntity(at.function, self))
     IN gen' = PlaceInstruction(assigned, iref, Ins)
  /\ pc' = "visit"
  /\ at' = [at EXCEPT !.request = 1]
  /\ UNCHANGED <<program, module, prev, signatures>>

(* The visitor asks for one fact after the other.                          *)
NextRequest ==
  /\ pc = "visit" /\ at.request <= Len(Visit(Ins))
  /\ gen' = Execute(gen, InstructionRefmode(gen.cm), Ins.pos, Visit(Ins)[at.request])
  /\ at' = [at EXCEPT !.request = @ + 1]
  /\ UNCHANGED <<program, pc, module, prev, signatures>>

LeaveInstruction ==
  /\ pc = "visit" /\ at.request > Len(Visit(Ins))
  /\ gen' = [gen EXCEPT !.cm = PopContext(@)]
  /\ prev' = InstructionRefmode(gen.cm)
  /\ pc' = "instr"
  /\ at' = [at EXCEPT !.instr = @ + 1]
  /\ UNCHANGED <<program, module, signatures>>

LeaveBlockSlip ==   \* the context outlives the block
  /\ pc = "instr" /\ at.instr > Len(Blk.instrs)
  /\ pc' = "block"
  /\ at' = [at EXCEPT !.block = @ + 1]
  /\ UNCHANGED <<program, module, prev, signatures, gen>>
LeaveBlock ==
  /\ pc = "instr" /\ at.instr > Len(Blk.instrs)
  /\ gen' = [gen EXCEPT !.cm = PopContext(@)]
  /\ pc' = "block"
  /\ at' = [at EXCEPT !.block = @ + 1]
  /\ UNCHANGED <<program, module, prev, signatures>>

LeaveFunction ==
  /\ pc = "block" /\ at.block > Len(Fun.blocks)
  /\ LET written == WriteLocalVariables(gen)
     IN gen' = [written EXCEPT !.cm = PopContext(@)]
  /\ pc' = "function"
  /\ at' = [at EXCEPT !.function = @ + 1]
  /\ UNCHANGED <<program, module, prev, signatures>>

(* writeTypes with this module's data layout; the types recorded for       *)
(* earlier modules are still there and are sized again.                    *)
LeaveModule ==
  /\ pc = "function" /\ at.function > Len(Mod.functions)
  /\ gen' = WriteFacts([gen EXCEPT !.cm = <<>>],
              {Fact("type", "alloc_size", << <<t>>, Mod.sizes[t] >>) :
                 t \in gen.types \cap DOMAIN Mod.sizes})
  /\ pc' = "module"
  /\ module' = module + 1
  /\ UNCHANGED <<program, at, prev, signatures>>

Next == \/ Finish \/ ParseFails \/ EnterModule
        \/ NextGlobal \/ NoMoreGlobals \/ NextAlias \/ WriteOptions
        \/ EnterFunction \/ NextParameter \/ NoMoreParameters \/ ApplySignatures
        \/ EnterBlock \/ EnterInstruction \/ NextRequest \/ LeaveInstruction
        \/ LeaveBlock \/ LeaveFunction \/ LeaveModule

Spec == Init /\ [][Next]_vars
=============================================================================
