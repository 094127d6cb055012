------------------------- MODULE SchemaConstraints -------------------------
(***************************************************************************)
(* What the Datalog program expects of the facts: the constraints of       *)
(* src/datalog/schema that do not depend on the structure of types, and    *)
(* the relations they are stated with.  The facts come from C++ and the    *)
(* constraints are Datalog; nothing but the names of the relations ties    *)
(* them together.                                                          *)
(***************************************************************************)
EXTENDS FactGenerator

Rel(group, name) == {f \in gen.facts : f[1] = <<group, name>>}
Subjects(group, name) == {f[2] : f \in Rel(group, name)}

-----------------------------------------------------------------------------
(* Derived relations.                                                      *)

instr == {f[2] : f \in {f \in gen.facts : f[1][2] = "instr"}}
variable_is_label == {f[2] : f \in {f \in Rel("variable", "type") : f[3] = "label"}}
instr_successor == {<<f[2], f[3]>> : f \in Rel("instr", "successor")}

(* A block is named by its label.                                          *)
instr_block ==
  LET instrs == instr
      labels == variable_is_label
  IN {<<f[2], f[3]>> : f \in {f \in Rel("instr", "bb_entry") :
                                f[2] \in instrs /\ f[3] \in labels}}

BetweenBlocks ==
  LET placed == instr_block
  IN {s \in instr_successor : \E p, q \in placed : p[1] = s[1] /\ q[1] = s[2] /\ p[2] # q[2]}

(* Pairs of an instruction and its block.                                  *)
block_first_instr ==
  LET between == BetweenBlocks
      successors == instr_successor
  IN {p \in instr_block : (\A s \in successors : s[2] # p[1])
                          \/ (\E s \in between : s[2] = p[1])}
block_last_instr ==
  LET between == BetweenBlocks
      successors == instr_successor
  IN {p \in instr_block : (\A s \in successors : s[1] # p[1])
                          \/ (\E s \in between : s[1] = p[1])}

InBlock(pairs, label) == {p[1] : p \in {p \in pairs : p[2] = label}}

terminator_instr ==
  UNION {Subjects(g, "instr") :
           g \in {"ret", "br", "switch_", "indirectbr", "invoke", "resume", "unreachable"}}

-----------------------------------------------------------------------------
(* Constraints on instructions.                                            *)

(* The facts every instruction of a group must have.                       *)
Required ==
  [g \in BinaryOps |-> {"first_operand", "second_operand"}]
  @@ [g \in CastOps |-> {"from_operand", "to_type"}]
  @@ [g \in {"icmp", "fcmp"} |-> {"first_operand", "second_operand", "condition"}]
  @@ [ alloca |-> {"type"}, load |-> {"address"}, store |-> {"address", "value"},
       atomicrmw |-> {"ordering", "operation", "address", "value"},
       cmpxchg |-> {"ordering", "address", "cmp_value", "new_value"},
       fence |-> {"ordering"}, getelementptr |-> {"base", "nindices"},
       va_arg |-> {"va_list", "type"}, fneg |-> {"operand"}, freeze |-> {"operand"},
       extractelement |-> {"base", "index"}, insertelement |-> {"base", "index", "value"},
       extractvalue |-> {"base", "nindices"}, insertvalue |-> {"base", "value", "nindices"},
       shufflevector |-> {"first_vector", "second_vector", "mask"},
       select |-> {"condition", "first_operand", "second_operand"},
       switch_ |-> {"ncases", "default_label"}, phi |-> {"npairs"},
       indirectbr |-> {"address", "nlabels"}, call |-> {"func_operand"},
       invoke |-> {"func_operand", "normal_label", "exception_label"},
       resume |-> {"operand"} ]

MissingFacts ==
  {i \in instr : \E g \in DOMAIN Required : i \in Subjects(g, "instr")
                   /\ \E n \in Required[g] : i \notin Subjects(g, n)}

BranchesIncomplete ==
  {i \in Subjects("br", "cond") : \E n \in {"condition", "true_label", "false_label"} :
                                    i \notin Subjects("br", n)}
  \cup {i \in Subjects("br", "uncond") : i \notin Subjects("br", "uncond_label")}

LabelFacts ==
  UNION {Rel("br", n) : n \in {"true_label", "false_label", "uncond_label"}}
  \cup Rel("switch_", "default_label") \cup Rel("switch_", "case_label")
  \cup Rel("indirectbr", "label")
  \cup Rel("invoke", "normal_label") \cup Rel("invoke", "exception_label")

NotALabel ==
  {f[2] : f \in {f \in LabelFacts \cup Rel("phi", "pair_label") :
                   Last(f) \notin variable_is_label}}

(* Operands are numbered from zero, below the number of them.              *)
Counted ==
  { <<"switch_", "case_value", "ncases">>, <<"switch_", "case_label", "ncases">>,
    <<"indirectbr", "label", "nlabels">>, <<"phi", "pair_value", "npairs">>,
    <<"phi", "pair_label", "npairs">> }

IndexOutOfRange ==
  {i \in instr : \E c \in Counted : \E f \in Rel(c[1], c[2]) : f[2] = i
                   /\ (f[3] < 0 \/ \E n \in Rel(c[1], c[3]) : n[2] = i /\ f[3] >= n[3])}

AllowedOrderings ==
  [ load |-> {"unordered", "monotonic", "acquire", "seq_cst"},
    store |-> {"unordered", "monotonic", "release", "seq_cst"},
    fence |-> {"acquire", "release", "acq_rel", "seq_cst"} ]

WrongOrdering ==
  {i \in instr : \E g \in DOMAIN AllowedOrderings :
     \E f \in Rel(g, "ordering") : f[2] = i /\ f[3] \notin AllowedOrderings[g]}

SchemaConditions ==
  [ icmp |-> {"eq", "ne", "sgt", "sge", "slt", "sle", "ugt", "uge", "ult", "ule"},
    fcmp |-> {"false", "true", "oeq", "ogt", "oge", "olt", "ole", "one", "ord",
              "ueq", "ugt", "uge", "ult", "ule", "une", "uno"} ]

WrongCondition ==
  {i \in instr : \E g \in DOMAIN SchemaConditions :
     \E f \in Rel(g, "condition") : f[2] = i /\ f[3] \notin SchemaConditions[g]}

AtomicOperations ==
  {"xchg", "add", "sub", "and", "nand", "nor", "or", "xor", "max", "min",
   "umax", "umin", "fadd", "fsub", "fmax", "fmin"}

WrongOperation ==
  {f[2] : f \in {f \in Rel("atomicrmw", "operation") : f[3] \notin AtomicOperations}}

WrongResult ==
  {i \in instr : \/ i \in Subjects("ret", "void_") \cap Subjects("ret", "operand")
                 \/ i \in Subjects("store", "instr") \cap Subjects("instr", "assigns_to")}

(* Consecutive instructions are of one block or the first is a terminator. *)
NotTerminated == {s[1] : s \in BetweenBlocks} \ terminator_instr

-----------------------------------------------------------------------------
(* Landing pads.                                                           *)

landingpad == {f[3] : f \in Rel("invoke", "exception_label")}
phi_instr == Subjects("phi", "instr")

(* The phi nodes that a block starts with, after so many steps from the    *)
(* first.                                                                  *)
StartingPhis(block, first) ==
  LET phis == phi_instr \cap block
      steps == {s \in instr_successor : s[2] \in phis}
      found[n \in 0..Cardinality(phis)] ==
        IF n = 0 THEN first \cap phis
        ELSE LET before == found[n - 1]
             IN before \cup {s[2] : s \in {s \in steps : s[1] \in before}}
  IN found[Cardinality(phis)]

landingpad_first_nonphi(label) ==
  LET block == InBlock(instr_block, label)
      first == InBlock(block_first_instr, label)
      phis == StartingPhis(block, first)
  IN (first \ phi_instr)
     \cup {s[2] : s \in {s \in instr_successor :
                         s[1] \in phis /\ s[2] \in block \ phi_instr}}

valid_landingpad(label) ==
  landingpad_first_nonphi(label) \cap Subjects("landingpad", "instr") # {}

WrongLandingPad ==
  LET pads == landingpad
      instrs == Subjects("landingpad", "instr")
  IN UNION {InBlock(block_first_instr, l) : l \in {l \in pads : ~valid_landingpad(l)}}
     \cup {p[1] : p \in {p \in instr_block : p[1] \in instrs /\ p[2] \notin pads}}
     \cup {i \in instrs :
             /\ i \notin Subjects("landingpad", "cleanup")
             /\ \A f \in Rel("landingpad", "catch_clause") \cup Rel("landingpad", "filter_clause") :
                  f[2] # i \/ f[3] # 0}

(* The address of an indirectbr must have an 8-bit integer type.           *)
IndirectBrAddress ==
  {f[2] : f \in {f \in Rel("indirectbr", "address") :
    \E t \in Rel("variable", "type") \cup Rel("constant", "type") :
      t[2] = f[3] /\ t[3] # "i8"}}

(* schema_invalid_instr without the constraint on this address.            *)
MalformedInstr ==
  MissingFacts \cup BranchesIncomplete \cup NotALabel \cup IndexOutOfRange
  \cup WrongOrdering \cup WrongCondition \cup WrongOperation \cup WrongResult
  \cup NotTerminated \cup WrongLandingPad
  \cup (instr \ (Subjects("instr", "func") \cap {p[1] : p \in instr_block}))

-----------------------------------------------------------------------------
(* Constraints on functions; the parameter types of the function's type    *)
(* are those of its parameters.                                            *)

func_decl == Subjects("func", "id_decl") \cup Subjects("func", "id_defn")

ParamTypes(funcref) ==
  LET e == (CHOOSE p \in gen.issued : p[1] = funcref)[2]
      m == CHOOSE m \in DOMAIN Prog.modules : Prog.modules[m].path = e[2]
  IN Prog.modules[m].functions[e[3]].params

schema_invalid_func ==
  {f \in func_decl : f \notin Subjects("func", "ty") \/ f \notin Subjects("func", "name")}
  \cup {p[2] : p \in {p \in Rel("func", "param") :
                 << <<"variable", "type">>, p[4], ParamTypes(p[2])[p[3] + 1].type >>
                   \notin gen.facts}}
  \cup {f \in Subjects("func", "id_defn") : \E n \in DOMAIN ParamTypes(f) :
          \A p \in Rel("func", "param") : p[2] # f \/ p[3] # n - 1}

-----------------------------------------------------------------------------
(* Properties.                                                             *)

Done == pc = "done"

(* The contexts follow the walk, also over functions that are left early:  *)
(* one for the module, one more in a function, in a block and while an     *)
(* instruction is visited, and none when the module is left.               *)
ContextsNested ==
  CASE pc \in {"module", "done", "ParseException"} -> gen.cm = <<>>
    [] pc \in {"globals", "aliases", "function"} -> Len(gen.cm.contexts) = 1
    [] pc \in {"params", "signatures", "block"} ->
         Len(gen.cm.contexts) = 2 /\ FunctionContext(gen.cm) = <<at.function>>
    [] pc = "instr" -> Len(gen.cm.contexts) = 3 /\ FunctionContext(gen.cm) = <<at.function>>
    [] pc = "visit" -> Len(gen.cm.contexts) = 4 /\ FunctionContext(gen.cm) = <<at.function>>
    [] OTHER -> pc = "invalid_argument"

(* Distinct instructions, values, constants, functions and globals never   *)
(* get the same refmode, over all functions and modules of a run: the      *)
(* promise of the counters in the context manager and the numbering.       *)
EntitiesIdentified ==
  \A p, q \in gen.issued : p[1] = q[1] => p[2] = q[2]

FunctionOfValue(e) ==
  LET m == CHOOSE m \in DOMAIN Prog.modules : Prog.modules[m].path = e[2]
  IN Prog.modules[m].functions[e[3]]

(* Functions that an expression of the signatures matches.                 *)
HasSignature(f) ==
  \E file \in ToSet(Prog.signatures) : \E member \in ToSet(file.members) :
    f.demangled \in member.key.matches

(* Every parameter, block and operand that is no constant ends up as a     *)
(* variable of the function it belongs to, and of no other: the variables  *)
(* collected while a function is visited are written before the next one.  *)
(* That holds of every function without a signature, also after one whose  *)
(* turn ended early and left its own parameters in the cache.              *)
VariablesOwned ==
  Done => \A p \in gen.issued : p[2][1] = "value" /\ ~HasSignature(FunctionOfValue(p[2])) =>
    /\ {f[3] : f \in {f \in Rel("variable", "in_func") : f[2] = p[1]}}
         = {"@" \o FunctionOfValue(p[2]).name}
    /\ p[1] \in Subjects("variable", "id")
    /\ Cardinality({f \in Rel("variable", "type") : f[2] = p[1]}) = 1

(* The query interface finds, for every refmode that results can name, the *)
(* LLVM value it was made for.                                             *)
ResultMapComplete ==
  Done => \A p \in gen.issued :
    \/ p[2][1] \in {"instr", "func", "const"}
    \/ p[2][1] = "value" /\ p[2][4].kind \in {"arg", "instr"}
    => p[1] \in DOMAIN gen.results /\ gen.results[p[1]] = p[2]

(* The control flow graph survives the way through the facts.  Each block  *)
(* with instructions has exactly one first and one last instruction,       *)
(* although the successor relation runs on from block to block; and the    *)
(* predecessors of blocks, which LLVM tells, agree with the labels of      *)
(* terminators, which the visitor takes from operand positions.            *)
ControlFlowRebuilt ==
  Done =>
    /\ \A pairs \in {block_first_instr, block_last_instr} :
         \A label \in {p[2] : p \in instr_block} : Cardinality(InBlock(pairs, label)) = 1
    /\ {<<f[3], f[2]>> : f \in Rel("block", "predecessor")}
         = UNION {{<<p[2], Last(f)>> : p \in {p \in instr_block : p[1] = f[2]}} : f \in LabelFacts}

(* Whatever the instructions and functions of the program, the facts meet  *)
(* the constraints of the schema, but for one that every indirectbr breaks: *)
(* the schema wants its address to be an i8, LLVM an i8*.                  *)
SchemaSatisfied ==
  Done => /\ MalformedInstr = {} /\ schema_invalid_func = {}
          /\ IndirectBrAddress = Subjects("indirectbr", "instr")

(* The signatures the user gave a function are in the facts, all of them   *)
(* and no others, whatever the order in which the members of the file are  *)
(* visited: the union over all expressions that match.                     *)
SignaturesComplete ==
  Done => UNION {Rel("signature", s) : s \in DOMAIN Arguments} =
    UNION {UNION {UNION {UNION {
      LET part == member.value.items[n].members[1]
      IN IF f.demangled \in member.key.matches /\ part.key \in DOMAIN Arguments
         THEN { << <<"signature", part.key>>, "@" \o f.name >>
                \o [k \in DOMAIN part.value.items |->
                      IF part.value.items[k].json = "str" THEN "@" \o part.value.items[k].value
                      ELSE part.value.items[k].value] }
         ELSE {}
      : n \in DOMAIN member.value.items}
      : member \in ToSet(file.members)}
      : file \in ToSet(Prog.signatures)}
      : f \in UNION {ToSet(M.functions) : M \in ToSet(Prog.modules)}}

(* No fact ever mentions a type that writeTypes is not going to describe,  *)
(* also when it was cached with a variable first: the predicates with a    *)
(* type, of whichever group, have one of three names.                      *)
TypeNames == {"type", "ty", "to_type"}
TypesRecorded ==
  \A f \in gen.facts : f[1][2] \in TypeNames => f[3] \in gen.types \cup {"label"}
=============================================================================
