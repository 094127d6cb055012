-------------------------- MODULE MCFactGenerator --------------------------
(* Programs in which every kind of instruction and constant occurs: with   *)
(* named and unnamed values, several functions and modules, exceptions,    *)
(* and signature files that are right, wrong in one place, or no object.   *)
EXTENDS SchemaConstraints

-----------------------------------------------------------------------------
(* Building blocks.                                                        *)

C(sort, text, type, value, ops) ==
  [kind |-> "const", sort |-> sort, text |-> text, type |-> type, value |-> value, ops |-> ops]
I32(n) == C("int", ToString(n), "i32", n, <<>>)
Undef == C("undef", "undef", "i32", 0, <<>>)
FunctionConst(name, type) == C("function", "@" \o name, type, 0, <<>>)
GlobalConst(name) == C("global", "@" \o name, "i32*", 0, <<>>)
Meta(text) == [kind |-> "meta", text |-> text]
LocalMeta(type, v) == [kind |-> "localmeta", type |-> type, inner |-> v]
Asm == [kind |-> "asm", text |-> "nop", constraints |-> "~{memory}", type |-> "void ()"]

NoAttrs ==
  [flags |-> {}, singlethread |-> FALSE, ordering |-> "NotAtomic", align |-> 4, cc |-> "C",
   volatile |-> FALSE, tail |-> FALSE]
I(op, name, type, ops) ==
  [op |-> op, name |-> name, type |-> type, ops |-> ops, attrs |-> NoAttrs, pos |-> <<>>]
J(op, name, type, ops, attrs) ==
  [op |-> op, name |-> name, type |-> type, ops |-> ops, attrs |-> attrs @@ NoAttrs,
   pos |-> << <<3, 1>> >>]
B(name, instrs) == [name |-> name, instrs |-> instrs]

F(name, type, params, blocks) ==
  [name |-> name, demangled |-> name, type |-> type, visibility |-> "DefaultVisibility",
   linkage |-> "ExternalLinkage", align |-> 0, gc |-> <<>>, pers |-> <<>>, cc |-> "C",
   unnamedAddr |-> FALSE, decl |-> blocks = <<>>, section |-> <<>>, params |-> params,
   blocks |-> blocks]
P(name, type) == [name |-> name, type |-> type]

G(name, init) ==
  [name |-> name, demangled |-> name, type |-> "i32*", valueType |-> "i32",
   visibility |-> "DefaultVisibility", linkage |-> "ExternalLinkage", tls |-> "NotThreadLocal",
   externallyInitialized |-> FALSE, constant |-> FALSE, init |-> init, section |-> <<>>,
   align |-> 0]
Module(path, globals, aliases, functions) ==
  [path |-> path, parses |-> TRUE, globals |-> globals, aliases |-> aliases,
   functions |-> functions, sizes |-> [i32 |-> 4, i8 |-> 1]]

-----------------------------------------------------------------------------
(* Control flow and exceptions.                                            *)

Main ==
  [F("main", "i32 (i32, i32)", <<P("argc", "i32"), P("", "i32")>>,
   << B("", << J("alloca", "", "i32*", <<I32(1)>>, [allocated |-> "i32", array |-> FALSE]),
               J("store", "", "void", <<Arg(1), Instr(1, 1)>>,
                 [volatile |-> TRUE, ordering |-> "Release", singlethread |-> TRUE]),
               J("icmp", "c", "i1", <<Arg(2), I32(0)>>, [pred |-> "ICMP_EQ"]),
               I("br", "", "void", <<Instr(1, 3), Block(3), Block(2)>>) >>),
      B("sw", << I("switch", "", "void", <<Arg(1), Block(4), I32(0), Block(4), I32(1), Block(3)>>) >>),
      B("", << J("invoke", "r", "i32",
                 <<Arg(1), Block(4), Block(5), FunctionConst("callee", "i32 (i32)")>>,
                 [cc |-> "Fast"]) >>),
      B("merge",
        << J("phi", "", "i32", <<I32(0), I32(0), Instr(3, 1)>>,
             [incoming |-> <<Block(2), Block(2), Block(3)>>]),
           J("dbg.declare", "", "void",
             <<LocalMeta("i32*", Instr(1, 1)), Meta("!7"),
               FunctionConst("llvm.dbg.declare", "void (metadata, metadata)")>>,
             [source |-> "x", address |-> Instr(1, 1)]),
           I("br", "", "void", <<Block(6)>>) >>),
      B("lpad",
        << J("phi", "p", "i32", <<I32(2)>>, [incoming |-> <<Block(3)>>]),
           J("landingpad", "", "{ i8*, i32 }",
             << C("other", "zeroinitializer", "[1 x i8*]", 0, <<>>), GlobalConst("g") >>,
             [cleanup |-> FALSE, filters |-> {0}]),
           I("resume", "", "void", <<Instr(5, 2)>>) >>),
      B("out", << I("ret", "", "void", <<Instr(4, 1)>>) >>) >>)
   EXCEPT !.pers = <<C("bitcast", "bitcast (@pers to i8*)", "i8*", 0,
                       <<FunctionConst("pers", "i32 (...)")>>)>>,
          !.gc = <<"statepoint">>, !.section = <<".text.hot">>]

(* A second function, with the same names and numbers.                     *)
Callee ==
  [F("callee", "i32 (i32)", <<P("argc", "i32")>>,
   << B("", << J("call", "", "i32", <<Arg(1), FunctionConst("allocate", "i32 (i32)")>>,
                 [tail |-> TRUE, cc |-> "Cold"]),
               I("call", "", "void", <<Asm>>),
               I("ret", "", "void", <<Instr(1, 1)>>) >>) >>)
   EXCEPT !.linkage = "InternalLinkage", !.cc = "Fast", !.align = 16]

Declaration(name, demangled) ==
  [F(name, "i32 (i32)", <<P("", "i32")>>, <<>>)
   EXCEPT !.demangled = demangled, !.unnamedAddr = TRUE]

Table ==
  C("array", "[i32 1, i32 70000]", "[2 x i32]", 0, <<I32(1), I32(70000)>>)

ControlModule ==
  Module("/a.bc", << G("g", <<I32(7)>>),
                     [G("table", <<Table>>) EXCEPT !.constant = TRUE, !.section = <<".rodata">>,
                                                   !.tls = "LocalExecTLSModel", !.align = 8,
                                                   !.linkage = "PrivateLinkage"] >>,
         << [name |-> "al", type |-> "i32*", visibility |-> "HiddenVisibility",
             linkage |-> "WeakAnyLinkage", aliasee |-> GlobalConst("g")] >>,
         << Declaration("allocate", "allocate"), Declaration("_Z4freePi", "free(int*)"),
            Main, Callee >>)

-----------------------------------------------------------------------------
(* Memory, arithmetic, casts and constant expressions.                     *)

Gep(sort) == C(sort, "gep (@g, 0, 1)", "i32*", 0, <<GlobalConst("g"), I32(0), I32(1)>>)

MemoryModule ==
  Module("/b.bc", << [G("h", <<>>) EXCEPT !.externallyInitialized = TRUE] >>, <<>>,
   << F("callee2", "void (i32*, i32)", <<P("p", "i32*"), P("n", "i32")>>,
      << B("entry",
         << J("alloca", "a", "i32*", <<Arg(2)>>, [allocated |-> "i32", array |-> TRUE]),
            J("load", "", "i32", <<Gep("gep")>>, [ordering |-> "Acquire"]),
            J("getelementptr", "", "i32*", <<Arg(1), I32(3), Arg(2)>>, [inbounds |-> TRUE]),
            J("cmpxchg", "", "{ i32, i1 }", <<Arg(1), I32(0), Instr(1, 2)>>,
              [success |-> "AcquireRelease", failure |-> "Monotonic", volatile |-> TRUE]),
            J("atomicrmw", "", "i32", <<Arg(1), I32(1)>>,
              [binop |-> "FAdd", ordering |-> "SequentiallyConsistent", volatile |-> TRUE]),
            J("fence", "", "void", <<>>, [ordering |-> "AcquireRelease", singlethread |-> TRUE]),
            I("bitcast", "", "i8*", <<C("inttoptr", "inttoptr (i32 1 to i32*)", "i32*", 0, <<I32(1)>>)>>),
            J("add", "", "i32", <<Arg(2), C("ptrtoint", "ptrtoint (@h)", "i32", 0, <<GlobalConst("h")>>)>>,
              [flags |-> {"nsw", "fast", "nnan"}]),
            I("va_arg", "", "i32", <<Instr(1, 1)>>),
            I("ret", "", "void", <<>>) >>) >>) >>)

-----------------------------------------------------------------------------
(* Aggregates, vectors and the remaining instructions.                     *)

Struct == C("struct", "{ i32 1, null }", "{ i32, i32* }", 0,
            <<I32(1), C("null", "null", "i32*", 0, <<>>)>>)
Vector == C("vector", "<i32 0, i32 undef>", "<2 x i32>", 0, <<I32(0), Undef>>)

VectorModule ==
  Module("/c.bc", <<>>, <<>>,
   << F("vec", "void (<2 x i32>, i8*)", <<P("v", "<2 x i32>"), P("", "i8*")>>,
      << B("", << J("insertvalue", "", "{ i32, i32* }", <<Struct, I32(2)>>, [indices |-> <<0>>]),
                  J("extractvalue", "", "i32", <<Instr(1, 1)>>, [indices |-> <<0>>]),
                  I("insertelement", "", "<2 x i32>", <<Arg(1), Instr(1, 2), I32(0)>>),
                  I("extractelement", "", "i32", <<Instr(1, 3), I32(1)>>),
                  J("shufflevector", "", "<2 x i32>", <<Arg(1), Instr(1, 3)>>, [mask |-> Vector]),
                  J("fcmp", "f", "i1", <<C("fp", "1.0", "float", 0, <<>>), C("fp", "2.0", "float", 0, <<>>)>>,
                    [pred |-> "FCMP_ORD"]),
                  I("select", "", "i32", <<Instr(1, 6), Instr(1, 4), Undef>>),
                  I("freeze", "", "i32", <<Instr(1, 7)>>),
                  I("fneg", "", "float", <<C("other expr", "fadd (1.0, 2.0)", "float", 0, <<>>)>>),
                  I("indirectbr", "", "void", <<Arg(2), Block(2), Block(3)>>) >>),
         B("dead", << I("unreachable", "", "void", <<>>) >>),
         B("", << I("unreachable", "", "void", <<>>) >>) >>) >>)

(* A function with a body and a signature, and one after it.               *)
Forward(name, callee) ==
  F(name, "i32 (i32)", <<P("n", "i32")>>,
    << B("", << I("call", "", "i32", <<Arg(1), FunctionConst(callee, "i32 (i32)")>>),
                I("ret", "", "void", <<Instr(1, 1)>>) >>) >>)

SignedModule ==
  Module("/d.bc", <<>>, <<>>, << Forward("allocate", "malloc"), Forward("user", "allocate") >>)

Broken == [Module("/broken.bc", <<>>, <<>>, <<>>) EXCEPT !.parses = FALSE]

-----------------------------------------------------------------------------
(* Signature files.                                                        *)

Arr(items) == [json |-> "array", items |-> items]
Obj(members) == [json |-> "object", members |-> members]
Num(n) == [json |-> "int", value |-> n]
Str(s) == [json |-> "str", value |-> s]
Component(key, args) == Obj(<<[key |-> key, value |-> Arr(args)]>>)
Regex(text, matches) == [text |-> text, valid |-> TRUE, matches |-> matches]
Member(text, matches, components) ==
  [key |-> Regex(text, matches), value |-> Arr(components)]

GoodSignatures ==
  Obj(<< Member("^alloc", {"allocate"},
                <<Component("pts_return_alloc", <<>>), Component("pts_arg_memcpy_arg", <<Num(0), Num(1)>>)>>),
         Member("free", {"free(int*)"},
                <<Component("dataflow", <<>>), Component("pts_arg_points_to_global", <<Num(0), Str("g")>>)>>),
         Member("a", {"allocate"}, <<Component("pts_none", <<>>)>>) >>)

(* The second component has an argument too many.                          *)
WrongComponent ==
  Obj(<< Member("^alloc", {"allocate"}, <<Component("pts_return_alloc", <<>>),
                                          Component("pts_none", <<Num(0)>>)>>),
         Member("a", {"allocate"}, <<Component("pts_arg_alloc", <<Num(0)>>)>>) >>)

SignatureFiles ==
  << <<>>, <<GoodSignatures>>, <<WrongComponent>>, <<[json |-> "invalid"]>> >>

ModuleLists ==
  << <<ControlModule>>, <<MemoryModule, VectorModule>>, <<ControlModule, Broken>>,
     <<VectorModule, ControlModule>>, <<SignedModule, ControlModule>> >>

MCPrograms ==
  [n \in 1..20 |-> [modules |-> ModuleLists[1 + ((n - 1) \div 4)],
                    signatures |-> SignatureFiles[1 + ((n - 1) % 4)],
                    sensitivity |-> "1-callsite"]]

(* The values that a module mentions, and the constants among and within   *)
(* them.                                                                   *)
ValuesOf(i) ==
  ToSet(i.ops) \cup IF i.op = "shufflevector" THEN {i.attrs.mask} ELSE {}
ValuesIn(M) ==
  UNION {ToSet(g.init) : g \in ToSet(M.globals)} \cup {a.aliasee : a \in ToSet(M.aliases)}
  \cup UNION {ToSet(f.pers) : f \in ToSet(M.functions)}
  \cup UNION {UNION {UNION {ValuesOf(i) : i \in ToSet(b.instrs)} : b \in ToSet(f.blocks)} :
                f \in ToSet(M.functions)}

RECURSIVE WithOperands(_)
WithOperands(constants) ==
  IF constants = {} THEN {}
  ELSE constants \cup WithOperands(UNION {ToSet(WrittenOperands(c)) : c \in constants})

MCConstants ==
  WithOperands({v \in UNION {UNION {ValuesIn(M) : M \in ToSet(modules)} : modules \in ToSet(ModuleLists)} :
                  v.kind = "const"})
=============================================================================
