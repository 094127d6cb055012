------------------------------ MODULE MCProgram ------------------------------
(* main calls id, which copies its parameter, and mk, which returns a new    *)
(* object, and a callback through a global table:                           *)
(*   main(argc, argv):  p = alloca;  c1: i = id(p);  c2: m = mk()           *)
(*                      store m at p;  x = load i                           *)
(*                      a = bitcast argv;  s = load a                       *)
(*                      f = load @table;  c3: f(m)                          *)
(*                      c4: atexit(@fin);  c5: __cxa_atexit(@dtor, @obj)    *)
(*   id(q):    r = bitcast q;  return r                                     *)
(*   mk():     h = malloc;  return h                                        *)
(*   cb(v):    store v at @first, the first field of @obj;  c6: fin()       *)
(*   fin():    y = inttoptr;  c7: mk()                                      *)
(*   dtor(t):  c8: u = id(t);  z = load u                                   *)
(* c6 passes and returns no pointers; atexit, __cxa_atexit and fin have one *)
(* call site each; fin and id are reached from main and at exit.            *)
EXTENDS TLC

CONSTANTS main, id, mk, cb, fin, dtor, atexit_func, cxa_atexit_func,
  c1, c2, c3, c4, c5, c6, c7, c8

MCFunction == {main, id, mk, cb, fin, dtor, atexit_func, cxa_atexit_func}
MCCallBase == {c1, c2, c3, c4, c5, c6, c7, c8}
MCInstrFunc ==
  c1 :> main @@ c2 :> main @@ c3 :> main @@ c4 :> main @@ c5 :> main
    @@ c6 :> cb @@ c7 :> fin @@ c8 :> dtor
MCOneCallsite == {c4, c5, c6}
MCNoPointers == {c6}

MCVariableInFunc ==
  [ v \in {"argv", "p", "i", "m", "x", "a", "s", "f"} |-> main ]
    @@ [ v \in {"q", "r"} |-> id ] @@ "h" :> mk @@ "v" :> cb @@ "y" :> fin
    @@ [ v \in {"t", "u", "z"} |-> dtor ]
MCVariable == DOMAIN MCVariableInFunc
MCConstant == {"@table", "@fin", "@dtor", "@obj", "@first"}
MCAllocation ==
  {"stack", "heap", "*argv*", "*argv[0]*", "*argv[*]*", "*argv string*", "table", "obj", "obj.0",
   "func cb", "func fin", "func dtor", "*unknown*"}

MCRoots == {<<"main", main>>}
MCArgv == {<<"argv", "*argv*">>}
MCArgvPtr == {<<"*argv[0]*", "*argv string*">>}
MCAllocs == {[func |-> main, to |-> "p", alloc |-> "stack"], [func |-> mk, to |-> "h", alloc |-> "heap"]}
MCAssign ==
  {[func |-> main, to |-> "a", value |-> "argv"], [func |-> id, to |-> "r", value |-> "q"]}
MCIntToPtr == {[func |-> fin, to |-> "y"]}
MCStore ==
  {[func |-> main, value |-> "m", address |-> "p"],
   [func |-> cb, value |-> "v", address |-> "@first"]}
MCLoad ==
  {[func |-> main, to |-> "x", address |-> "i"],
   [func |-> main, to |-> "s", address |-> "a"],
   [func |-> main, to |-> "f", address |-> "@table"],
   [func |-> dtor, to |-> "z", address |-> "u"]}
(* Without the loads that nothing depends on: they only multiply the orders *)
(* in which facts are derived.                                              *)
MCLoadFewer == { i \in MCLoad : i.to \in {"s", "f"} }
MCDirect ==
  {<<c1, id>>, <<c2, mk>>, <<c4, atexit_func>>, <<c5, cxa_atexit_func>>,
   <<c6, fin>>, <<c7, mk>>, <<c8, id>>}
MCFuncOperand == {<<c3, "f">>}
MCTypeCompatible == {<<c3, cb>>}
MCInvokeArg == {<<c1, 0, "p">>}
MCCallArg ==
  {<<c3, 0, "m">>, <<c4, 0, "@fin">>, <<c5, 0, "@dtor">>, <<c5, 1, "@obj">>, <<c8, 0, "t">>}
MCFuncParam == {<<main, 1, "argv">>, <<id, 0, "q">>, <<cb, 0, "v">>, <<dtor, 0, "t">>}
MCReturns == {<<id, "r">>, <<mk, "h">>}
MCCallAssigns == {<<c1, "i">>, <<c2, "m">>, <<c8, "u">>}
MCFuncByLocation == {<<"func cb", cb>>, <<"func fin", fin>>, <<"func dtor", dtor>>}
MCConstantInFunc ==
  {<<"@table", main>>, <<"@fin", main>>, <<"@dtor", main>>, <<"@obj", main>>, <<"@first", cb>>}
MCConstantPointsTo ==
  {<<"@table", "table">>, <<"@fin", "func fin">>, <<"@dtor", "func dtor">>,
   <<"@obj", "obj">>, <<"@first", "obj.0">>}
MCConstantPtr == {<<"func cb", "table">>}
MCPtrCompatible == {"stack", "heap", "obj", "obj.0"}

AllPairs(class) == { <<x, y>> : x, y \in class }
MCAliases ==
  UNION { AllPairs(c) : c \in {{"*argv*", "*argv[0]*"}, {"obj", "obj.0"}} \cup { {x} : x \in MCAllocation } }
MCMatches == {<<"*argv[0]*", "*argv[*]*">>}
MCDtorReceiver == {<<dtor, "obj">>}
=============================================================================
