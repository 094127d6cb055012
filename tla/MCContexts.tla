---------------------------- MODULE MCContexts ----------------------------
(* Two functions that call each other: one call that never carries          *)
(* pointers, one to a function with a single call site, and one ordinary    *)
(* call.  Depth 3 is the first at which all three drop_last rules matter.   *)
EXTENDS Contexts, TLC

CONSTANTS f, g, c1, c2, c3

MCFunction == {f, g}
MCCallBase == {c1, c2, c3}
MCInstrFunc == c1 :> f @@ c2 :> g @@ c3 :> f
MCOneCallsite == {c2, c3}
MCNoPointers == {c3}
=============================================================================
