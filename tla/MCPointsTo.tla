----------------------------- MODULE MCPointsTo -----------------------------
(* The subset analysis of the program of MCProgram. *)
EXTENDS StripCtx, MCProgram
=============================================================================
