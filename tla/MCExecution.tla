---------------------------- MODULE MCExecution ----------------------------
(***************************************************************************)
(* Executions of the program of MCProgram.  In insensitive mode without    *)
(* argv and destructors: there, the rules for these two refer to contexts  *)
(* in which nothing runs.                                                  *)
(***************************************************************************)
EXTENDS Execution, MCProgram

Plain == INSTANCE Execution WITH argv_var_points_to <- {}, cxa_atexit <- {}

MCInit ==
  \/ ExecutionInit /\ ~ insensitive
  \/ Plain!ExecutionInit /\ insensitive

MCNext ==
  \/ ~ insensitive /\ ExecutionNext
  \/ insensitive /\ Plain!ExecutionNext

MCSpec == MCInit /\ [][MCNext]_<<vars, analysed, machine>>
=============================================================================
