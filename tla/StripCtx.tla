------------------------------ MODULE StripCtx ------------------------------
(***************************************************************************)
(* Context-insensitive projections of the relations of the analysis        *)
(* (datalog/points-to/strip-context-projections.dl), and what they mean:   *)
(* the projections are an analysis without contexts.                       *)
(***************************************************************************)
EXTENDS PointsTo

stripctx_callgraph_edge == { <<e[2], e[4]>> : e \in callgraph_edge }
stripctx_var_points_to == { <<v[2], v[4]>> : v \in var_points_to }
stripctx_ptr_points_to == { <<p[2], p[4]>> : p \in ptr_points_to }

(* reachable_func, as a set. *)
ReachableFunctions == { r[2] : r \in reachable_context }

CF ==
  INSTANCE ContextFree WITH
    reached <- ReachableFunctions,
    callgraph_edge <- stripctx_callgraph_edge,
    var_points_to <- stripctx_var_points_to,
    ptr_points_to <- stripctx_ptr_points_to

(* Every step of the analysis is, of the projections, a step of the         *)
(* analysis without contexts.  Contexts only ever add precision: no         *)
(* interplay of k, dropped items, dropped contexts and returns into several *)
(* callers makes up a flow.                                                 *)
ImplementsContextFree == CF!Spec
=============================================================================
