---------------------------- MODULE MCAliasQuery ----------------------------
(***************************************************************************)
(* Two variables and the address of a global.  An array element at a known *)
(* index and the element at any index are two allocations that may alias.  *)
(* Every sequence of at most MaxRows rows about the variables and the      *)
(* allocations RowAllocs is a result of the analysis; the global points to *)
(* its own allocation, as an operand only.                                 *)
(***************************************************************************)
EXTENDS AliasQuery

CONSTANTS p, q, g, MaxRows, RowAllocs

MCValues == {p, q, g}
MCVariables == {p, q}
MCAllocs == {"@g"} \cup RowAllocs

MCRows ==
    [allocCtx : {0}, to : RowAllocs, ptrCtx : {0, 1}, from : MCVariables]

MCRowSequences == UNION {[1 .. n -> MCRows] : n \in 0 .. MaxRows}

MCResults ==
    {[variable_points_to |-> rows,
      operand_points_to |->
        {rows[i] : i \in DOMAIN rows}
          \cup {[allocCtx |-> 0, to |-> "@g", ptrCtx |-> c, from |-> g]
                  : c \in {0, 1}},
      alloc_may_alias |->
        {<<"arr[*]", "arr[64]">>, <<"arr[64]", "arr[*]">>}
          \cap (RowAllocs \X RowAllocs)]
        : rows \in MCRowSequences}
=============================================================================
