---------------------------- MODULE MCUnionFind ----------------------------
(* Four allocations (two contexts of two allocation symbols) and unify0     *)
(* facts that join them along two different paths.                          *)
EXTENDS UnionFind

MCContexts == {1, 2}
MCAllocations == {1, 2}

(* The first and the last element meet only through the two middle ones, of *)
(* which <<2, 1>> is joined first as the larger, then as the smaller end.    *)
MCUnifyFacts ==
  { <<<<2, 2>>, <<1, 1>>>>,
    <<<<1, 2>>, <<2, 2>>>>,
    <<<<2, 1>>, <<1, 2>>>>,
    <<<<2, 1>>, <<2, 2>>>>,
    <<<<2, 1>>, <<1, 1>>>> }
=============================================================================
