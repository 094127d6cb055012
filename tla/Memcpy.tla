------------------------------- MODULE Memcpy -------------------------------
(***************************************************************************)
(* Calls of memcpy (datalog/points-to/memcpy.dl): pairs of allocations of  *)
(* which one is copied to the other, down to their parts, and the rule of  *)
(* the analysis that copies what the parts point to (subset.dl,            *)
(* unification.dl).  The pairs that signatures give (memcpy_sig) are left  *)
(* out.                                                                    *)
(*                                                                         *)
(* A program has copies: calls [to, from, size] with the variables for the *)
(* two addresses and [known, n] for the number of bytes.                   *)
(***************************************************************************)
EXTENDS FieldSensitivity

VARIABLE rec_memcpy    \* <<to, from>>

subset == <<analysis, rec_memcpy>>

(* A size that is not known is taken for zero.                             *)
SizeOf(copy) == IF copy.size.known THEN copy.size.n ELSE 0

(* <<to, from, size>>                                                      *)
_try_memcpy ==
  UNION {operand_points_to(c.to) \X operand_points_to(c.from) \X {SizeOf(c)} : c \in program.copies}

HasBytes(a, n) ==
  a \in dynamically_sized_alloc \/ \E s \in allocation_size : s[1] = a /\ s[2] >= n

_do_memcpy ==
  {<<p[1], p[2]>> : p \in {p \in _try_memcpy :
     /\ ptr_compatible_allocation(p[1])
     /\ Compatible(allocation_type[p[2]], allocation_type[p[1]])
     /\ HasBytes(p[1], p[3]) /\ HasBytes(p[2], p[3])}}

-----------------------------------------------------------------------------
(* The parts of two allocations of which one is copied to the other.       *)

PartsWithOffset(a) == {b \in Subregions(a, "index") \cup Subregions(a, "field") : HasOffset(b)}

(* No index of the program is at this offset in a.                         *)
Untracked(a, offset) ==
  \/ alloc_subregion(a) /\ IsArray(allocation_type[a]) /\ offset \notin array_offset(allocation_type[a])
  \/ basic_allocation(a) /\ offset \notin pointer_offset(allocation_type[a])

PartsCopied(to, from) ==
  {p \in PartsWithOffset(to) \X PartsWithOffset(from) : OffsetInBase(p[1]) = OffsetInBase(p[2])}
  \cup (Subregions(to, "any") \X Subregions(from, "any"))
  \cup {p \in Subregions(to, "any") \X PartsWithOffset(from) : Untracked(to, OffsetInBase(p[2]))}

CopyPairs == _do_memcpy \cup UNION {PartsCopied(p[1], p[2]) : p \in rec_memcpy}

PairCopies ==
  /\ rec_memcpy' = rec_memcpy \cup CopyPairs
  /\ UNCHANGED analysis

(* What a part points to is what the part it is copied to points to.       *)
CopiedFacts ==
  UNION {{<<q[1], p[1]>> : q \in {q \in ptr_points_to : q[2] = p[2]}} : p \in rec_memcpy}

CopyContents ==
  /\ ptr_points_to' = ptr_points_to \cup CopiedFacts
  /\ UNCHANGED <<subobjects, gep_points_to, var_points_to, rec_memcpy>>

SubsetInit == AnalysisInit /\ rec_memcpy = {}

AnalyseSubset == (Analyse /\ UNCHANGED rec_memcpy) \/ PairCopies \/ CopyContents
=============================================================================
