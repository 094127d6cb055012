-------------------------- MODULE FieldSensitivity -------------------------
(***************************************************************************)
(* Field-sensitive treatment of getelementptr                              *)
(* (datalog/points-to/field-sensitivity.dl) and the rules of the subset    *)
(* analysis that look at aliases and matches of allocations (core.dl,      *)
(* subset.dl).  Contexts are left out: these rules copy them from the base *)
(* pointer, or join on them.                                               *)
(*                                                                         *)
(* geps maps the variable that an instruction assigns to, which stands for *)
(* the instruction, to [base, type, indices]: the variable it starts from, *)
(* the pointer type of that variable, and its indices.  A program also has *)
(* points_to, the pairs of an allocation and a variable that hold from the *)
(* beginning (allocations and addresses of globals), and its assignments   *)
(* [to, value], stores [address, value] and loads [to, address].           *)
(***************************************************************************)
EXTENDS Subobjects

VARIABLES
  gep_points_to,    \* <<gep, index, baseAlloc, alloc>>
  var_points_to,    \* <<alloc, var>>
  ptr_points_to     \* <<alloc, baseAlloc>>

analysis == <<subobjects, gep_points_to, var_points_to, ptr_points_to>>

operand_points_to(v) == {p[1] : p \in {p \in var_points_to : p[2] = v}}

-----------------------------------------------------------------------------
(* The first index, applied to a pointer to a.                             *)

FirstIndex(g) == g.indices[1]

gep_zero_index_offset(g) ==
  {o \in {0} : FirstIndex(g).known /\ FirstIndex(g).n = 0}
  \cup {i.n * Size[Component(g.type)] :
          i \in {i \in {FirstIndex(g)} : i.known /\ IsSized(Component(g.type))}}

Stays(g, a) ==
  {b \in {a} : \/ 0 \in gep_zero_index_offset(g)
               \/ alloc_subregion(a) /\ Last(a).at = "any"}

(* The parts of base at an offset, and the one at any index if there is    *)
(* none because none is at such an offset.                                 *)
PartsAt(base, offset) ==
  {b \in Subregions(base, "index") \cup Subregions(base, "field") :
     HasOffset(b) /\ OffsetInBase(b) = offset}

AnyPartOf(base, offset, tracked) ==
  {b \in Subregions(base, "any") :
     /\ offset \notin tracked
     /\ IsSized(allocation_type[base]) /\ Size[allocation_type[base]] # 0
     /\ offset % Size[allocation_type[base]] = 0}

FromBasic(a, offset) ==
  IF basic_allocation(a)
  THEN PartsAt(a, offset) \cup AnyPartOf(a, offset, pointer_offset(allocation_type[a]))
  ELSE {}

(* The offset of the element that a points to counts as well.              *)
FromElement(a, offset) ==
  IF alloc_subregion(a) /\ Last(a).at = "index" /\ HasOffset(a)
  THEN LET base == Front(a)
           type == allocation_type[base]
           sum == OffsetInBase(a) + offset
       IN PartsAt(base, sum)
          \cup (IF basic_allocation(base) THEN AnyPartOf(base, sum, pointer_offset(type))
                ELSE IF IsArray(type) THEN AnyPartOf(base, sum, array_offset(type))
                ELSE {})
  ELSE {}

(* An i8* into a struct counts bytes.                                      *)
FromBytes(g, a) ==
  {b \in Subregions(a, "field") :
     /\ Component(g.type) = i8
     /\ IsStruct(allocation_type[a])
     /\ FirstIndex(g).known => OffsetInBase(b) = FirstIndex(g).n}

AtVariable(g, a) ==
  {b \in Subregions(a, "any") : ~FirstIndex(g).known}
  \cup {b \in IF alloc_subregion(a) /\ Last(a).at = "index" THEN Subregions(Front(a), "any") ELSE {} :
          ~FirstIndex(g).known /\ IsArray(g.type)}

FirstIndexFrom(g, a) ==
  Stays(g, a) \cup FromBytes(g, a) \cup AtVariable(g, a)
  \cup UNION {FromBasic(a, o) \cup FromElement(a, o) : o \in gep_zero_index_offset(g)}

-----------------------------------------------------------------------------
(* The remaining indices, applied to a struct or an array in memory.       *)

_gep_type_compatible(type, a) ==
  \/ Compatible(type, allocation_type[a])
  \/ /\ alloc_subregion(a) /\ Last(a).at \in {"index", "any"}
     /\ \E p \in Type : IsPointer(p) /\ Component(p) = allocation_type[a] /\ Compatible(type, p)

TrackedIndices(a) ==
  IF basic_allocation(a) THEN pointer_index[allocation_type[a]]
  ELSE array_indices[allocation_type[a]]

InStruct(a, i) == Subregions(a, "field") \cap {Append(a, Field(i.n))}

InArray(a, i) ==
  IF i.known
  THEN (Subregions(a, "index") \cap {Append(a, Index(i.n))})
       \cup {b \in Subregions(a, "any") : i.n \notin TrackedIndices(a)}
  ELSE Subregions(a, "any")

LaterIndexFrom(type, a, i) ==
  {b \in {a} : i.known /\ i.n = 0}
  \cup (IF ~_gep_type_compatible(type, a) THEN {}
        ELSE IF IsStruct(type) THEN InStruct(a, i)
        ELSE IF IsArray(type) THEN InArray(a, i)
        ELSE {})

FirstIndexFacts(to, g) ==
  UNION {{<<to, 0, a, b>> : b \in FirstIndexFrom(g, a)} : a \in operand_points_to(g.base)}

LaterIndexFacts(p, n, g) ==
  IF n = Len(g.indices) THEN {}
  ELSE {<<p[1], n, p[3], b>> : b \in LaterIndexFrom(IntermType(g, n), p[4], g.indices[n + 1])}

GepFacts ==
  UNION ({FirstIndexFacts(to, program.geps[to]) : to \in DOMAIN program.geps}
         \cup {LaterIndexFacts(p, p[2] + 1, program.geps[p[1]]) : p \in gep_points_to})

IndexPointers ==
  /\ gep_points_to' = gep_points_to \cup GepFacts
  /\ UNCHANGED <<subobjects, var_points_to, ptr_points_to>>

-----------------------------------------------------------------------------
(* var_points_to and ptr_points_to.                                        *)

gep_var_points_to ==
  {<<p[4], p[1]>> : p \in {p \in gep_points_to : p[2] + 1 = Len(program.geps[p[1]].indices)}}

AssignFacts ==
  UNION {{<<a, i.to>> : a \in operand_points_to(i.value)} : i \in program.assigns}

(* Elements at known indices are not read with the one at any index.       *)
LoadedFromSlip(a) == {p[1] : p \in {p \in ptr_points_to : p[2] = a}}

(* What is read from a: what a and the more specific allocations that      *)
(* match it point to.                                                      *)
LoadedFrom(a) ==
  {p[1] : p \in {p \in ptr_points_to : (p[2] = a) \/ (<<p[2], a>> \in alloc_matches)}}

LoadFacts ==
  UNION {UNION {{<<b, i.to>> : b \in LoadedFrom(a)} : a \in operand_points_to(i.address)}
         : i \in program.loads}

StoreFacts ==
  UNION {operand_points_to(i.value) \X {a \in operand_points_to(i.address) : ptr_compatible_allocation(a)}
         : i \in program.stores}

AliasBaseFacts ==
  UNION {{<<p[1], a[1]>> : a \in {a \in alloc_aliases : a[2] = p[2]}} : p \in ptr_points_to}
AliasTargetFacts ==
  UNION {{<<a[1], p[2]>> : a \in {a \in alloc_aliases : a[2] = p[1]}} : p \in ptr_points_to}
MatchFacts ==
  UNION {{<<p[1], m[1]>> : m \in {m \in alloc_matches : m[2] = p[2]}} : p \in ptr_points_to}

VarPointsTo ==
  /\ var_points_to' = var_points_to \cup gep_var_points_to \cup AssignFacts \cup LoadFacts
  /\ UNCHANGED <<subobjects, gep_points_to, ptr_points_to>>

PtrPointsTo ==
  /\ ptr_points_to' =
       ptr_points_to \cup StoreFacts \cup AliasBaseFacts \cup AliasTargetFacts \cup MatchFacts
  /\ UNCHANGED <<subobjects, gep_points_to, var_points_to>>

SubobjectsStep == SubobjectsNext /\ UNCHANGED <<gep_points_to, var_points_to, ptr_points_to>>

AnalysisInit ==
  /\ SubobjectsInit
  /\ gep_points_to = {}
  /\ var_points_to = program.points_to
  /\ ptr_points_to = {}

Analyse == SubobjectsStep \/ IndexPointers \/ VarPointsTo \/ PtrPointsTo
=============================================================================
