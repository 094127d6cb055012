---------------------------- MODULE Subobjects -----------------------------
(***************************************************************************)
(* Subregions of allocations and how they relate                           *)
(* (datalog/points-to/allocations-subobjects.dl, allocations-sizes.dl and  *)
(* allocations-subobjects-aliases.dl).                                     *)
(*                                                                         *)
(* An allocation is a basic allocation followed by a path: the sequence    *)
(* <<root, component, ...>>, where the code concatenates strings.  An      *)
(* action applies one rule, or the rules for one relation, to all that is  *)
(* known; they are applied in any order, since the code has them in one    *)
(* recursive stratum.                                                      *)
(*                                                                         *)
(* A program has basic allocations (roots) and getelementptr instructions  *)
(* (geps).  A root is a record [type, size, dynamic, code, constant]: its  *)
(* static_allocation_type, the set of its allocation_size, whether it is a *)
(* dynamically_sized_alloc, whether it holds a function, and whether it is *)
(* a constant.                                                             *)
(*                                                                         *)
(* Definitions named with "Slip" are not part of the model: each is a      *)
(* mistake that the properties must find.                                  *)
(***************************************************************************)
EXTENDS TypeLayout, SequencesExt, TLC

CONSTANT Programs

ASSUME SubobjectsAssumption ==
  \A p \in Programs :
    /\ \A r \in DOMAIN p.roots : p.roots[r].type \in Type
    /\ \A v \in DOMAIN p.geps :
          /\ p.geps[v].type \in Type
          /\ p.geps[v].indices \in Seq([known : BOOLEAN, n : Int]) \ {<<>>}

VARIABLES
  program,
  pointer_index,            \* type -> indices; computed before the rest
  array_indices,            \* type -> indices; computed before the rest
  allocation_type,          \* allocation -> type
  allocation_size,          \* <<allocation, size>>
  unify_allocation_size,    \* <<allocation, size>>: sizes of what it is unified with
  dynamically_sized_alloc,  \* allocations
  alloc_aliases,            \* <<alloc1, alloc2>>
  alloc_matches             \* <<alloc, starredAlloc>>

subobjects ==
  <<program, pointer_index, array_indices, unify_allocation_size, allocation_type,
    allocation_size, dynamically_sized_alloc, alloc_aliases, alloc_matches>>

inputs == <<program, pointer_index, array_indices, unify_allocation_size>>

Field(f) == [at |-> "field", n |-> f]
Index(i) == [at |-> "index", n |-> i]
AnyIndex == [at |-> "any", n |-> 0]

allocation == DOMAIN allocation_type
Root(a) == program.roots[a[1]]
basic_allocation(a) == Len(a) = 1
alloc_subregion(a) == Len(a) > 1
non_func_basic_allocation(a) == basic_allocation(a) /\ ~Root(a).code
alloc_subregion_base(a) == Front(a)

(* A store may change it.  Subregions are as their root.                   *)
ptr_compatible_allocation(a) == ~Root(a).constant

(* The subregions of a that exist, by the kind of their last component.    *)
Subregions(a, at) ==
  {b \in allocation : Len(b) = Len(a) + 1 /\ Last(b).at = at /\ IsPrefix(a, b)}

-----------------------------------------------------------------------------
(* Indices that occur in the program.  An index of getelementptr is        *)
(* [known, n]: whether constant_to_int has a value for it, and which.      *)

Geps == {program.geps[i] : i \in DOMAIN program.geps}

FirstIndices(types) ==
  {g \in Geps : g.indices[1].known /\ g.indices[1].n >= 0 /\ g.type \in types}

(* The index at which a pointer to elements of type t lies where index i   *)
(* of a pointer of type p does.                                            *)
AdjustedIndex(t, p, i) ==
  LET declared == Size[Component(p)]
  IN IF IsSized(t) /\ Size[t] > 0 /\ (i * declared) % Size[t] = 0
     THEN {(i * declared) \div Size[t]} ELSE {}

Indexes(p, t) ==
  /\ IsSized(Component(p))
  /\ \/ Compatible(t, Component(p))
     \/ \E q \in Type : IsPointer(q) /\ Component(q) = t /\ Compatible(q, p)

PointerIndices(t) ==
  {0} \cup UNION {AdjustedIndex(t, g.type, g.indices[1].n) :
                    g \in FirstIndices({p \in Type : IsPointer(p) /\ Indexes(p, t)})}

pointer_offset(t) ==
  {0} \cup {i * Size[t] : i \in {i \in pointer_index[t] : IsSized(t)}}

(* getelementptr_instrterm_type: the type that index n of g, counted from  *)
(* zero, is applied to; for n > 0 a type in memory.                        *)
IntermType(g, n) ==
  LET term[k \in 1 .. n] ==
        IF k = 1 THEN Component(g.type)
        ELSE IF IsStruct(term[k - 1]) THEN Elements[term[k - 1]][g.indices[k].n + 1]
        ELSE Component(term[k - 1])
  IN term[n]

LaterIndices(g) == 1 .. Len(g.indices) - 1

ArrayIndices(t) ==
  {i.n : i \in {i \in UNION {{[n |-> g.indices[k + 1].n, of |-> IntermType(g, k),
                               known |-> g.indices[k + 1].known] : k \in LaterIndices(g)}
                             : g \in Geps} :
                  /\ i.known /\ IsArray(i.of) /\ IsArray(t)
                  /\ type_contains_pointer(t) /\ Compatible(t, i.of)}}

array_offset(t) == {i * Size[Component(t)] : i \in array_indices[t]}

-----------------------------------------------------------------------------
(* Subregions of a known allocation, as <<component, type>>.               *)

FieldsOf(a, type) ==
  IF alloc_subregion(a) /\ IsStruct(type)
  THEN {<<Field(f - 1), Elements[type][f]>> : f \in DOMAIN Elements[type]} ELSE {}

AnyIndexOf(a, type) ==
  IF non_func_basic_allocation(a) THEN {<<AnyIndex, type>>}
  ELSE IF alloc_subregion(a) /\ IsArray(type) THEN {<<AnyIndex, Component(type)>>}
  ELSE {}

(* A basic allocation is indexed as the pointer to it is, a subregion as   *)
(* an array.  One past the end is not in bounds.                           *)
InBounds(a, elem, indices) ==
  {i \in indices : \/ a \in dynamically_sized_alloc
                   \/ /\ IsSized(elem)
                      /\ \E s \in allocation_size \cup unify_allocation_size :
                           s[1] = a /\ Size[elem] * i < s[2]}

KnownIndicesOf(a, type) ==
  IF non_func_basic_allocation(a)
  THEN {<<Index(i), type>> : i \in InBounds(a, type, pointer_index[type])}
  ELSE IF alloc_subregion(a) /\ IsArray(type)
  THEN {<<Index(i), Component(type)>> : i \in InBounds(a, Component(type), array_indices[type])}
  ELSE {}

PartsOf(a, type) == FieldsOf(a, type) \cup AnyIndexOf(a, type) \cup KnownIndicesOf(a, type)

(* allocation_type, with the parts of all that is known.                   *)
TypedSubregions ==
  LET made == UNION {{<<Append(a, p[1]), p[2]>> : p \in PartsOf(a, allocation_type[a])}
                     : a \in allocation}
  IN [a \in allocation \cup {m[1] : m \in made} |->
        IF a \in allocation THEN allocation_type[a]
        ELSE (CHOOSE m \in made : m[1] = a)[2]]

MakeSubregions ==
  /\ allocation_type' = TypedSubregions
  /\ UNCHANGED <<inputs, allocation_size, dynamically_sized_alloc, alloc_aliases, alloc_matches>>

-----------------------------------------------------------------------------
(* Offsets and sizes.                                                      *)

(* alloc_subregion_offset, of a subregion at a field or a known index.     *)
HasOffset(a) ==
  /\ alloc_subregion(a)
  /\ \/ Last(a).at = "field"
     \/ Last(a).at = "index" /\ IsSized(allocation_type[a])

OffsetInBase(a) ==
  IF Last(a).at = "field" THEN Offset[allocation_type[Front(a)]][Last(a).n + 1]
  ELSE Last(a).n * Size[allocation_type[a]]

IsLastField(a) ==
  /\ Last(a).at = "field"
  /\ Len(Elements[allocation_type[Front(a)]]) = Last(a).n + 1

(* All but the last field of a struct are as large as their type.  The     *)
(* last has what its base has from there on.                               *)
FixedSizes ==
  {<<a, Size[allocation_type[a]]>> :
     a \in {a \in allocation : /\ alloc_subregion(a) /\ IsSized(allocation_type[a])
                               /\ ~IsLastField(a)}}

(* The offset of the last field is not taken off.                          *)
LastFieldSizesSlip ==
  UNION {{<<a, s[2]>> : a \in {a \in Subregions(s[1], "field") : IsLastField(a)}}
         : s \in allocation_size}

LastFieldSizes ==
  UNION {{<<a, s[2] - OffsetInBase(a)>> :
            a \in {a \in Subregions(s[1], "field") : IsLastField(a)}}
         : s \in allocation_size}

DynamicLastFields ==
  {a \in allocation : alloc_subregion(a) /\ Front(a) \in dynamically_sized_alloc
                      /\ IsLastField(a)}

ComputeSizes ==
  /\ allocation_size' = allocation_size \cup FixedSizes \cup LastFieldSizes
  /\ dynamically_sized_alloc' = dynamically_sized_alloc \cup DynamicLastFields
  /\ UNCHANGED <<inputs, allocation_type, alloc_aliases, alloc_matches>>

-----------------------------------------------------------------------------
(* Definite aliases: allocations at the same address.  A base is an alias  *)
(* of its element at zero and of its first field.                          *)
AtZero(a) == alloc_subregion(a) /\ Last(a) \in {Index(0), Field(0)}

(* The element at any index counts as the one at zero.                     *)
AliasPairsSlip ==
  {<<a, a>> : a \in allocation}
  \cup {<<p[2], p[1]>> : p \in alloc_aliases}
  \cup {<<Front(a), a>> : a \in {a \in allocation : alloc_subregion(a) /\ Last(a).n = 0}}
  \cup UNION {{<<p[1], q[1]>> : q \in {q \in alloc_aliases : q[2] = p[2]}} : p \in alloc_aliases}

AliasPairs ==
  {<<a, a>> : a \in allocation}
  \cup {<<p[2], p[1]>> : p \in alloc_aliases}
  \cup {<<Front(a), a>> : a \in {a \in allocation : AtZero(a)}}
  \cup UNION {{<<p[1], q[1]>> : q \in {q \in alloc_aliases : q[2] = p[2]}} : p \in alloc_aliases}

RelateAliases ==
  /\ alloc_aliases' = alloc_aliases \cup AliasPairs
  /\ UNCHANGED <<inputs, allocation_type, allocation_size, dynamically_sized_alloc,
                 alloc_matches>>

(* The stars of both are not followed.                                     *)
MatchesFromSlip(base1, base2) ==
  (Subregions(base1, "index") \X Subregions(base2, "any"))
  \cup {p \in UNION {Subregions(base1, at) \X Subregions(base2, at) : at \in {"index", "field"}} :
          Last(p[1]) = Last(p[2])}

(* A starred allocation matches those with known indices in the places of  *)
(* some of its stars.                                                      *)
MatchesFrom(base1, base2) ==
  (Subregions(base1, "index") \X Subregions(base2, "any"))
  \cup {p \in UNION {Subregions(base1, at) \X Subregions(base2, at) : at \in {"any", "index", "field"}} :
          Last(p[1]) = Last(p[2])}

SiblingPairs == UNION {Subregions(a, "index") \X Subregions(a, "any") : a \in allocation}
InheritedPairs == UNION {MatchesFrom(p[1], p[2]) : p \in alloc_matches}

MatchPairs == SiblingPairs \cup InheritedPairs

RelateMatches ==
  /\ alloc_matches' = alloc_matches \cup MatchPairs
  /\ UNCHANGED <<inputs, allocation_type, allocation_size, dynamically_sized_alloc,
                 alloc_aliases>>

-----------------------------------------------------------------------------
SubobjectsInit ==
  /\ program \in Programs
  /\ pointer_index = [t \in Type |-> PointerIndices(t)]
  /\ array_indices = [t \in Type |-> ArrayIndices(t)]
  /\ allocation_type = [a \in {<<r>> : r \in DOMAIN program.roots} |-> program.roots[a[1]].type]
  /\ allocation_size = UNION {{<<<<r>>, s>> : s \in program.roots[r].size} : r \in DOMAIN program.roots}
  /\ dynamically_sized_alloc = {<<r>> : r \in {r \in DOMAIN program.roots : program.roots[r].dynamic}}
  /\ unify_allocation_size = {}
  /\ alloc_aliases = {}
  /\ alloc_matches = {}

SubobjectsNext ==
  \/ MakeSubregions
  \/ ComputeSizes
  \/ RelateAliases
  \/ RelateMatches
=============================================================================
