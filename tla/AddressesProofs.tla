-------------------------- MODULE AddressesProofs --------------------------
(***************************************************************************)
(* Proofs about alloc_matches and alloc_aliases, for all types, programs   *)
(* and orders of the rules.  The first only relates an allocation to one   *)
(* with more stars, and that relation is a strict order, as the comment on *)
(* the rules says (allocations-subobjects-aliases.dl:83-89).  The second   *)
(* only relates allocations that are one and the same, but for indices and *)
(* fields at zero.  From that, allocations of different regions are never  *)
(* unified, whichever facts are chosen and whenever calls are found.       *)
(***************************************************************************)
EXTENDS Addresses, WellFoundedInduction, TLAPS

(* The component at the end of a known allocation that has a base.         *)
WellFormed(a) == \A k \in 2 .. Len(a) : a[k].at = "any" => a[k] = AnyIndex

NonEmpty(S) == {a \in Seq(S) : Len(a) >= 1}

PathsInv ==
  /\ \E S : allocation \subseteq NonEmpty(S)
  /\ \A a \in allocation : WellFormed(a)

(* The last component of a subregion is one that its base has.             *)
LastFits(a) ==
  \/ Last(a) = AnyIndex
  \/ \E i \in Int : Last(a) = Index(i)
  \/ \E f \in Nat : /\ Last(a) = Field(f)
                    /\ IsStruct(allocation_type[Front(a)])
                    /\ f + 1 \in DOMAIN Elements[allocation_type[Front(a)]]

(* Every allocation has a type, and what it lies in is one as well.        *)
TypesInv ==
  /\ pointer_index \in [Type -> SUBSET Int]
  /\ array_indices \in [Type -> SUBSET Int]
  /\ \A a \in allocation : allocation_type[a] \in Type
  /\ \A a \in allocation : alloc_subregion(a) => Front(a) \in allocation /\ LastFits(a)

MatchesInv ==
  \A p \in alloc_matches :
    /\ p[1] \in allocation
    /\ p[2] \in allocation
    /\ IsInstance(p[1], p[2])

(* a and b are a common path and zero from there on.                       *)
SameStart(a, b) ==
  \E n \in Nat \ {0} :
    /\ n <= Len(a) /\ n <= Len(b)
    /\ \A k \in 1 .. n : a[k] = b[k]
    /\ \A k \in n + 1 .. Len(a) : a[k] \in {Index(0), Field(0)}
    /\ \A k \in n + 1 .. Len(b) : b[k] \in {Index(0), Field(0)}

AliasesInv ==
  /\ alloc_aliases \subseteq allocation \X allocation
  /\ \A p \in alloc_aliases : SameStart(p[1], p[2])

ChoicesInv ==
  /\ \A c \in var_points_to_choice : c[1] \in allocation
  /\ \A c \in ptr_points_to_choice : c[1] \in allocation

(* The rules for both have added what they can when the program runs.      *)
Analysed == analysed => AliasPairs \subseteq alloc_aliases /\ MatchPairs \subseteq alloc_matches

IInv ==
  PathsInv /\ TypesInv /\ MatchesInv /\ AliasesInv /\ ChoicesInv /\ RegionsNotMerged /\ Analysed

-----------------------------------------------------------------------------
(* The order of star patterns.                                             *)

(* An allocation is not an instance of itself.                             *)
LEMMA InstanceIrreflexive == \A a : ~IsInstance(a, a)
  BY DEF IsInstance

(* A component that is a star is not an index, so an instance of an        *)
(* instance is one, and not the same allocation again.                     *)
LEMMA InstanceTransitive ==
  ASSUME NEW S, NEW a \in Seq(S), NEW b \in Seq(S), NEW c \in Seq(S),
         IsInstance(a, b), IsInstance(b, c)
  PROVE  IsInstance(a, c)
  <1>1. AnyIndex.at = "any"
    BY DEF AnyIndex
  <1>2. Len(a) = Len(b) /\ Len(b) = Len(c)
    BY DEF IsInstance
  <1>3. ASSUME NEW k \in 1 .. Len(a)
        PROVE  a[k] = c[k] \/ (k > 1 /\ a[k].at = "index" /\ c[k] = AnyIndex)
    BY <1>1, <1>2, <1>3 DEF IsInstance
  <1>4. PICK k \in 1 .. Len(a) : a[k] # b[k]
    BY <1>2 DEF IsInstance
  <1>5. k > 1 /\ a[k].at = "index" /\ b[k] = AnyIndex
    BY <1>4 DEF IsInstance
  <1>6. c[k] = AnyIndex
    BY <1>1, <1>2, <1>5 DEF IsInstance
  <1>7. a # c
    BY <1>1, <1>5, <1>6
  <1> QED
    BY <1>2, <1>3, <1>7 DEF IsInstance

(* Two allocations are never instances of each other.                      *)
LEMMA InstanceAsymmetric ==
  ASSUME NEW S, NEW a \in Seq(S), NEW b \in Seq(S), IsInstance(a, b)
  PROVE  ~IsInstance(b, a)
  BY InstanceIrreflexive, InstanceTransitive

-----------------------------------------------------------------------------
(* Being one but for zeros is an equivalence.                              *)
LEMMA SameStartReflexive == ASSUME NEW S, NEW a \in NonEmpty(S) PROVE SameStart(a, a)
  <1>1. Len(a) \in Nat \ {0}
    BY DEF NonEmpty
  <1> QED
    BY <1>1 DEF SameStart

LEMMA SameStartSymmetric == ASSUME NEW a, NEW b, SameStart(a, b) PROVE SameStart(b, a)
  BY DEF SameStart

(* The shorter of the two common paths is common to the ends.              *)
LEMMA SameStartTransitive ==
  ASSUME NEW a, NEW b, NEW c, Len(a) \in Nat, Len(b) \in Nat, Len(c) \in Nat,
         SameStart(a, b), SameStart(b, c)
  PROVE  SameStart(a, c)
  <1> DEFINE Start(n, x, y) ==
        /\ n <= Len(x) /\ n <= Len(y)
        /\ \A k \in 1 .. n : x[k] = y[k]
        /\ \A k \in n + 1 .. Len(x) : x[k] \in {Index(0), Field(0)}
        /\ \A k \in n + 1 .. Len(y) : y[k] \in {Index(0), Field(0)}
  <1>1. PICK m \in Nat \ {0} : Start(m, a, b)
    BY DEF SameStart
  <1>2. PICK n \in Nat \ {0} : Start(n, b, c)
    BY DEF SameStart
  <1>3. CASE m <= n
    <2>1. \A k \in m + 1 .. Len(c) : c[k] \in {Index(0), Field(0)}
      <3> TAKE k \in m + 1 .. Len(c)
      <3>1. CASE k <= n
        BY <1>1, <1>2, <3>1
      <3>2. CASE ~(k <= n)
        BY <1>2, <3>2
      <3> QED
        BY <3>1, <3>2
    <2>2. Start(m, a, c)
      BY <1>1, <1>2, <1>3, <2>1
    <2> QED
      BY <2>2 DEF SameStart
  <1>4. CASE n <= m
    <2>1. \A k \in n + 1 .. Len(a) : a[k] \in {Index(0), Field(0)}
      <3> TAKE k \in n + 1 .. Len(a)
      <3>1. CASE k <= m
        BY <1>1, <1>2, <3>1
      <3>2. CASE ~(k <= m)
        BY <1>1, <3>2
      <3> QED
        BY <3>1, <3>2
    <2>2. Start(n, a, c)
      BY <1>1, <1>2, <1>4, <2>1
    <2> QED
      BY <2>2 DEF SameStart
  <1> QED
    BY <1>3, <1>4

(* A base is its part at zero.                                             *)
LEMMA SameStartAtZero ==
  ASSUME NEW S, NEW a \in Seq(S), AtZero(a)
  PROVE  Front(a) \in NonEmpty(S) /\ SameStart(Front(a), a)
  <1>1. Len(a) \in Nat /\ Len(a) > 1 /\ a[Len(a)] \in {Index(0), Field(0)}
    BY DEF AtZero, alloc_subregion, Last
  <1>2. Len(Front(a)) = Len(a) - 1 /\ \A k \in 1 .. Len(a) - 1 : Front(a)[k] = a[k]
    BY <1>1 DEF Front
  <1> DEFINE n == Len(a) - 1
  <1>3. n \in Nat \ {0} /\ n + 1 = Len(a) /\ Len(Front(a)) = n
    BY <1>1, <1>2
  <1>4. /\ \A k \in n + 1 .. Len(Front(a)) : Front(a)[k] \in {Index(0), Field(0)}
        /\ \A k \in n + 1 .. Len(a) : a[k] \in {Index(0), Field(0)}
    BY <1>1, <1>3
  <1>5. n <= Len(Front(a)) /\ n <= Len(a) /\ \A k \in 1 .. n : Front(a)[k] = a[k]
    BY <1>1, <1>2, <1>3
  <1>6. Front(a) \in NonEmpty(S)
    BY <1>1, <1>2 DEF Front, NonEmpty
  <1> HIDE DEF n
  <1> QED
    BY <1>3, <1>4, <1>5, <1>6 DEF SameStart

-----------------------------------------------------------------------------
(* A subregion is its base and one component more.                         *)
LEMMA SubregionExtends ==
  ASSUME NEW S, allocation \subseteq Seq(S),
         NEW a \in allocation, NEW at, NEW b \in Subregions(a, at)
  PROVE  /\ b \in allocation
         /\ Len(b) = Len(a) + 1
         /\ \A k \in 1 .. Len(a) : b[k] = a[k]
         /\ b[Len(b)].at = at
         /\ Last(b) = b[Len(b)]
  <1>1. b \in allocation /\ Len(b) = Len(a) + 1 /\ IsPrefix(a, b) /\ Last(b).at = at
    BY DEF Subregions
  <1>2. a \in Seq(S) /\ b \in Seq(S)
    BY <1>1
  <1>3. SubSeq(a, 1, Len(a)) = SubSeq(b, 1, Len(a))
    BY <1>1 DEF IsPrefix
  <1>4. ASSUME NEW k \in 1 .. Len(a)
        PROVE  b[k] = a[k]
    <2>1. SubSeq(a, 1, Len(a))[k] = a[k]
      BY <1>2
    <2>2. SubSeq(b, 1, Len(a))[k] = b[k]
      BY <1>1, <1>2
    <2> QED
      BY <1>3, <2>1, <2>2
  <1> QED
    BY <1>1, <1>4 DEF Last

(* The same component after an instance gives an instance.                 *)
LEMMA ExtendInstance ==
  ASSUME NEW S, allocation \subseteq Seq(S),
         NEW a \in allocation, NEW b \in allocation, IsInstance(a, b),
         NEW at, NEW c \in Subregions(a, at), NEW d \in Subregions(b, at),
         Last(c) = Last(d)
  PROVE  IsInstance(c, d)
  <1>1. /\ c \in Seq(S) /\ d \in Seq(S) /\ a \in Seq(S) /\ b \in Seq(S)
        /\ Len(c) = Len(a) + 1 /\ Len(d) = Len(b) + 1
        /\ \A k \in 1 .. Len(a) : c[k] = a[k]
        /\ \A k \in 1 .. Len(b) : d[k] = b[k]
        /\ c[Len(c)] = d[Len(d)]
    BY SubregionExtends
  <1>2. Len(a) = Len(b) /\ Len(a) \in Nat
    BY <1>1 DEF IsInstance
  <1>3. PICK k \in 1 .. Len(a) : a[k] # b[k]
    BY <1>1, <1>2 DEF IsInstance
  <1>4. c # d
    BY <1>1, <1>2, <1>3
  <1>5. ASSUME NEW i \in 1 .. Len(c)
        PROVE  c[i] = d[i] \/ (i > 1 /\ c[i].at = "index" /\ d[i] = AnyIndex)
    <2>1. CASE i \in 1 .. Len(a)
      BY <1>1, <1>2, <2>1 DEF IsInstance
    <2>2. CASE i = Len(c)
      BY <1>1, <1>2, <2>2
    <2> QED
      BY <1>1, <1>2, <2>1, <2>2
  <1> QED
    BY <1>1, <1>2, <1>4, <1>5 DEF IsInstance

(* An index and a star after an instance, or after the same base, give an  *)
(* instance.                                                               *)
LEMMA ExtendWithStar ==
  ASSUME NEW S, allocation \subseteq Seq(S),
         \A e \in allocation : Len(e) >= 1 /\ WellFormed(e),
         NEW a \in allocation, NEW b \in allocation, a = b \/ IsInstance(a, b),
         NEW c \in Subregions(a, "index"), NEW d \in Subregions(b, "any")
  PROVE  IsInstance(c, d)
  <1>1. /\ c \in Seq(S) /\ d \in Seq(S) /\ a \in Seq(S) /\ b \in Seq(S)
        /\ d \in allocation
        /\ Len(c) = Len(a) + 1 /\ Len(d) = Len(b) + 1
        /\ \A k \in 1 .. Len(a) : c[k] = a[k]
        /\ \A k \in 1 .. Len(b) : d[k] = b[k]
        /\ c[Len(c)].at = "index" /\ d[Len(d)].at = "any"
    BY SubregionExtends
  <1>2. Len(a) = Len(b) /\ Len(a) \in Nat /\ Len(a) >= 1
    BY <1>1 DEF IsInstance
  <1>3. d[Len(d)] = AnyIndex
    BY <1>1, <1>2 DEF WellFormed
  <1>4. c # d
    BY <1>1, <1>2
  <1>5. ASSUME NEW i \in 1 .. Len(c)
        PROVE  c[i] = d[i] \/ (i > 1 /\ c[i].at = "index" /\ d[i] = AnyIndex)
    <2>1. CASE i \in 1 .. Len(a)
      BY <1>1, <1>2, <2>1 DEF IsInstance
    <2>2. CASE i = Len(c)
      BY <1>1, <1>2, <1>3, <2>2
    <2> QED
      BY <1>1, <1>2, <2>1, <2>2
  <1> QED
    BY <1>1, <1>2, <1>4, <1>5 DEF IsInstance

-----------------------------------------------------------------------------
(* The indices that a program may have are numbers.                        *)
LEMMA IndicesAreNumbers ==
  ASSUME program \in Programs, NEW g \in Geps
  PROVE  /\ g.type \in Type
         /\ Len(g.indices) \in Nat \ {0}
         /\ \A k \in 1 .. Len(g.indices) : g.indices[k].n \in Int
  <1>1. PICK v \in DOMAIN program.geps : g = program.geps[v]
    BY DEF Geps
  <1>2. g.type \in Type /\ g.indices \in Seq([known : BOOLEAN, n : Int]) \ {<<>>}
    BY <1>1, SubobjectsAssumption
  <1>3. \A T : \A s \in Seq(T) \ {<<>>} : Len(s) \in Nat \ {0} /\ \A k \in 1 .. Len(s) : s[k] \in T
    OBVIOUS
  <1> DEFINE I == [known : BOOLEAN, n : Int]
  <1>4. \A i \in I : i.n \in Int
    OBVIOUS
  <1>5. g.indices \in Seq(I) \ {<<>>}
    BY <1>2
  <1> HIDE DEF I
  <1>6. Len(g.indices) \in Nat \ {0} /\ \A k \in 1 .. Len(g.indices) : g.indices[k] \in I
    BY <1>3, <1>5
  <1> QED
    BY <1>2, <1>4, <1>6

LEMMA PointerIndicesAreNumbers ==
  ASSUME program \in Programs, NEW t
  PROVE  PointerIndices(t) \subseteq Int
  <1> DEFINE P == {p \in Type : IsPointer(p) /\ Indexes(p, t)}
  <1>1. ASSUME NEW g \in FirstIndices(P)
        PROVE  AdjustedIndex(t, g.type, g.indices[1].n) \subseteq Int
    <2>1. g.indices[1].n \in Int /\ g.type \in P
      BY IndicesAreNumbers DEF FirstIndices
    <2>2. Size[Component(g.type)] \in Nat
      BY <2>1, TypeLayoutAssumption DEF Indexes, IsSized
    <2>3. IsSized(t) => Size[t] \in Nat
      BY TypeLayoutAssumption DEF IsSized
    <2>4. \A i, d \in Int : \A n \in Nat : n > 0 => (i * d) \div n \in Int
      <3> TAKE i, d \in Int
      <3>1. i * d \in Int
        OBVIOUS
      <3> DEFINE m == i * d
      <3> HIDE DEF m
      <3> QED
        BY <3>1 DEF m
    <2> QED
      BY <2>1, <2>2, <2>3, <2>4 DEF AdjustedIndex
  <1> HIDE DEF P
  <1>2. UNION {AdjustedIndex(t, g.type, g.indices[1].n) : g \in FirstIndices(P)} \subseteq Int
    BY <1>1
  <1> QED
    BY <1>2 DEF PointerIndices, P

LEMMA ArrayIndicesAreNumbers ==
  ASSUME program \in Programs, NEW t
  PROVE  ArrayIndices(t) \subseteq Int
  <1> DEFINE Later(g, k) == [n |-> g.indices[k + 1].n, of |-> IntermType(g, k),
                             known |-> g.indices[k + 1].known]
             Of(g) == {Later(g, k) : k \in LaterIndices(g)}
  <1>1. ASSUME NEW g \in Geps, NEW i \in Of(g)
        PROVE  i.n \in Int
    BY IndicesAreNumbers DEF LaterIndices
  <1>2. \A i \in UNION {Of(g) : g \in Geps} : i.n \in Int
    <2> HIDE DEF Of
    <2> QED
      BY <1>1
  <1> QED
    BY <1>2 DEF ArrayIndices

(* A basic allocation is a path of one component, and nothing is related   *)
(* at the beginning.                                                       *)
LEMMA IInvInit == Init => IInv
  <1> SUFFICES ASSUME SubobjectsInit, UnificationInit, ~analysed PROVE IInv
    BY DEF Init, SubsetInit, AnalysisInit
  <1>1. allocation = {<<r>> : r \in DOMAIN program.roots}
    BY DEF SubobjectsInit, allocation
  <1>2. allocation \subseteq NonEmpty(DOMAIN program.roots)
    <2>1. \A R : \A r \in R : <<r>> \in Seq(R) /\ Len(<<r>>) >= 1
      OBVIOUS
    <2> QED
      BY <1>1, <2>1 DEF NonEmpty
  <1>3. \A a \in allocation : Len(a) = 1
    BY <1>1
  <1>4. PathsInv
    BY <1>2, <1>3 DEF PathsInv, WellFormed
  <1>5. MatchesInv
    BY DEF SubobjectsInit, MatchesInv
  <1>6. AliasesInv
    BY DEF SubobjectsInit, AliasesInv
  <1>7. ChoicesInv /\ RegionsNotMerged
    BY DEF UnificationInit, ChoicesInv, RegionsNotMerged
  <1>8. TypesInv
    <2>1. \A a \in allocation : a[1] \in DOMAIN program.roots /\ ~alloc_subregion(a)
      <3> TAKE a \in allocation
      <3>1. PICK r \in DOMAIN program.roots : a = <<r>>
        BY <1>1
      <3> QED
        BY <3>1, <1>3 DEF alloc_subregion
    <2>2. \A a \in allocation : allocation_type[a] = program.roots[a[1]].type
      BY <1>1 DEF SubobjectsInit
    <2>3. \A r \in DOMAIN program.roots : program.roots[r].type \in Type
      BY SubobjectsAssumption DEF SubobjectsInit
    <2>4. pointer_index \in [Type -> SUBSET Int] /\ array_indices \in [Type -> SUBSET Int]
      BY PointerIndicesAreNumbers, ArrayIndicesAreNumbers DEF SubobjectsInit
    <2> QED
      BY <2>1, <2>2, <2>3, <2>4 DEF TypesInv
  <1> QED
    BY <1>4, <1>5, <1>6, <1>7, <1>8 DEF IInv, Analysed

(* What a rule makes a part of an allocation is a field, an index or the   *)
(* star.                                                                   *)
LEMMA PartsAreComponents ==
  ASSUME NEW a, NEW type, NEW p \in PartsOf(a, type)
  PROVE  p[1].at = "any" => p[1] = AnyIndex
  <1>1. CASE p \in FieldsOf(a, type)
    BY <1>1 DEF FieldsOf, Field
  <1>2. CASE p \in AnyIndexOf(a, type)
    BY <1>2 DEF AnyIndexOf
  <1>3. CASE p \in KnownIndicesOf(a, type)
    BY <1>3 DEF KnownIndicesOf, Index
  <1> QED
    BY <1>1, <1>2, <1>3 DEF PartsOf

(* New subregions are well-formed paths; the others stay.                  *)
LEMMA SubregionsKeepPaths ==
  ASSUME PathsInv, allocation_type' = TypedSubregions
  PROVE  PathsInv' /\ allocation \subseteq allocation'
  <1> DEFINE made == UNION {{<<Append(a, p[1]), p[2]>> : p \in PartsOf(a, allocation_type[a])}
                              : a \in allocation}
             new == {m[1] : m \in made}
  <1>1. allocation' = new \cup allocation
    BY DEF TypedSubregions, allocation
  <1>2. PICK S : allocation \subseteq NonEmpty(S)
    BY DEF PathsInv
  <1>3. \A a \in allocation : WellFormed(a)
    BY DEF PathsInv
  <1> DEFINE T == S \cup {p[1] : p \in UNION {PartsOf(a, allocation_type[a]) : a \in allocation}}
  <1>4. allocation \subseteq NonEmpty(T)
    BY <1>2 DEF NonEmpty
  <1>5. ASSUME NEW b \in new
        PROVE  b \in NonEmpty(T) /\ WellFormed(b)
    <2>1. PICK a \in allocation : \E p \in PartsOf(a, allocation_type[a]) : b = Append(a, p[1])
      BY <1>5
    <2>2. PICK p \in PartsOf(a, allocation_type[a]) : b = Append(a, p[1])
      BY <2>1
    <2>3. p[1] \in T /\ a \in Seq(T)
      BY <1>4 DEF NonEmpty
    <2> HIDE DEF T
    <2>4. b \in Seq(T) /\ Len(b) = Len(a) + 1 /\ b[Len(b)] = p[1] /\ Len(a) \in Nat
      BY <2>2, <2>3
    <2>5. \A k \in 1 .. Len(a) : b[k] = a[k]
      BY <2>2, <2>3
    <2>6. p[1].at = "any" => p[1] = AnyIndex
      BY PartsAreComponents
    <2> QED
      BY <1>3, <2>4, <2>5, <2>6 DEF WellFormed, NonEmpty
  <1> HIDE DEF new, T
  <1>6. allocation' \subseteq NonEmpty(T) /\ \A a \in allocation' : WellFormed(a)
    BY <1>1, <1>3, <1>4, <1>5
  <1> QED
    BY <1>1, <1>6 DEF PathsInv, WellFormed, AnyIndex, NonEmpty

(* The element of an array is a type.                                      *)
LEMMA ComponentIsType ==
  ASSUME NEW t \in Type, Kind[t] \in {"pointer", "array"}
  PROVE  Component(t) \in Type
  <1>1. Elements[t] \in Seq(Type) /\ Len(Elements[t]) = 1
    BY TypeLayoutAssumption
  <1> QED
    BY <1>1 DEF Component

(* A rule gives a part a type, and a place that its base has.              *)
LEMMA PartsFit ==
  ASSUME TypesInv, NEW a, NEW type \in Type, NEW p \in PartsOf(a, type)
  PROVE  /\ p[2] \in Type
         /\ \/ p[1] = AnyIndex
            \/ \E i \in Int : p[1] = Index(i)
            \/ \E f \in Nat : /\ p[1] = Field(f) /\ IsStruct(type)
                              /\ f + 1 \in DOMAIN Elements[type]
  <1>1. CASE p \in FieldsOf(a, type)
    <2>1. PICK f \in DOMAIN Elements[type] : p = <<Field(f - 1), Elements[type][f]>>
      BY <1>1 DEF FieldsOf
    <2>2. Elements[type] \in Seq(Type) /\ IsStruct(type)
      BY <1>1, TypeLayoutAssumption DEF FieldsOf
    <2>3. f - 1 \in Nat /\ (f - 1) + 1 = f /\ Elements[type][f] \in Type
      BY <2>2
    <2> QED
      BY <2>1, <2>2, <2>3
  <1>2. CASE p \in AnyIndexOf(a, type)
    BY <1>2, ComponentIsType DEF AnyIndexOf, IsArray
  <1>3. CASE p \in KnownIndicesOf(a, type)
    <2>1. InBounds(a, type, pointer_index[type]) \subseteq Int
      BY DEF InBounds, TypesInv
    <2>2. InBounds(a, Component(type), array_indices[type]) \subseteq Int
      BY DEF InBounds, TypesInv
    <2>3. IsArray(type) => Component(type) \in Type
      BY ComponentIsType DEF IsArray
    <2> QED
      BY <1>3, <2>1, <2>2, <2>3 DEF KnownIndicesOf
  <1> QED
    BY <1>1, <1>2, <1>3 DEF PartsOf

(* What was appended can be taken off.                                     *)
LEMMA AppendedLast ==
  ASSUME NEW S, NEW s \in Seq(S), NEW e \in S
  PROVE  Front(Append(s, e)) = s /\ Last(Append(s, e)) = e /\ Append(s, e) # s
  <1>1. /\ Append(s, e) \in Seq(S) /\ Len(Append(s, e)) = Len(s) + 1 /\ Len(s) \in Nat
        /\ Append(s, e)[Len(s) + 1] = e /\ \A i \in 1 .. Len(s) : Append(s, e)[i] = s[i]
    OBVIOUS
  <1>2. Front(Append(s, e)) = SubSeq(Append(s, e), 1, Len(s))
    BY <1>1 DEF Front
  <1>3. SubSeq(Append(s, e), 1, Len(s)) = s
    BY <1>1
  <1> DEFINE t == Append(s, e)
  <1> HIDE DEF t
  <1>4. Len(t) = Len(s) + 1 /\ Len(s) \in Nat /\ t[Len(s) + 1] = e
    BY <1>1 DEF t
  <1>5. Last(t) = e /\ t # s
    BY <1>4 DEF Last
  <1> QED
    BY <1>2, <1>3, <1>5 DEF t

(* The types of allocations stay, and new subregions have types and fit.   *)
LEMMA SubregionsKeepTypes ==
  ASSUME PathsInv, TypesInv, allocation_type' = TypedSubregions,
         UNCHANGED <<pointer_index, array_indices>>
  PROVE  TypesInv'
  <1> DEFINE Parts(a) == {<<Append(a, p[1]), p[2]>> : p \in PartsOf(a, allocation_type[a])}
             made == UNION {Parts(a) : a \in allocation}
             new == {m[1] : m \in made}
  <1>1. allocation_type' = [a \in allocation \cup new |->
                              IF a \in allocation THEN allocation_type[a]
                              ELSE (CHOOSE m \in made : m[1] = a)[2]]
    BY DEF TypedSubregions
  <1>2. PICK S : allocation \subseteq NonEmpty(S)
    BY DEF PathsInv
  <1>3. ASSUME NEW m \in made
        PROVE  \E a \in allocation : \E p \in PartsOf(a, allocation_type[a]) :
                 m = <<Append(a, p[1]), p[2]>>
    <2>1. PICK a \in allocation : m \in Parts(a)
      <3> HIDE DEF Parts
      <3> QED
        OBVIOUS
    <2> QED
      BY <2>1
  <1> HIDE DEF made
  <1>4. allocation' = allocation \cup new
    BY <1>1 DEF allocation
  <1>5. \A a \in allocation : allocation_type'[a] = allocation_type[a]
    BY <1>1
  <1>6. \A m \in made : m[2] \in Type
    BY <1>3, PartsFit DEF TypesInv
  <1>7. \A a \in allocation' : allocation_type'[a] \in Type
    <2> TAKE a \in allocation'
    <2>1. CASE a \in allocation
      BY <1>5, <2>1 DEF TypesInv
    <2>2. CASE a \notin allocation
      <3>1. \E m \in made : m[1] = a
        BY <1>4, <2>2
      <3>2. (CHOOSE m \in made : m[1] = a) \in made
        BY <3>1
      <3>3. allocation_type'[a] = (CHOOSE m \in made : m[1] = a)[2]
        BY <1>1, <1>4, <2>2
      <3> QED
        BY <1>6, <3>2, <3>3
    <2> QED
      BY <2>1, <2>2
  <1>8. ASSUME NEW b \in allocation', alloc_subregion(b)
        PROVE  Front(b) \in allocation /\ LastFits(b)
    <2>1. CASE b \in allocation
      BY <1>8, <2>1 DEF TypesInv
    <2>2. CASE b \notin allocation
      <3>1. PICK a \in allocation : \E p \in PartsOf(a, allocation_type[a]) : b = Append(a, p[1])
        BY <1>3, <1>4, <2>2
      <3>2. PICK p \in PartsOf(a, allocation_type[a]) : b = Append(a, p[1])
        BY <3>1
      <3> DEFINE T == S \cup {p[1]}
      <3>3. a \in Seq(T) /\ p[1] \in T
        BY <1>2 DEF NonEmpty
      <3> HIDE DEF T
      <3>4. Front(b) = a /\ Last(b) = p[1]
        BY <3>2, <3>3, AppendedLast
      <3>5. allocation_type[a] \in Type
        BY DEF TypesInv
      <3> QED
        BY <3>4, <3>5, PartsFit DEF LastFits
    <2> QED
      BY <2>1, <2>2
  <1>9. \A b \in allocation' : alloc_subregion(b) => Front(b) \in allocation' /\ LastFits(b)'
    <2> TAKE b \in allocation'
    <2> HAVE alloc_subregion(b)
    <2>1. Front(b) \in allocation /\ LastFits(b)
      BY <1>8
    <2>2. allocation_type'[Front(b)] = allocation_type[Front(b)]
      BY <1>5, <2>1
    <2> QED
      BY <1>4, <2>1, <2>2 DEF LastFits, Index, Field, AnyIndex
  <1> QED
    BY <1>7, <1>9 DEF TypesInv, alloc_subregion

(* Every rule for alloc_matches relates an instance to its pattern.        *)
LEMMA MatchPairsAreInstances ==
  ASSUME PathsInv, MatchesInv, NEW p \in MatchPairs
  PROVE  p[1] \in allocation /\ p[2] \in allocation /\ IsInstance(p[1], p[2])
  <1>1. PICK S : allocation \subseteq NonEmpty(S)
    BY DEF PathsInv
  <1>2. allocation \subseteq Seq(S) /\ \A a \in allocation : Len(a) >= 1 /\ WellFormed(a)
    BY <1>1 DEF PathsInv, NonEmpty
  <1>3. ASSUME NEW a \in allocation, p \in Subregions(a, "index") \X Subregions(a, "any")
        PROVE  p[1] \in allocation /\ p[2] \in allocation /\ IsInstance(p[1], p[2])
    BY <1>2, <1>3, ExtendWithStar, SubregionExtends
  <1>4. ASSUME NEW q \in alloc_matches, p \in MatchesFrom(q[1], q[2])
        PROVE  p[1] \in allocation /\ p[2] \in allocation /\ IsInstance(p[1], p[2])
    <2>1. q[1] \in allocation /\ q[2] \in allocation /\ IsInstance(q[1], q[2])
      BY DEF MatchesInv
    <2>2. CASE p \in Subregions(q[1], "index") \X Subregions(q[2], "any")
      BY <1>2, <2>1, <2>2, ExtendWithStar, SubregionExtends
    <2>3. ASSUME NEW at, p \in Subregions(q[1], at) \X Subregions(q[2], at), Last(p[1]) = Last(p[2])
          PROVE  p[1] \in allocation /\ p[2] \in allocation /\ IsInstance(p[1], p[2])
      BY <1>2, <2>1, <2>3, ExtendInstance, SubregionExtends
    <2> QED
      BY <1>4, <2>2, <2>3 DEF MatchesFrom
  <1>5. CASE p \in SiblingPairs
    <2> DEFINE Pairs(a) == Subregions(a, "index") \X Subregions(a, "any")
    <2>1. PICK X \in {Pairs(a) : a \in allocation} : p \in X
      BY <1>5 DEF SiblingPairs
    <2>2. PICK a \in allocation : X = Pairs(a)
      BY <2>1
    <2> QED
      BY <1>3, <2>1, <2>2
  <1>6. CASE p \in InheritedPairs
    <2>1. PICK X \in {MatchesFrom(q[1], q[2]) : q \in alloc_matches} : p \in X
      BY <1>6 DEF InheritedPairs
    <2>2. PICK q \in alloc_matches : X = MatchesFrom(q[1], q[2])
      BY <2>1
    <2> QED
      BY <1>4, <2>1, <2>2
  <1> QED
    BY <1>5, <1>6 DEF MatchPairs

(* Every rule for alloc_aliases relates allocations with a common start.   *)
LEMMA AliasPairsShareStart ==
  ASSUME PathsInv, TypesInv, AliasesInv, NEW p \in AliasPairs
  PROVE  p \in allocation \X allocation /\ SameStart(p[1], p[2])
  <1>1. PICK S : allocation \subseteq NonEmpty(S)
    BY DEF PathsInv
  <1> DEFINE Alike == p \in allocation \X allocation /\ SameStart(p[1], p[2])
  <1>2. \A a \in allocation : a \in NonEmpty(S) /\ a \in Seq(S) /\ Len(a) \in Nat
    BY <1>1 DEF NonEmpty
  <1>3. ASSUME NEW a \in allocation, p = <<a, a>>
        PROVE  Alike
    BY <1>2, <1>3, SameStartReflexive
  <1>4. ASSUME NEW q \in alloc_aliases, p = <<q[2], q[1]>>
        PROVE  Alike
    BY <1>4, SameStartSymmetric DEF AliasesInv
  <1>5. ASSUME NEW a \in allocation, AtZero(a), p = <<Front(a), a>>
        PROVE  Alike
    <2>1. Front(a) \in allocation
      BY <1>5 DEF TypesInv, AtZero
    <2> QED
      BY <1>2, <1>5, <2>1, SameStartAtZero
  <1>6. ASSUME NEW q \in alloc_aliases, NEW r \in alloc_aliases, r[2] = q[2], p = <<q[1], r[1]>>
        PROVE  Alike
    <2>1. q[1] \in allocation /\ q[2] \in allocation /\ r[1] \in allocation
      BY DEF AliasesInv
    <2>2. SameStart(q[1], q[2]) /\ SameStart(q[2], r[1])
      BY <1>6, SameStartSymmetric DEF AliasesInv
    <2>3. SameStart(q[1], r[1])
      BY <1>2, <2>1, <2>2, SameStartTransitive
    <2> QED
      BY <1>6, <2>1, <2>3
  <1> HIDE DEF Alike
  <1>7. Alike
    BY <1>3, <1>4, <1>5, <1>6 DEF AliasPairs
  <1> QED
    BY <1>7 DEF Alike

-----------------------------------------------------------------------------
(* Unification.                                                            *)

(* What lies in an allocation has its root.                                *)
LEMMA PartKeepsRoot ==
  ASSUME NEW S, NEW a \in NonEmpty(S), NEW b \in NonEmpty(S), IsPrefix(a, b)
  PROVE  alloc_region(b) = alloc_region(a)
  <1>1. a \in Seq(S) /\ b \in Seq(S) /\ Len(a) >= 1 /\ Len(a) <= Len(b)
    BY DEF NonEmpty, IsPrefix
  <1>2. SubSeq(a, 1, Len(a)) = SubSeq(b, 1, Len(a))
    BY DEF IsPrefix
  <1>3. SubSeq(a, 1, Len(a))[1] = a[1] /\ SubSeq(b, 1, Len(a))[1] = b[1]
    BY <1>1
  <1> QED
    BY <1>2, <1>3 DEF alloc_region, Root

(* Parts of allocations of one region are of one region.                   *)
LEMMA SamePathsKeepRegion ==
  ASSUME NEW S, allocation \subseteq NonEmpty(S),
         NEW a \in NonEmpty(S), NEW b \in NonEmpty(S), alloc_region(a) = alloc_region(b),
         NEW p \in SamePaths(a, b)
  PROVE  alloc_region(p[1]) = alloc_region(p[2])
  <1>1. p[1] \in At(a) /\ p[2] \in At(b)
    BY DEF SamePaths
  <1> QED
    BY <1>1, PartKeepsRoot DEF At

(* A choice and what it is unified with agree in region.                   *)
LEMMA PairsAtKeepRegion ==
  ASSUME PathsInv, NEW choice, NEW facts,
         \A c \in choice : c[1] \in allocation, \A f \in facts : f[1] \in allocation,
         NEW p \in PairsAt(choice, facts)
  PROVE  alloc_region(p[1]) = alloc_region(p[2])
  <1>1. PICK S : allocation \subseteq NonEmpty(S)
    BY DEF PathsInv
  <1>2. PICK q \in choice \X facts : SameKey(q[1], q[2]) /\ p \in SamePaths(q[1][1], q[2][1])
    <2> DEFINE Keys == {q \in choice \X facts : SameKey(q[1], q[2])}
    <2>1. PICK X \in {SamePaths(q[1][1], q[2][1]) : q \in Keys} : p \in X
      BY DEF PairsAt
    <2>2. PICK q \in Keys : X = SamePaths(q[1][1], q[2][1])
      BY <2>1
    <2> QED
      BY <2>1, <2>2
  <1>3. q[1][1] \in NonEmpty(S) /\ q[2][1] \in NonEmpty(S)
    BY <1>1
  <1>4. alloc_region(q[1][1]) = alloc_region(q[2][1])
    BY <1>2 DEF SameKey, _unify_allocation_info
  <1> QED
    BY <1>1, <1>2, <1>3, <1>4, SamePathsKeepRegion

(* Aliases share their start, so their root.                               *)
LEMMA MustAliasPairsKeepRegion ==
  ASSUME PathsInv, AliasesInv, NEW p \in MustAliasPairs
  PROVE  alloc_region(p[1]) = alloc_region(p[2])
  <1>1. PICK S : allocation \subseteq NonEmpty(S)
    BY DEF PathsInv
  <1>3. alloc_aliases \subseteq NonEmpty(S) \X NonEmpty(S)
    BY <1>1 DEF AliasesInv
  <1>4. PICK q \in alloc_aliases : p \in SamePaths(q[2], q[1])
    <2>1. PICK X \in {SamePaths(q[2], q[1]) : q \in alloc_aliases} : p \in X
      BY DEF MustAliasPairs
    <2>2. PICK q \in alloc_aliases : X = SamePaths(q[2], q[1])
      BY <2>1
    <2> QED
      BY <2>1, <2>2
  <1>5. q[1][1] = q[2][1]
    BY DEF AliasesInv, SameStart
  <1>6. alloc_region(q[2]) = alloc_region(q[1])
    BY <1>5 DEF alloc_region, Root
  <1> QED
    BY <1>1, <1>3, <1>4, <1>6, SamePathsKeepRegion

(* Whatever is chosen was among the facts.                                 *)
LEMMA ChoicesAreFacts ==
  ASSUME NEW facts, NEW choice, NEW s \in ChoicesFrom(facts, choice)
  PROVE  s \subseteq facts
  BY DEF ChoicesFrom

(* A round unifies allocations of one region only.                         *)
LEMMA RoundKeeps ==
  ASSUME IInv, Round, allocation \subseteq allocation'
  PROVE  ChoicesInv' /\ RegionsNotMerged'
  <1>1. /\ \A f \in unify_var_expanded : f[1] \in allocation
        /\ \A f \in unify_ptr_expanded : f[1] \in allocation
    BY DEF unify_var_expanded, unify_ptr_expanded
  <1>2. ChoicesInv'
    <2>1. PICK chosen \in ChoicesFrom(unify_var_expanded, var_points_to_choice) :
            var_points_to_choice' = var_points_to_choice \cup chosen
      BY DEF Round
    <2>2. PICK chosen2 \in ChoicesFrom(unify_ptr_expanded, ptr_points_to_choice) :
            ptr_points_to_choice' = ptr_points_to_choice \cup chosen2
      BY DEF Round
    <2>3. chosen \subseteq unify_var_expanded /\ chosen2 \subseteq unify_ptr_expanded
      BY ChoicesAreFacts
    <2> QED
      BY <1>1, <2>1, <2>2, <2>3 DEF IInv, ChoicesInv
  <1>3. \A p \in Unify0Facts : alloc_region(p[1]) = alloc_region(p[2])
    BY <1>1, PairsAtKeepRegion, MustAliasPairsKeepRegion DEF Unify0Facts, IInv, ChoicesInv
  <1>4. unify0' = unify0 \cup Unify0Facts /\ program' = program
    BY DEF Round
  <1>5. \A a : alloc_region(a)' = alloc_region(a)
    BY <1>4 DEF alloc_region, Root
  <1> QED
    BY <1>2, <1>3, <1>4, <1>5 DEF IInv, RegionsNotMerged

-----------------------------------------------------------------------------
(* How a step may change the relations of subobjects.                      *)
PathsStep == allocation_type' \in {allocation_type, TypedSubregions}
MatchesStep == alloc_matches' \in {alloc_matches, alloc_matches \cup MatchPairs}
AliasesStep == alloc_aliases' \in {alloc_aliases, alloc_aliases \cup AliasPairs}

chosen_relations == <<program, var_points_to_choice, ptr_points_to_choice, unify0>>

(* Only the rounds choose and unify.                                       *)
LEMMA StepsOfNext ==
  ASSUME [Next]_vars
  PROVE  /\ PathsStep /\ MatchesStep /\ AliasesStep
         /\ UNCHANGED <<pointer_index, array_indices>>
         /\ Round \/ UNCHANGED chosen_relations
  <1>1. CASE Round
    BY <1>1 DEF Round, PathsStep, MatchesStep, AliasesStep
  <1>2. CASE AnalyseSubset /\ UNCHANGED unification
    BY <1>2 DEF inputs, AnalyseSubset, PairCopies, CopyContents, Analyse, analysis, SubobjectsStep, SubobjectsNext, MakeSubregions, ComputeSizes, RelateAliases,
                RelateMatches, IndexPointers, VarPointsTo, PtrPointsTo, subobjects, inputs,
                PathsStep, MatchesStep, AliasesStep, unification, chosen_relations
  <1>3. CASE UNCHANGED <<subset, unification>>
    BY <1>3 DEF subset, analysis, subobjects, unification, PathsStep, MatchesStep, AliasesStep,
                chosen_relations
  <1>4. Finish \/ Execute \/ UNCHANGED vars => UNCHANGED <<subset, unification>>
    BY DEF Finish, Execute, Assign, Copy, vars
  <1>5. Next => Round \/ (AnalyseSubset /\ UNCHANGED unification) \/ Finish \/ Execute
    BY DEF Next
  <1> QED
    BY <1>1, <1>2, <1>3, <1>4, <1>5

(* The invariant is inductive.                                             *)
LEMMA IInvStep == IInv /\ [Next]_vars => IInv'
  <1> SUFFICES ASSUME IInv, [Next]_vars PROVE IInv'
    OBVIOUS
  <1>1. PathsStep /\ MatchesStep /\ AliasesStep
    BY StepsOfNext
  <1>2. PathsInv' /\ allocation \subseteq allocation'
    <2>1. CASE allocation_type' = TypedSubregions
      BY <2>1, SubregionsKeepPaths DEF IInv
    <2>2. CASE allocation_type' = allocation_type
      BY <2>2 DEF IInv, PathsInv, allocation, WellFormed, AnyIndex, NonEmpty
    <2> QED
      BY <1>1, <2>1, <2>2 DEF PathsStep
  <1>7. TypesInv'
    <2>1. CASE allocation_type' = TypedSubregions
      BY <1>1, <2>1, SubregionsKeepTypes, StepsOfNext DEF IInv
    <2>2. CASE allocation_type' = allocation_type
      BY <2>2, StepsOfNext
         DEF IInv, TypesInv, allocation, alloc_subregion, LastFits, AnyIndex, Index, Field
    <2> QED
      BY <1>1, <2>1, <2>2 DEF PathsStep
  <1>3. MatchesInv'
    <2>1. \A p \in alloc_matches' : p[1] \in allocation /\ p[2] \in allocation /\ IsInstance(p[1], p[2])
      BY <1>1, MatchPairsAreInstances DEF MatchesStep, IInv, MatchesInv
    <2> QED
      BY <1>2, <2>1 DEF MatchesInv, IsInstance, AnyIndex
  <1>4. AliasesInv'
    <2>1. \A p \in alloc_aliases' : p \in allocation \X allocation /\ SameStart(p[1], p[2])
      BY <1>1, AliasPairsShareStart DEF AliasesStep, IInv, AliasesInv
    <2> QED
      BY <1>2, <2>1 DEF AliasesInv, SameStart, Index, Field
  <1>5. ChoicesInv' /\ RegionsNotMerged'
    <2>1. CASE Round
      BY <1>2, <2>1, RoundKeeps
    <2>2. CASE UNCHANGED chosen_relations
      BY <1>2, <2>2 DEF chosen_relations, IInv, ChoicesInv, RegionsNotMerged, alloc_region, Root
    <2> QED
      BY <2>1, <2>2, StepsOfNext
  <1>6. Analysed'
    <2>1. analysed' => UNCHANGED subset /\ (analysed \/ Fixpoint)
      BY DEF Next, Round, Finish, Execute, Assign, Copy, vars
    <2>2. analysed' => AliasPairs \subseteq alloc_aliases /\ MatchPairs \subseteq alloc_matches
      BY <2>1 DEF IInv, Analysed, Fixpoint
    <2> QED
      BY <2>1, <2>2 DEF Analysed, subset, analysis, subobjects, AliasPairs, MatchPairs,
                        SiblingPairs, InheritedPairs, MatchesFrom, Subregions, allocation, AtZero,
                        alloc_subregion, Index, Field
  <1> QED
    BY <1>2, <1>3, <1>4, <1>5, <1>6, <1>7 DEF IInv

-----------------------------------------------------------------------------
(* Induction over the numbers, in the form in which the provers can use    *)
(* it: about the set of the numbers that have a property.                  *)

LEMMA LeastNumber ==
  ASSUME NEW T, T \subseteq Nat, T # {}
  PROVE  \E x \in T : \A y \in T : x <= y
  <1> DEFINE R == OpToRel(<, Nat)
  <1>1. IsWellFoundedOn(R, Nat)
    BY NatLessThanWellFounded
  <1>2. \A x, y \in Nat : y < x => <<y, x>> \in R
    BY DEF OpToRel
  <1> HIDE DEF R
  <1>3. PICK x \in T : \A y \in T : ~(<<y, x>> \in R)
    BY <1>1, WFMin
  <1>4. ASSUME NEW y \in T
        PROVE  x <= y
    <2>1. ~(<<y, x>> \in R) /\ x \in Nat /\ y \in Nat
      BY <1>3
    <2>2. ~(y < x)
      BY <1>2, <2>1
    <2> HIDE DEF R
    <2> QED
      BY <2>1, <2>2
  <1> QED
    BY <1>4

LEMMA InductionOverNumbers ==
  ASSUME NEW P, 0 \in P, \A n \in Nat : n \in P => n + 1 \in P
  PROVE  \A n \in Nat : n \in P
  <1> SUFFICES ASSUME Nat \ P # {} PROVE FALSE
    OBVIOUS
  <1>1. PICK x \in Nat \ P : \A y \in Nat \ P : x <= y
    BY LeastNumber
  <1>2. x # 0 /\ x - 1 \in Nat /\ ~(x <= x - 1)
    BY <1>1
  <1>3. x - 1 \in P
    BY <1>1, <1>2
  <1> QED
    BY <1>1, <1>2, <1>3

-----------------------------------------------------------------------------
(* What the rules have found when they add nothing.                        *)

(* A subregion is a part of what it lies in.                               *)
LEMMA PartOfBase ==
  ASSUME NEW S, allocation \subseteq NonEmpty(S), NEW a \in allocation, alloc_subregion(a)
  PROVE  /\ a \in Subregions(Front(a), Last(a).at)
         /\ Len(Front(a)) = Len(a) - 1 /\ Len(a) \in Nat
         /\ Last(a) = a[Len(a)] /\ \A k \in 1 .. Len(a) - 1 : Front(a)[k] = a[k]
  <1>1. a \in Seq(S) /\ Len(a) \in Nat /\ Len(a) > 1
    BY DEF NonEmpty, alloc_subregion
  <1>2. /\ Front(a) \in Seq(S) /\ Len(Front(a)) = Len(a) - 1
        /\ \A k \in 1 .. Len(a) - 1 : Front(a)[k] = a[k]
    BY <1>1 DEF Front
  <1> DEFINE b == Front(a)
  <1>3. SubSeq(b, 1, Len(b)) = SubSeq(a, 1, Len(b))
    <2> HIDE DEF b
    <2>1. b \in Seq(S) /\ Len(b) = Len(a) - 1 /\ \A k \in 1 .. Len(b) : b[k] = a[k]
      BY <1>1, <1>2 DEF b
    <2> QED
      BY <1>1, <2>1
  <1>4. IsPrefix(b, a)
    BY <1>1, <1>2, <1>3 DEF IsPrefix
  <1> QED
    BY <1>1, <1>2, <1>4 DEF Subregions, Last

(* Two subregions are instances of one another by their last components or *)
(* by their bases.                                                         *)
LEMMA InstanceOfBases ==
  ASSUME NEW S, allocation \subseteq NonEmpty(S), NEW a \in allocation, NEW b \in allocation,
         alloc_subregion(a), IsInstance(a, b)
  PROVE  /\ alloc_subregion(b)
         /\ Front(a) = Front(b) \/ IsInstance(Front(a), Front(b))
         /\ \/ Front(a) # Front(b) /\ Last(a) = Last(b)
            \/ Last(a).at = "index" /\ Last(b) = AnyIndex
  <1>1. Len(a) = Len(b) /\ alloc_subregion(b)
    BY DEF IsInstance, alloc_subregion
  <1>2. /\ Len(a) \in Nat /\ Len(a) > 1
        /\ Len(Front(a)) = Len(a) - 1 /\ Len(Front(b)) = Len(a) - 1
        /\ Last(a) = a[Len(a)] /\ Last(b) = b[Len(a)]
        /\ \A k \in 1 .. Len(a) - 1 : Front(a)[k] = a[k] /\ Front(b)[k] = b[k]
    BY <1>1, PartOfBase DEF alloc_subregion
  <1>3. Last(a) = Last(b) \/ (Last(a).at = "index" /\ Last(b) = AnyIndex)
    BY <1>2 DEF IsInstance
  <1>4. Front(a) = Front(b) \/ IsInstance(Front(a), Front(b))
    BY <1>2 DEF IsInstance
  <1>5. Front(a) = Front(b) => Last(a) # Last(b)
    <2> SUFFICES ASSUME Front(a) = Front(b), Last(a) = Last(b) PROVE FALSE
      OBVIOUS
    <2>1. a \in Seq(S) /\ b \in Seq(S)
      BY DEF NonEmpty
    <2>2. ASSUME NEW k \in 1 .. Len(a)
          PROVE  a[k] = b[k]
      <3>1. k = Len(a) \/ k \in 1 .. Len(a) - 1
        BY <1>2
      <3> HIDE DEF Front, Last
      <3>2. CASE k = Len(a)
        BY <1>2, <3>2
      <3>3. CASE k \in 1 .. Len(a) - 1
        <4>1. Front(a)[k] = a[k] /\ Front(b)[k] = b[k]
          BY <1>2, <3>3
        <4> QED
          BY <4>1
      <3> QED
        BY <3>1, <3>2, <3>3
    <2>3. a = b
      BY <1>1, <2>1, <2>2
    <2> QED
      BY <2>3 DEF IsInstance
  <1> QED
    BY <1>1, <1>3, <1>4, <1>5

(* An instance of a known allocation is found once that of its base is.    *)
LEMMA InstancesAreMatched ==
  ASSUME IInv, analysed, NEW a \in allocation, NEW b \in allocation, IsInstance(a, b)
  PROVE  <<a, b>> \in alloc_matches
  <1>1. PICK S : allocation \subseteq NonEmpty(S)
    BY DEF IInv, PathsInv
  <1> DEFINE P == {n \in Nat : \A c, d \in allocation :
                     Len(c) = n + 1 /\ IsInstance(c, d) => <<c, d>> \in alloc_matches}
  <1>2. 0 \in P
    <2> SUFFICES ASSUME NEW c \in allocation, NEW d \in allocation, Len(c) = 1, IsInstance(c, d)
                 PROVE  FALSE
      OBVIOUS
    <2>1. c \in Seq(S) /\ d \in Seq(S)
      BY <1>1 DEF NonEmpty
    <2>2. Len(c) = Len(d) /\ c # d
      BY DEF IsInstance
    <2>3. 1 \in 1 .. Len(c) /\ ~(1 > 1)
      OBVIOUS
    <2>4. c[1] = d[1]
      BY <2>3 DEF IsInstance
    <2> QED
      BY <2>1, <2>2, <2>4
  <1>3. ASSUME NEW n \in Nat, n \in P
        PROVE  n + 1 \in P
    <2> SUFFICES ASSUME NEW c \in allocation, NEW d \in allocation,
                        Len(c) = n + 2, IsInstance(c, d)
                 PROVE  <<c, d>> \in MatchPairs
      BY DEF IInv, Analysed
    <2>1. alloc_subregion(c)
      BY DEF alloc_subregion
    <2>2. /\ alloc_subregion(d)
          /\ Front(c) = Front(d) \/ IsInstance(Front(c), Front(d))
          /\ \/ Front(c) # Front(d) /\ Last(c) = Last(d)
             \/ Last(c).at = "index" /\ Last(d) = AnyIndex
      BY <1>1, <2>1, InstanceOfBases
    <2>3. /\ c \in Subregions(Front(c), Last(c).at) /\ d \in Subregions(Front(d), Last(d).at)
          /\ Len(Front(c)) = n + 1
      BY <1>1, <2>1, <2>2, PartOfBase
    <2>4. Front(c) \in allocation /\ Front(d) \in allocation /\ LastFits(c)
      BY <2>1, <2>2 DEF IInv, TypesInv
    <2>5. Last(c).at \in {"any", "index", "field"} /\ AnyIndex.at = "any"
      BY <2>4 DEF LastFits, AnyIndex, Index, Field
    <2>6. CASE Front(c) = Front(d)
      <3>1. <<c, d>> \in Subregions(Front(c), "index") \X Subregions(Front(c), "any")
        BY <2>2, <2>3, <2>5, <2>6
      <3> QED
        BY <2>4, <3>1 DEF MatchPairs, SiblingPairs
    <2>7. CASE Front(c) # Front(d)
      <3>1. <<Front(c), Front(d)>> \in alloc_matches
        BY <1>3, <2>2, <2>3, <2>4, <2>7
      <3>2. \/ <<c, d>> \in Subregions(Front(c), "index") \X Subregions(Front(d), "any")
            \/ /\ <<c, d>> \in Subregions(Front(c), Last(c).at) \X Subregions(Front(d), Last(c).at)
               /\ Last(c) = Last(d)
        BY <2>2, <2>3, <2>5
      <3>3. <<c, d>> \in MatchesFrom(Front(c), Front(d))
        BY <2>5, <3>2 DEF MatchesFrom
      <3> QED
        BY <3>1, <3>3 DEF MatchPairs, InheritedPairs
    <2> QED
      BY <2>6, <2>7
  <1> HIDE DEF P
  <1>4. \A n \in Nat : n \in P
    BY <1>2, <1>3, InductionOverNumbers
  <1>5. Len(a) \in Nat /\ Len(a) >= 1
    BY <1>1 DEF NonEmpty
  <1>6. Len(a) - 1 \in Nat /\ Len(a) = (Len(a) - 1) + 1
    BY <1>5
  <1> QED
    BY <1>4, <1>6 DEF P

-----------------------------------------------------------------------------
(* The address of an allocation, as a recursive function.                  *)

(* Component k adds a stride, an offset or nothing to the address before.  *)
AddressAfter(a, k, before) ==
  IF k = 1 THEN [root |-> a[1], offset |-> 0, strides |-> <<>>]
  ELSE IF a[k].at = "any"
  THEN [before EXCEPT !.strides = Append(@, Size[allocation_type[SubSeq(a, 1, k)]])]
  ELSE IF HasOffset(SubSeq(a, 1, k))
  THEN [before EXCEPT !.offset = @ + OffsetInBase(SubSeq(a, 1, k))]
  ELSE before

LEMMA AddressUnfolds ==
  ASSUME NEW a, Len(a) \in Nat
  PROVE  \E upto : /\ SymbolicAddress(a) = upto[Len(a)]
                   /\ \A k \in 1 .. Len(a) : upto[k] = AddressAfter(a, k, upto[k - 1])
  <1> DEFINE n == Len(a)
             After(f, k) == AddressAfter(a, k, f[k - 1])
             P == {m \in Nat : \E f : f = [k \in 1 .. m |-> After(f, k)]}
  <1>1. 0 \in P
    <2>1. [k \in 1 .. 0 |-> 0] = [k \in 1 .. 0 |-> After([i \in 1 .. 0 |-> 0], k)]
      OBVIOUS
    <2> QED
      BY <2>1
  <1>2. ASSUME NEW m \in Nat, m \in P
        PROVE  m + 1 \in P
    <2>1. PICK g : g = [k \in 1 .. m |-> After(g, k)]
      BY <1>2
    <2> DEFINE h == [k \in 1 .. m + 1 |-> After(g, k)]
    <2>2. ASSUME NEW k \in 1 .. m
          PROVE  h[k] = g[k]
      <3> HIDE DEF After
      <3>1. g[k] = After(g, k)
        BY <2>1
      <3> QED
        BY <3>1
    <2>3. ASSUME NEW k \in 1 .. m + 1
          PROVE  After(h, k) = After(g, k)
      <3>1. k # 1 => k - 1 \in 1 .. m
        OBVIOUS
      <3>2. k # 1 => h[k - 1] = g[k - 1]
        BY <2>2, <3>1
      <3> HIDE DEF h
      <3> QED
        BY <3>2 DEF AddressAfter
    <2>4. h = [k \in 1 .. m + 1 |-> After(h, k)]
      <3>1. [k \in 1 .. m + 1 |-> After(h, k)] = [k \in 1 .. m + 1 |-> After(g, k)]
        <4> HIDE DEF h, After
        <4> QED
          BY <2>3
      <3> HIDE DEF After
      <3> QED
        BY <3>1
    <2> HIDE DEF h, After
    <2> QED
      BY <2>4
  <1>3. n \in P
    <2> HIDE DEF P
    <2> QED
      BY <1>1, <1>2, InductionOverNumbers
  <1> DEFINE F == CHOOSE f : f = [k \in 1 .. n |-> After(f, k)]
  <1>4. F = [k \in 1 .. n |-> After(F, k)]
    <2> HIDE DEF After
    <2>1. \E f : f = [k \in 1 .. n |-> After(f, k)]
      BY <1>3
    <2> QED
      BY <2>1, Zenon
  <1>5. SymbolicAddress(a) = F[n]
    BY DEF SymbolicAddress, AddressAfter
  <1>6. \A k \in 1 .. n : F[k] = After(F, k)
    <2> HIDE DEF F, After
    <2> QED
      BY <1>4
  <1> QED
    BY <1>5, <1>6

(* What an allocation with base a has in common with a.                    *)
LEMMA StartOfPath ==
  ASSUME NEW S, NEW a \in NonEmpty(S), NEW n \in 1 .. Len(a)
  PROVE  /\ SubSeq(a, 1, n) \in NonEmpty(S) /\ Len(SubSeq(a, 1, n)) = n
         /\ \A k \in 1 .. n : SubSeq(a, 1, n)[k] = a[k]
         /\ \A k \in 1 .. n : SubSeq(SubSeq(a, 1, n), 1, k) = SubSeq(a, 1, k)
         /\ n = Len(a) => SubSeq(a, 1, n) = a
         /\ n > 1 => Front(SubSeq(a, 1, n)) = SubSeq(a, 1, n - 1)
         /\ Len(a) \in Nat \ {0}
  <1>1. a \in Seq(S) /\ Len(a) \in Nat /\ n \in Nat /\ 1 <= n /\ n <= Len(a)
    BY DEF NonEmpty
  <1> DEFINE b == SubSeq(a, 1, n)
  <1>2. b \in Seq(S) /\ Len(b) = n /\ \A k \in 1 .. n : b[k] = a[k]
    BY <1>1
  <1> HIDE DEF b
  <1>3. b \in NonEmpty(S)
    BY <1>1, <1>2 DEF NonEmpty
  <1>4. ASSUME NEW k \in 1 .. n
        PROVE  SubSeq(b, 1, k) = SubSeq(a, 1, k)
    BY <1>1, <1>2
  <1>5. n = Len(a) => b = a
    BY <1>1, <1>2
  <1>6. n > 1 => Front(b) = SubSeq(b, 1, n - 1) /\ n - 1 \in 1 .. n
    BY <1>1, <1>2 DEF Front
  <1>7. n > 1 => Front(b) = SubSeq(a, 1, n - 1)
    BY <1>4, <1>6
  <1> QED
    BY <1>1, <1>2, <1>3, <1>4, <1>5, <1>7 DEF b

(* Everything that an allocation lies in is an allocation.                 *)
LEMMA StartsAreAllocations ==
  ASSUME PathsInv, TypesInv, NEW a \in allocation, NEW n \in 1 .. Len(a)
  PROVE  SubSeq(a, 1, n) \in allocation
  <1>1. PICK S : allocation \subseteq NonEmpty(S)
    BY DEF PathsInv
  <1>2. a \in NonEmpty(S) /\ Len(a) \in Nat
    BY <1>1 DEF NonEmpty
  <1> DEFINE P == {m \in Nat : m < Len(a) => SubSeq(a, 1, Len(a) - m) \in allocation}
  <1>3. 0 \in P
    <2>1. 0 < Len(a) => Len(a) - 0 \in 1 .. Len(a) /\ Len(a) - 0 = Len(a)
      BY <1>2
    <2>2. 0 < Len(a) => SubSeq(a, 1, Len(a) - 0) = a
      BY <1>2, <2>1, StartOfPath
    <2> QED
      BY <2>2
  <1>4. ASSUME NEW m \in Nat, m \in P
        PROVE  m + 1 \in P
    <2> SUFFICES ASSUME m + 1 < Len(a) PROVE SubSeq(a, 1, Len(a) - (m + 1)) \in allocation
      OBVIOUS
    <2> DEFINE k == Len(a) - m
    <2>1. k \in 1 .. Len(a) /\ k > 1 /\ k - 1 = Len(a) - (m + 1)
      BY <1>2
    <2>2. SubSeq(a, 1, k) \in allocation
      BY <1>2, <1>4
    <2> HIDE DEF k
    <2>3. Len(SubSeq(a, 1, k)) = k /\ Front(SubSeq(a, 1, k)) = SubSeq(a, 1, k - 1)
      BY <1>2, <2>1, StartOfPath
    <2>4. Front(SubSeq(a, 1, k)) \in allocation
      BY <2>1, <2>2, <2>3 DEF TypesInv, alloc_subregion
    <2> QED
      BY <2>1, <2>3, <2>4
  <1> HIDE DEF P
  <1>5. \A m \in Nat : m \in P
    BY <1>3, <1>4, InductionOverNumbers
  <1>6. Len(a) - n \in Nat /\ Len(a) - n < Len(a) /\ Len(a) - (Len(a) - n) = n
    BY <1>2
  <1> QED
    BY <1>5, <1>6 DEF P

(* An offset is a number, and zero at the first element or field.          *)
LEMMA OffsetsAreNumbers ==
  ASSUME TypesInv, NEW a \in allocation, HasOffset(a)
  PROVE  OffsetInBase(a) \in Int /\ (AtZero(a) => OffsetInBase(a) = 0)
  <1>1. Front(a) \in allocation /\ LastFits(a) /\ Last(a).at \in {"field", "index"}
    BY DEF TypesInv, HasOffset
  <1>2. CASE Last(a).at = "field"
    <2> DEFINE t == allocation_type[Front(a)]
    <2>1. t \in Type /\ OffsetInBase(a) = Offset[t][Last(a).n + 1]
      BY <1>1, <1>2 DEF TypesInv, OffsetInBase
    <2>2. PICK f \in Nat : Last(a) = Field(f) /\ IsStruct(t) /\ f + 1 \in DOMAIN Elements[t]
      BY <1>1, <1>2 DEF LastFits, AnyIndex, Index
    <2> HIDE DEF t
    <2>3. /\ Offset[t] \in [DOMAIN Elements[t] -> Nat] /\ Elements[t] \in Seq(Type)
          /\ Elements[t] # <<>> => Offset[t][1] = 0
      BY <2>1, <2>2, TypeLayoutAssumption DEF IsStruct
    <2>4. Elements[t] # <<>>
      BY <2>2
    <2>5. Last(a).n = f
      BY <2>2 DEF Field
    <2>6. AtZero(a) => f = 0
      BY <2>2 DEF AtZero, Field, Index
    <2> QED
      BY <2>1, <2>2, <2>3, <2>4, <2>5, <2>6
  <1>3. CASE Last(a).at = "index"
    <2>1. PICK i \in Int : Last(a) = Index(i)
      BY <1>1, <1>3 DEF LastFits, AnyIndex, Field
    <2>2. Size[allocation_type[a]] \in Nat
      BY <1>3, TypeLayoutAssumption DEF HasOffset, IsSized
    <2>3. OffsetInBase(a) = i * Size[allocation_type[a]]
      BY <1>3, <2>1 DEF OffsetInBase, Index
    <2>4. AtZero(a) => i = 0
      BY <2>1 DEF AtZero, Index, Field
    <2> QED
      BY <2>2, <2>3, <2>4
  <1> QED
    BY <1>1, <1>2, <1>3

IsAddress(x) ==
  /\ x = [root |-> x.root, offset |-> x.offset, strides |-> x.strides]
  /\ x.offset \in Int

(* Every component leaves an address.                                      *)
LEMMA ComponentsKeepAddress ==
  ASSUME PathsInv, TypesInv, NEW a \in allocation, NEW k \in 1 .. Len(a), NEW x,
         k > 1 => IsAddress(x)
  PROVE  IsAddress(AddressAfter(a, k, x))
  <1> DEFINE part == SubSeq(a, 1, k)
  <1>1. part \in allocation
    BY StartsAreAllocations
  <1> HIDE DEF part
  <1>2. HasOffset(part) => OffsetInBase(part) \in Int
    BY <1>1, OffsetsAreNumbers
  <1>3. CASE k = 1
    BY <1>3 DEF AddressAfter, IsAddress
  <1>4. CASE k # 1
    <2>1. x = [root |-> x.root, offset |-> x.offset, strides |-> x.strides] /\ x.offset \in Int
      BY <1>4 DEF IsAddress
    <2>2. ASSUME NEW s
          PROVE  [x EXCEPT !.strides = s] = [root |-> x.root, offset |-> x.offset, strides |-> s]
      BY <2>1
    <2>3. ASSUME NEW o
          PROVE  [x EXCEPT !.offset = o] = [root |-> x.root, offset |-> o, strides |-> x.strides]
      BY <2>1
    <2>4. \A s : IsAddress([x EXCEPT !.strides = s])
      BY <2>1, <2>2 DEF IsAddress
    <2>5. \A o \in Int : IsAddress([x EXCEPT !.offset = o])
      BY <2>3 DEF IsAddress
    <2>6. IsAddress(x)
      BY <1>4
    <2>7. HasOffset(part) => x.offset + OffsetInBase(part) \in Int
      BY <1>2, <2>1
    <2> HIDE DEF IsAddress
    <2>8. CASE a[k].at = "any"
      BY <1>4, <2>4, <2>8 DEF AddressAfter
    <2>9. CASE a[k].at # "any"
      BY <1>4, <2>5, <2>6, <2>7, <2>9 DEF AddressAfter, part
    <2> QED
      BY <2>8, <2>9
  <1> QED
    BY <1>3, <1>4

(* The first element and the first field lie where the whole does.         *)
LEMMA AddressAtZero ==
  ASSUME PathsInv, TypesInv, NEW a \in allocation, AtZero(a)
  PROVE  SymbolicAddress(a) = SymbolicAddress(Front(a))
  <1>1. PICK S : allocation \subseteq NonEmpty(S)
    BY DEF PathsInv
  <1>2. a \in NonEmpty(S) /\ alloc_subregion(a) /\ Last(a) \in {Index(0), Field(0)}
    BY <1>1 DEF AtZero
  <1> DEFINE n == Len(a) - 1
             b == Front(a)
  <1>3. /\ n \in Nat \ {0} /\ Len(a) = n + 1 /\ Len(b) = n /\ Last(a) = a[n + 1]
        /\ \A k \in 1 .. n : b[k] = a[k]
    BY <1>1, <1>2, PartOfBase DEF alloc_subregion
  <1> HIDE DEF n
  <1>4. b = SubSeq(a, 1, n)
    <2>1. n + 1 \in 1 .. Len(a) /\ n + 1 > 1 /\ (n + 1) - 1 = n
      BY <1>3
    <2>2. SubSeq(a, 1, n + 1) = a
      BY <1>2, <1>3, <2>1, StartOfPath
    <2>3. Front(SubSeq(a, 1, n + 1)) = SubSeq(a, 1, (n + 1) - 1)
      BY <1>2, <2>1, StartOfPath
    <2> QED
      BY <2>1, <2>2, <2>3
  <1>5. n \in 1 .. Len(a) /\ n + 1 \in 1 .. Len(a)
    BY <1>3
  <1>6. PICK u : /\ SymbolicAddress(a) = u[n + 1]
                 /\ \A k \in 1 .. n + 1 : u[k] = AddressAfter(a, k, u[k - 1])
    BY <1>3, AddressUnfolds
  <1>7. PICK v : /\ SymbolicAddress(b) = v[n]
                 /\ \A k \in 1 .. n : v[k] = AddressAfter(b, k, v[k - 1])
    BY <1>3, AddressUnfolds
  <1> HIDE DEF b
  <1>8. ASSUME NEW k \in 1 .. n, NEW x
        PROVE  AddressAfter(a, k, x) = AddressAfter(b, k, x)
    <2>1. a[k] = b[k] /\ a[1] = b[1]
      BY <1>3
    <2>2. SubSeq(a, 1, k) = SubSeq(b, 1, k)
      BY <1>2, <1>4, <1>5, StartOfPath
    <2> QED
      BY <2>1, <2>2 DEF AddressAfter
  <1> DEFINE P == {m \in Nat : m + 1 <= n => u[m + 1] = v[m + 1] /\ IsAddress(u[m + 1])}
  <1>9. ASSUME NEW k \in 1 .. n, k > 1 => u[k - 1] = v[k - 1] /\ IsAddress(u[k - 1])
        PROVE  u[k] = v[k] /\ IsAddress(u[k])
    <2>1. u[k] = AddressAfter(a, k, u[k - 1]) /\ v[k] = AddressAfter(b, k, v[k - 1])
      BY <1>3, <1>6, <1>7
    <2>2. IsAddress(u[k])
      BY <1>3, <1>9, <2>1, ComponentsKeepAddress
    <2>3. AddressAfter(b, k, v[k - 1]) = AddressAfter(b, k, u[k - 1])
      <3>1. CASE k = 1
        BY <3>1 DEF AddressAfter
      <3>2. CASE k # 1
        <4>1. u[k - 1] = v[k - 1]
          BY <1>9, <3>2
        <4> QED
          BY <4>1
      <3> QED
        BY <3>1, <3>2
    <2> QED
      BY <1>8, <2>1, <2>2, <2>3
  <1>10. 0 \in P
    BY <1>3, <1>9
  <1>11. ASSUME NEW m \in Nat, m \in P
         PROVE  m + 1 \in P
    <2> SUFFICES ASSUME (m + 1) + 1 <= n
                 PROVE  u[(m + 1) + 1] = v[(m + 1) + 1] /\ IsAddress(u[(m + 1) + 1])
      OBVIOUS
    <2>1. u[m + 1] = v[m + 1] /\ IsAddress(u[m + 1])
      BY <1>3, <1>11
    <2>2. (m + 1) + 1 \in 1 .. n /\ ((m + 1) + 1) - 1 = m + 1
      BY <1>3
    <2> QED
      BY <1>9, <2>1, <2>2
  <1> HIDE DEF P
  <1>12. u[n] = v[n] /\ IsAddress(u[n])
    <2>1. n - 1 \in P
      BY <1>3, <1>10, <1>11, InductionOverNumbers
    <2> QED
      BY <1>3, <2>1 DEF P
  <1>13. u[n + 1] = u[n]
    <2>1. u[n + 1] = AddressAfter(a, n + 1, u[n])
      BY <1>3, <1>6
    <2>2. SubSeq(a, 1, n + 1) = a
      BY <1>2, <1>3, <1>5, StartOfPath
    <2>3. a[n + 1].at # "any" /\ n + 1 # 1
      BY <1>2, <1>3 DEF Index, Field
    <2>4. HasOffset(a) => OffsetInBase(a) = 0
      BY OffsetsAreNumbers
    <2>5. [u[n] EXCEPT !.offset = @ + 0] = u[n]
      <3> DEFINE x == u[n]
      <3>1. x = [root |-> x.root, offset |-> x.offset, strides |-> x.strides] /\ x.offset \in Int
        BY <1>12 DEF IsAddress
      <3> HIDE DEF x
      <3>2. [x EXCEPT !.offset = @ + 0] = x
        BY <3>1
      <3> QED
        BY <3>2 DEF x
    <2>6. CASE HasOffset(a)
      BY <2>1, <2>2, <2>3, <2>4, <2>5, <2>6 DEF AddressAfter
    <2>7. CASE ~HasOffset(a)
      BY <2>1, <2>2, <2>3, <2>7 DEF AddressAfter
    <2> QED
      BY <2>6, <2>7
  <1> QED
    BY <1>6, <1>7, <1>12, <1>13 DEF b

-----------------------------------------------------------------------------
(* Aliases and the paths that they share.                                  *)

(* Aliases of one allocation are aliases.                                  *)
LEMMA AliasesCompose ==
  ASSUME NEW a, NEW b, NEW c, <<a, c>> \in alloc_aliases, <<b, c>> \in alloc_aliases
  PROVE  <<a, b>> \in AliasPairs
  <1> DEFINE From(p) == {<<p[1], q[1]>> : q \in {q \in alloc_aliases : q[2] = p[2]}}
  <1>1. <<a, b>> \in From(<<a, c>>)
    OBVIOUS
  <1>2. <<a, b>> \in UNION {From(p) : p \in alloc_aliases}
    <2> HIDE DEF From
    <2> QED
      BY <1>1
  <1> QED
    BY <1>2 DEF AliasPairs

(* What adds only zeros to a path is at its address, and is found to be.   *)
LEMMA ZerosAddNothing ==
  ASSUME PathsInv, TypesInv, NEW a \in allocation, NEW n \in 1 .. Len(a),
         \A k \in n + 1 .. Len(a) : a[k] \in {Index(0), Field(0)}
  PROVE  /\ SymbolicAddress(a) = SymbolicAddress(SubSeq(a, 1, n))
         /\ alloc_aliases \subseteq allocation \X allocation /\ AliasPairs \subseteq alloc_aliases
              => <<SubSeq(a, 1, n), a>> \in alloc_aliases
  <1> DEFINE Closed == alloc_aliases \subseteq allocation \X allocation /\ AliasPairs \subseteq alloc_aliases
             Good(b) == /\ SymbolicAddress(b) = SymbolicAddress(SubSeq(a, 1, n))
                        /\ Closed => <<SubSeq(a, 1, n), b>> \in alloc_aliases
             P == {m \in Nat : n + m <= Len(a) => Good(SubSeq(a, 1, n + m))}
  <1>1. PICK S : allocation \subseteq NonEmpty(S)
    BY DEF PathsInv
  <1>2. a \in NonEmpty(S) /\ Len(a) \in Nat /\ n \in Nat \ {0} /\ n <= Len(a)
    BY <1>1 DEF NonEmpty
  <1>3. 0 \in P
    <2>1. SubSeq(a, 1, n) \in allocation
      BY StartsAreAllocations
    <2>2. Closed => <<SubSeq(a, 1, n), SubSeq(a, 1, n)>> \in alloc_aliases
      BY <2>1 DEF AliasPairs
    <2> HIDE DEF Closed
    <2> QED
      BY <1>2, <2>2
  <1>4. ASSUME NEW m \in Nat, m \in P
        PROVE  m + 1 \in P
    <2> SUFFICES ASSUME n + (m + 1) <= Len(a) PROVE Good(SubSeq(a, 1, n + (m + 1)))
      OBVIOUS
    <2> DEFINE k == n + (m + 1)
               b == SubSeq(a, 1, k)
               c == SubSeq(a, 1, n + m)
    <2>1. k \in 1 .. Len(a) /\ k > 1 /\ k - 1 = n + m /\ n + m <= Len(a) /\ k \in n + 1 .. Len(a)
      BY <1>2
    <2>2. Good(c)
      BY <1>4, <2>1
    <2> HIDE DEF Good, k
    <2>3. /\ b \in allocation /\ Len(b) = k /\ b[k] = a[k] /\ Front(b) = c
      <3>1. b \in allocation
        BY <2>1, StartsAreAllocations
      <3>2. /\ Len(b) = k /\ \A i \in 1 .. k : b[i] = a[i]
            /\ Front(b) = SubSeq(a, 1, k - 1)
        BY <1>2, <2>1, StartOfPath
      <3>3. k \in 1 .. k
        BY <2>1
      <3> QED
        BY <2>1, <3>1, <3>2, <3>3
    <2> HIDE DEF b, c
    <2>4. AtZero(b)
      BY <2>1, <2>3 DEF AtZero, alloc_subregion, Last
    <2>5. SymbolicAddress(b) = SymbolicAddress(c)
      BY <2>3, <2>4, AddressAtZero
    <2>6. Closed => <<c, b>> \in alloc_aliases
      BY <2>3, <2>4 DEF AliasPairs
    <2>7. Closed => <<SubSeq(a, 1, n), b>> \in alloc_aliases
      <3> SUFFICES ASSUME Closed PROVE <<SubSeq(a, 1, n), b>> \in alloc_aliases
        OBVIOUS
      <3>1. <<SubSeq(a, 1, n), c>> \in alloc_aliases /\ <<c, b>> \in alloc_aliases
        BY <2>2, <2>6 DEF Good
      <3>2. <<b, c>> \in alloc_aliases
        BY <3>1 DEF AliasPairs
      <3>3. <<SubSeq(a, 1, n), b>> \in AliasPairs
        BY <3>1, <3>2, AliasesCompose
      <3> QED
        BY <3>3
    <2> QED
      BY <2>2, <2>5, <2>7 DEF Good, b, k
  <1> HIDE DEF P
  <1>5. Len(a) - n \in P
    BY <1>2, <1>3, <1>4, InductionOverNumbers
  <1>6. n + (Len(a) - n) = Len(a) /\ Len(a) \in 1 .. Len(a)
    BY <1>2
  <1>7. SubSeq(a, 1, Len(a)) = a
    BY <1>2, <1>6, StartOfPath
  <1>8. SubSeq(a, 1, n + (Len(a) - n)) = a
    BY <1>6, <1>7
  <1>9. Good(SubSeq(a, 1, n + (Len(a) - n)))
    <2> HIDE DEF Good
    <2> QED
      BY <1>2, <1>5, <1>6 DEF P
  <1> QED
    BY <1>8, <1>9

(* So are two allocations that are one path but for zeros.                 *)
LEMMA SharedStart ==
  ASSUME PathsInv, TypesInv, NEW a \in allocation, NEW b \in allocation, SameStart(a, b)
  PROVE  /\ SymbolicAddress(a) = SymbolicAddress(b)
         /\ alloc_aliases \subseteq allocation \X allocation /\ AliasPairs \subseteq alloc_aliases
              => <<a, b>> \in alloc_aliases
  <1>1. PICK S : allocation \subseteq NonEmpty(S)
    BY DEF PathsInv
  <1>2. PICK n \in Nat \ {0} :
          /\ n <= Len(a) /\ n <= Len(b)
          /\ \A k \in 1 .. n : a[k] = b[k]
          /\ \A k \in n + 1 .. Len(a) : a[k] \in {Index(0), Field(0)}
          /\ \A k \in n + 1 .. Len(b) : b[k] \in {Index(0), Field(0)}
    BY DEF SameStart
  <1>3. a \in Seq(S) /\ b \in Seq(S) /\ Len(a) \in Nat /\ Len(b) \in Nat
    BY <1>1 DEF NonEmpty
  <1>4. n \in 1 .. Len(a) /\ n \in 1 .. Len(b)
    BY <1>2, <1>3
  <1>5. SubSeq(a, 1, n) = SubSeq(b, 1, n)
    BY <1>2, <1>3, <1>4
  <1> DEFINE Closed == alloc_aliases \subseteq allocation \X allocation /\ AliasPairs \subseteq alloc_aliases
  <1> HIDE DEF Closed
  <1>6. /\ SymbolicAddress(a) = SymbolicAddress(SubSeq(a, 1, n))
        /\ Closed => <<SubSeq(a, 1, n), a>> \in alloc_aliases
    BY <1>2, <1>4, ZerosAddNothing DEF Closed
  <1>7. /\ SymbolicAddress(b) = SymbolicAddress(SubSeq(b, 1, n))
        /\ Closed => <<SubSeq(b, 1, n), b>> \in alloc_aliases
    BY <1>2, <1>4, ZerosAddNothing DEF Closed
  <1>8. ASSUME Closed
        PROVE  <<a, b>> \in alloc_aliases
    <2>1. <<a, SubSeq(a, 1, n)>> \in alloc_aliases /\ <<b, SubSeq(a, 1, n)>> \in alloc_aliases
      BY <1>5, <1>6, <1>7, <1>8 DEF AliasPairs, Closed
    <2> QED
      BY <1>8, <2>1, AliasesCompose DEF Closed
  <1> QED
    BY <1>5, <1>6, <1>7, <1>8 DEF Closed

(* alloc_matches never relates an allocation to itself or to one that has  *)
(* an index where it has a star, after any number of rules in any order.   *)
THEOREM MatchesAreOrdered == Spec => []MatchesOrdered
  <1>1. IInv => MatchesOrdered
    BY DEF IInv, MatchesInv, MatchesOrdered
  <1> QED
    BY IInvInit, IInvStep, <1>1, PTL DEF Spec

(* And when the rules have added all they can, alloc_matches is exactly    *)
(* the order of star patterns: an allocation and one that has stars for    *)
(* some of its indices are always in it.                                   *)
THEOREM Matches == Spec => []MatchesAreInstances
  <1>1. IInv => MatchesAreInstances
    BY InstancesAreMatched DEF IInv, MatchesInv, MatchesOrdered, MatchesAreInstances
  <1> QED
    BY IInvInit, IInvStep, <1>1, PTL DEF Spec

(* Aliases are definite: two of them are one allocation followed by zero   *)
(* indices and first fields only, so no star and no other index tells them *)
(* apart.                                                                  *)
THEOREM AliasesShareStart == Spec => [](\A p \in alloc_aliases : SameStart(p[1], p[2]))
  <1>1. IInv => \A p \in alloc_aliases : SameStart(p[1], p[2])
    BY DEF IInv, AliasesInv
  <1> QED
    BY IInvInit, IInvStep, <1>1, PTL DEF Spec

(* "This relation denotes *definite* (must) aliases"                       *)
(* (allocations-subobjects-aliases.dl): at whatever elements the stars of  *)
(* an allocation are taken, its aliases lie at the same address, for all   *)
(* types, layouts and orders of the rules.                                 *)
THEOREM Definite == Spec => []AliasesAreDefinite
  <1>1. ASSUME IInv, NEW p \in alloc_aliases
        PROVE  SymbolicAddress(p[1]) = SymbolicAddress(p[2])
    BY <1>1, SharedStart DEF IInv, AliasesInv
  <1>2. IInv => AliasesAreDefinite
    BY <1>1 DEF AliasesAreDefinite
  <1> QED
    BY IInvInit, IInvStep, <1>2, PTL DEF Spec

(* And none of the aliases that come from first elements and first fields  *)
(* is missing in the end: alloc_aliases is an equivalence with one class   *)
(* for every allocation that does not end in zero.                         *)
THEOREM AliasesAreComplete ==
  Spec => [](analysed => alloc_aliases = {p \in allocation \X allocation : SameStart(p[1], p[2])})
  <1>1. ASSUME IInv, analysed
        PROVE  alloc_aliases = {p \in allocation \X allocation : SameStart(p[1], p[2])}
    <2>1. alloc_aliases \subseteq allocation \X allocation /\ AliasPairs \subseteq alloc_aliases
      BY <1>1 DEF IInv, AliasesInv, Analysed
    <2>2. ASSUME NEW a \in allocation, NEW b \in allocation, SameStart(a, b)
          PROVE  <<a, b>> \in alloc_aliases
      BY <1>1, <2>1, <2>2, SharedStart DEF IInv
    <2> QED
      BY <1>1, <2>1, <2>2 DEF IInv, AliasesInv
  <1> QED
    BY IInvInit, IInvStep, <1>1, PTL DEF Spec

(* "Allocations with different regions aren't unified by 'unify'"          *)
(* (region.dl:1-2), whatever is chosen and in whatever order calls are     *)
(* found.                                                                  *)
THEOREM RegionsStaySeparate == Spec => []RegionsNotMerged
  <1>1. IInv => RegionsNotMerged
    BY DEF IInv
  <1> QED
    BY IInvInit, IInvStep, <1>1, PTL DEF Spec
=============================================================================
