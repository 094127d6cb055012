----------------------------- MODULE Addresses -----------------------------
(***************************************************************************)
(* What subregions stand for.  The analysis runs until its rules add       *)
(* nothing; then the program runs, on objects that are ranges of bytes,    *)
(* with pointers that are an object and an offset.  It executes its        *)
(* instructions in any order and number, and an index that is not a        *)
(* constant takes any value that stays within its array and its object.    *)
(*                                                                         *)
(* Like module Execution this is the meaning of the instructions, not code *)
(* of the repository.  roots[r].bytes is the size of the object at run     *)
(* time.                                                                   *)
(***************************************************************************)
EXTENDS Unification

CONSTANT MaxIndex       \* bound on the value of a variable first index

VARIABLES
  analysed,   \* the rules have been applied until none adds a tuple
  env,        \* variable -> address, for those that have one
  memory      \* address -> address, for the cells that were written

machine == <<env, memory>>
vars == <<subset, unification, analysed, env, memory>>

Address(root, offset) == [root |-> root, offset |-> offset]

-----------------------------------------------------------------------------
(* The bytes that index n of g, counted from zero, may add.                *)
Steps(g, n) ==
  LET i == g.indices[n + 1]
      type == IF n = 0 THEN g.type ELSE IntermType(g, n)
  IN IF IsStruct(type) THEN {Offset[type][i.n + 1]}
     ELSE {k * Size[Component(type)] :
             k \in IF i.known THEN {i.n}
                   ELSE IF n = 0 THEN -MaxIndex .. MaxIndex
                   ELSE 0 .. Length[type] - 1}

Sums(ds, es) == {d + e : d \in ds, e \in es}

Displacements(g) ==
  LET upto[n \in 0 .. Len(g.indices) - 1] ==
        IF n = 0 THEN Steps(g, 0) ELSE Sums(upto[n - 1], Steps(g, n))
  IN upto[Len(g.indices) - 1]

Reached(g, from) ==
  {a \in {Address(from.root, from.offset + d) : d \in Displacements(g)} :
     a.offset >= 0 /\ a.offset < program.roots[a.root].bytes}

Assign(v, address) ==
  /\ env' = (v :> address) @@ env
  /\ UNCHANGED <<subset, unification, analysed, memory>>

PointerSize == Size[CHOOSE t \in Type : IsPointer(t)]

Plus(address, n) == Address(address.root, address.offset + n)

(* Any number of pointers that both objects have from there on.            *)
CopySizes(copy) ==
  LET rest(address) == program.roots[address.root].bytes - address.offset
  IN {n \in IF copy.size.known THEN {copy.size.n} ELSE {k * PointerSize : k \in 1 .. MaxIndex} :
        n <= rest(env[copy.to]) /\ n <= rest(env[copy.from])}

(* A pointer is copied if it lies in the n bytes.                          *)
Copy(to, from, n) ==
  LET places == {d \in 0 .. n - PointerSize : Plus(from, d) \in DOMAIN memory}
      written == {Plus(to, d) : d \in 1 - PointerSize .. n - 1}
      moved == [a \in {Plus(to, d) : d \in places} |->
                  memory[Plus(from, a.offset - to.offset)]]
  IN /\ ~program.roots[to.root].constant
     /\ memory' = moved @@ [a \in DOMAIN memory \ written |-> memory[a]]
     /\ UNCHANGED <<subset, unification, analysed, env>>

Execute ==
  \/ \E v \in DOMAIN program.geps :
       /\ program.geps[v].base \in DOMAIN env
       /\ \E to \in Reached(program.geps[v], env[program.geps[v].base]) : Assign(v, to)
  \/ \E i \in program.assigns : i.value \in DOMAIN env /\ Assign(i.to, env[i.value])
  \/ \E i \in program.loads :
       /\ i.address \in DOMAIN env
       /\ env[i.address] \in DOMAIN memory
       /\ Assign(i.to, memory[env[i.address]])
  \/ \E i \in program.stores :
       /\ {i.address, i.value} \subseteq DOMAIN env
       /\ ~program.roots[env[i.address].root].constant
       /\ memory' = (env[i.address] :> env[i.value]) @@ memory
       /\ UNCHANGED <<subset, unification, analysed, env>>
  \/ \E i \in program.copies :
       /\ {i.to, i.from} \subseteq DOMAIN env
       /\ \E n \in CopySizes(i) : Copy(env[i.to], env[i.from], n)

-----------------------------------------------------------------------------
Init ==
  /\ SubsetInit
  /\ UnificationInit
  /\ analysed = FALSE
  /\ env = [v \in {p[2] : p \in program.points_to} |->
              Address((CHOOSE p \in program.points_to : p[2] = v)[1][1], 0)]
  /\ memory = <<>>

Finish ==
  /\ analysed' = TRUE
  /\ UNCHANGED <<subset, unification, machine>>

(* The subset analysis alone is run on programs that pass nothing.          *)
Unifying == program.passes # {} /\ ~Settled

(* The rules of the subset analysis add nothing.                           *)
Fixpoint ==
  /\ DOMAIN TypedSubregions = allocation
  /\ FixedSizes \cup LastFieldSizes \subseteq allocation_size
  /\ DynamicLastFields \subseteq dynamically_sized_alloc
  /\ AliasPairs \subseteq alloc_aliases
  /\ MatchPairs \subseteq alloc_matches
  /\ GepFacts \subseteq gep_points_to
  /\ gep_var_points_to \cup AssignFacts \cup LoadFacts \subseteq var_points_to
  /\ StoreFacts \cup AliasBaseFacts \cup AliasTargetFacts \cup MatchFacts \cup CopiedFacts
        \subseteq ptr_points_to
  /\ CopyPairs \subseteq rec_memcpy

Next ==
  \/ ~analysed /\ Unifying /\ Round /\ UNCHANGED <<analysed, machine>>
  \/ /\ ~analysed /\ ~Unifying
     /\ \/ AnalyseSubset /\ UNCHANGED <<unification, analysed, machine>>
        \/ Fixpoint /\ Finish
  \/ analysed /\ Execute

Spec == Init /\ [][Next]_vars

-----------------------------------------------------------------------------
(* The offsets in its root that allocation a stands for: a star stands for *)
(* every element.                                                          *)
StepsOf(a, k) ==
  LET part == SubSeq(a, 1, k)
      base == SubSeq(a, 1, k - 1)
  IN IF a[k].at = "any"
     THEN LET count == IF k > 2 THEN Length[allocation_type[base]]
                       ELSE Root(a).bytes \div Size[allocation_type[part]]
          IN {i * Size[allocation_type[part]] : i \in 0 .. count - 1}
     ELSE {OffsetInBase(part)}

OffsetsOf(a) ==
  LET upto[k \in 1 .. Len(a)] ==
        IF k = 1 THEN {0} ELSE Sums(upto[k - 1], StepsOf(a, k))
  IN upto[Len(a)]

StandsFor(a, address) == a[1] = address.root /\ address.offset \in OffsetsOf(a)

(* No pointer of any execution is missed: whatever address a variable gets *)
(* by address arithmetic, or out of memory that was written through        *)
(* another pointer, one of the allocations it points to in the analysis    *)
(* stands for that address.                                                *)
PointersCovered ==
  analysed => \A v \in DOMAIN env : \E a \in operand_points_to(v) : StandsFor(a, env[v])

(* Two aliases lie at one address, whichever elements their stars stand    *)
(* for: "this relation denotes *definite* (must) aliases".                 *)
SymbolicAddress(a) ==
  LET upto[k \in 1 .. Len(a)] ==
        LET part == SubSeq(a, 1, k)
        IN IF k = 1 THEN [root |-> a[1], offset |-> 0, strides |-> <<>>]
           ELSE IF a[k].at = "any"
           THEN [upto[k - 1] EXCEPT !.strides = Append(@, Size[allocation_type[part]])]
           ELSE IF HasOffset(part)
           THEN [upto[k - 1] EXCEPT !.offset = @ + OffsetInBase(part)]
           ELSE upto[k - 1]
  IN upto[Len(a)]

AliasesAreDefinite == \A p \in alloc_aliases : SymbolicAddress(p[1]) = SymbolicAddress(p[2])

(* "The subset-based analysis is more precise than the unification-based   *)
(* analysis" (assertions.dl:282): whichever facts were chosen on the way,  *)
(* what the subset analysis finds is unified with what this one has.  The  *)
(* repository has the assertion, but commented out.                        *)
CoversSubset ==
  analysed /\ program.passes # {} =>
    \A p \in var_points_to : <<unify_repr(p[1]), p[2]>> \in var_points_to_final

(* assert_subset_var_points_to_inhabited_implies_unification: a variable   *)
(* "should only have an inhabited points-to set in the subset analysis if  *)
(* it *also* has one in the unification analysis" (assertions.dl:293).     *)
SubsetImpliesUnification ==
  analysed /\ program.passes # {} =>
    \A p \in var_points_to : \E f \in var_points_to_final : f[2] = p[2]

(* "allocations with different regions aren't unified" (region.dl:2); a    *)
(* function is a region, so that a call of one never becomes a call of     *)
(* another.                                                                *)
RegionsNotMerged == \A p \in unify0 : alloc_region(p[1]) = alloc_region(p[2])

(* b is a with stars for some of the indices.                              *)
IsInstance(a, b) ==
  /\ a # b /\ Len(a) = Len(b)
  /\ \A k \in 1 .. Len(a) : a[k] = b[k] \/ (k > 1 /\ a[k].at = "index" /\ b[k] = AnyIndex)

(* The left-hand side of alloc_matches is never as generic as the right.   *)
MatchesOrdered == \A p \in alloc_matches : IsInstance(p[1], p[2])

(* alloc_matches is the order of star patterns: nothing else is in it, and *)
(* in the end nothing is missing.                                          *)
MatchesAreInstances ==
  /\ MatchesOrdered
  /\ analysed => \A a, b \in allocation : IsInstance(a, b) => <<a, b>> \in alloc_matches

(* assert_size_less_than_parent and assert_size_sum_less_than_parent: what *)
(* lies in an allocation fits into it.                                     *)
SizesWithinParent ==
  \A s \in allocation_size :
    LET parts == {t \in allocation_size :
                    /\ Len(t[1]) = Len(s[1]) + 1 /\ IsPrefix(s[1], t[1])
                    /\ HasOffset(t[1]) /\ OffsetInBase(t[1]) < s[2]}
    IN FoldSet(LAMBDA t, total : t[2] + total, 0, parts) <= s[2]
=============================================================================
