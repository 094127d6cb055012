---------------------------- MODULE Unification ----------------------------
(***************************************************************************)
(* The unification-based analysis (datalog/points-to/unification.dl): a    *)
(* variable, or a cell of memory, keeps one points-to fact per region,     *)
(* type and kind of subregion, and whatever else it may point to is        *)
(* unified with that one.                                                  *)
(*                                                                         *)
(* The rules for subregions, indices, stores, copies and aliases are those *)
(* of the subset analysis over relations of this one; allocations and      *)
(* their sizes belong to both (debug.project).  All rules of the stratum   *)
(* are applied in rounds, the ones for subobjects included; the subset     *)
(* analysis does not feed back, and is run when the rounds add nothing.    *)
(* Which of the facts that arrive in a round is chosen is left open, as    *)
(* choice-domain does.  unify is taken for what the rules of module        *)
(* UnionFind compute: the classes of unify0, with their first element for  *)
(* representative.                                                         *)
(*                                                                         *)
(* A program has passes as well: those of its assignments that pass        *)
(* arguments or results.  They take part from the round on in which their  *)
(* call is found, which may be any.  A root has a region as well.          *)
(***************************************************************************)
EXTENDS Memcpy, FiniteSetsExt

VARIABLES
  called,                       \* the passes of calls that were found
  ord,                          \* the roots that hold data, by when they got their names
  unification_gep_points_to,    \* as in the subset analysis
  unification_var_points_to,
  unification_ptr_points_to,
  unification_rec_memcpy,
  unify_var, unify_ptr,         \* <<alloc, var>>, <<alloc, baseAlloc>>
  var_points_to_choice,
  ptr_points_to_choice,
  unify0                        \* <<alloc1, alloc2>>

unification ==
  <<called, ord, unification_gep_points_to, unification_var_points_to, unification_ptr_points_to,
    unification_rec_memcpy, unify_var, unify_ptr, var_points_to_choice, ptr_points_to_choice, unify0>>

U == INSTANCE Memcpy WITH
       gep_points_to <- unification_gep_points_to,
       var_points_to <- unification_var_points_to,
       ptr_points_to <- unification_ptr_points_to,
       rec_memcpy <- unification_rec_memcpy

-----------------------------------------------------------------------------
(* What must agree for allocations to be unified at a variable or cell.    *)

alloc_region(a) == Root(a).region

(* An element at a known index is a kind of its own.                       *)
_gep_alloc_info(a) ==
  IF basic_allocation(a) THEN <<"basic">>
  ELSE IF Last(a).at = "field" THEN <<"struct">>
  ELSE IF Last(a).at = "any" THEN <<"any">>
  ELSE a

(* The region is left out.                                                 *)
_unify_allocation_infoSlip(a) == <<allocation_type[a], _gep_alloc_info(a)>>

_unify_allocation_info(a) == <<alloc_region(a), allocation_type[a], _gep_alloc_info(a)>>

-----------------------------------------------------------------------------
(* Classes of unify0.                                                      *)

(* unify, from either end: the allocations that share a with a parent.     *)
ClassOf(a) ==
  LET grown[near \in SUBSET allocation] ==
        LET more == near \cup UNION {{p[1], p[2]} : p \in {p \in unify0 : p[1] \in near \/ p[2] \in near}}
        IN IF more = near THEN near ELSE grown[more]
  IN grown[{a}]

(* The parts of an allocation get their names after it.                    *)
Precedes(a, b) ==
  \/ Len(a) < Len(b)
  \/ Len(a) = Len(b) /\ \E i, j \in DOMAIN ord : i < j /\ ord[i] = a[1] /\ ord[j] = b[1]

Representative(class) == CHOOSE a \in class : \A b \in class : ~Precedes(b, a)

Unified == {p[1] : p \in unify0} \cup {p[2] : p \in unify0}

(* <<representative, element>>                                             *)
unify == {<<Representative(ClassOf(a)), a>> : a \in Unified}

(* alloc_subregion_at_path: from a root to all it contains, from a part to *)
(* itself and to its own parts.                                            *)
At(a) ==
  {b \in allocation : IsPrefix(a, b) /\ (basic_allocation(a) \/ Len(b) <= Len(a) + 1)}

PathTo(a, b) == SubSeq(b, Len(a) + 1, Len(b))

SamePaths(a, b) == {p \in At(a) \X At(b) : PathTo(a, p[1]) = PathTo(b, p[2])}

(* The key that the choice is for.                                         *)
SameKey(f, g) ==
  /\ f[2] = g[2]
  /\ _unify_allocation_info(f[1]) = _unify_allocation_info(g[1])

unify_var_expanded == {f \in unify_var : f[1] \in allocation}
unify_ptr_expanded == {f \in unify_ptr : f[1] \in allocation}

PairsAt(choice, facts) ==
  UNION {SamePaths(p[1][1], p[2][1]) : p \in {p \in choice \X facts : SameKey(p[1], p[2])}}

MustAliasPairs == UNION {SamePaths(p[2], p[1]) : p \in alloc_aliases}

Unify0Facts ==
  PairsAt(var_points_to_choice, unify_var_expanded)
  \cup PairsAt(ptr_points_to_choice, unify_ptr_expanded)
  \cup MustAliasPairs

-----------------------------------------------------------------------------
(* Assignments within a function are not unified.                          *)
DirectFacts ==
  UNION {{<<a, i.to>> : a \in U!operand_points_to(i.value)} : i \in program.assigns \ program.passes}

PassedFacts ==
  UNION {{<<a, i.to>> : a \in U!operand_points_to(i.value)} : i \in called}

(* Of the allocation that was chosen alone.                                *)
UnifiedLoadFactsSlip ==
  UNION {UNION {{<<b, i.to>> : b \in U!LoadedFrom(a)} : a \in U!operand_points_to(i.address)}
         : i \in program.loads}

(* Of everything that is unified with the allocation loaded from.          *)
UnifiedLoadFacts ==
  UNION {UNION {{<<b, i.to>> : b \in UNION {U!LoadedFrom(m) : m \in ClassOf(a)}}
                : a \in U!operand_points_to(i.address)} : i \in program.loads}

Undecided(f, choice) == \A g \in choice : ~SameKey(f, g)

(* The ways to choose one of the facts for each of the keys that have none. *)
ChoicesFrom(facts, choice) ==
  LET open == {f \in facts : Undecided(f, choice)}
  IN {s \in SUBSET open : \A f \in open : Cardinality({g \in s : SameKey(f, g)}) = 1}

(* Between a representative and its elements, not beyond.                  *)
UnifiedSizes ==
  UNION {{<<p[1], s[2]>> : s \in {s \in allocation_size : s[1] = p[2]}}
         \cup {<<p[2], s[2]>> : s \in {s \in allocation_size : s[1] = p[1]}} : p \in unify}

UnifiedDynamic ==
  {p[1] : p \in {p \in unify : p[2] \in dynamically_sized_alloc}}
  \cup {p[2] : p \in {p \in unify : p[1] \in dynamically_sized_alloc}}

VarFacts == U!gep_var_points_to \cup PassedFacts \cup UnifiedLoadFacts
PtrFacts == U!StoreFacts \cup U!AliasBaseFacts \cup U!AliasTargetFacts \cup U!MatchFacts
            \cup U!CopiedFacts

Round ==
  /\ \E more \in SUBSET (program.passes \ called) : called' = called \cup more
  /\ allocation_type' = TypedSubregions
  /\ allocation_size' = allocation_size \cup FixedSizes \cup LastFieldSizes
  /\ unify_allocation_size' = unify_allocation_size \cup UnifiedSizes
  /\ dynamically_sized_alloc' = dynamically_sized_alloc \cup DynamicLastFields \cup UnifiedDynamic
  /\ alloc_aliases' = alloc_aliases \cup AliasPairs
  /\ alloc_matches' = alloc_matches \cup MatchPairs
  /\ unification_gep_points_to' = unification_gep_points_to \cup U!GepFacts
  /\ unification_rec_memcpy' = unification_rec_memcpy \cup U!CopyPairs
  /\ unify_var' = unify_var \cup VarFacts
  /\ unify_ptr' = unify_ptr \cup PtrFacts
  /\ \E chosen \in ChoicesFrom(unify_var_expanded, var_points_to_choice) :
       /\ var_points_to_choice' = var_points_to_choice \cup chosen
       /\ unification_var_points_to' = unification_var_points_to \cup DirectFacts \cup chosen
  /\ \E chosen \in ChoicesFrom(unify_ptr_expanded, ptr_points_to_choice) :
       /\ ptr_points_to_choice' = ptr_points_to_choice \cup chosen
       /\ unification_ptr_points_to' = unification_ptr_points_to \cup chosen
  /\ unify0' = unify0 \cup Unify0Facts
  /\ UNCHANGED <<program, pointer_index, array_indices, ord, gep_points_to, var_points_to,
                 ptr_points_to, rec_memcpy>>

(* The rounds add nothing.                                                 *)
Settled ==
  /\ called = program.passes
  /\ DOMAIN TypedSubregions = allocation
  /\ FixedSizes \cup LastFieldSizes \subseteq allocation_size
  /\ UnifiedSizes \subseteq unify_allocation_size
  /\ DynamicLastFields \cup UnifiedDynamic \subseteq dynamically_sized_alloc
  /\ AliasPairs \subseteq alloc_aliases
  /\ MatchPairs \subseteq alloc_matches
  /\ U!GepFacts \subseteq unification_gep_points_to
  /\ U!CopyPairs \subseteq unification_rec_memcpy
  /\ DirectFacts \subseteq unification_var_points_to
  /\ VarFacts \subseteq unify_var
  /\ PtrFacts \subseteq unify_ptr
  /\ Unify0Facts \subseteq unify0
  /\ \A f \in unify_var_expanded : ~Undecided(f, var_points_to_choice)
  /\ \A f \in unify_ptr_expanded : ~Undecided(f, ptr_points_to_choice)

UnificationInit ==
  /\ called = {}
  /\ ord \in IF program.passes = {} THEN {<<>>}
             ELSE SetToSeqs({r \in DOMAIN program.roots : ~program.roots[r].code})
  /\ unification_gep_points_to = {}
  /\ unification_var_points_to = program.points_to
  /\ unification_ptr_points_to = {}
  /\ unification_rec_memcpy = {}
  /\ unify_var = {} /\ unify_ptr = {}
  /\ var_points_to_choice = {} /\ ptr_points_to_choice = {}
  /\ unify0 = {}

-----------------------------------------------------------------------------
(* Facts about representatives.                                            *)
unify_repr(a) == Representative(ClassOf(a))

var_points_to_final == {<<unify_repr(p[1]), p[2]>> : p \in unification_var_points_to}
=============================================================================
