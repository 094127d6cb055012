----------------------------- MODULE UnionFind -----------------------------
(***************************************************************************)
(* The union-find structure that the unification-based analysis emulates   *)
(* with a Souffle relation and a subsumption clause                        *)
(* (datalog/points-to/unification.dl, "[Unification]").                    *)
(*                                                                         *)
(* unify0 collects the pairs of allocations that the analysis wants to be  *)
(* equal and only grows.  unify holds (representative, element) pairs and  *)
(* is not monotone: a pair is deleted as soon as the same element has a    *)
(* smaller parent.  Souffle evaluates a stratum in rounds (derive from the *)
(* previous round, then subsume); a round is a sequence of the one-tuple   *)
(* steps below, so every evaluation order is a behaviour of this module.   *)
(***************************************************************************)
EXTENDS Naturals

CONSTANTS
  Contexts,      \* the Context records, named by their ord()
  Allocations,   \* the Allocation symbols, named by their ord()
  UnifyFacts     \* the unify0 facts that the rest of the analysis may derive

ASSUME OrdAssumption ==
  /\ Contexts \subseteq Nat
  /\ Allocations \subseteq Nat

AllocWithContext == Contexts \X Allocations

ASSUME UnifyFactsAssumption ==
  UnifyFacts \subseteq AllocWithContext \X AllocWithContext

VARIABLES
  alloc_with_ctx,  \* the allocations reached so far, with their contexts
  unify0,          \* pairs to be unified
  unify            \* <<representative, element>>

vars == <<alloc_with_ctx, unify0, unify>>

TypeOK ==
  /\ alloc_with_ctx \subseteq AllocWithContext
  /\ unify0 \subseteq UnifyFacts
  /\ unify \subseteq AllocWithContext \X AllocWithContext

-----------------------------------------------------------------------------
(* Definitions named with "Slip" are not part of the model: each is a        *)
(* plausible mistake in the definition that follows it.                     *)
LexOrderSlip(x, y) ==
  \/ x[1] < y[1]
  \/ x[1] = y[1] /\ x[2] <= y[2]

(* LEX_ORDER(xCtx, x, yCtx, y) *)
LexOrder(x, y) ==
  \/ x[1] < y[1]
  \/ x[1] = y[1] /\ x[2] < y[2]

(* The left-hand side of the subsumption clause: element t[2] also has a    *)
(* parent that comes before t[1].                                           *)
Dominated(t) ==
  \E u \in unify : u[2] = t[2] /\ LexOrder(u[1], t[1])

(* Souffle discards a derived tuple that is known or already subsumed. *)
Derive(t) ==
  /\ t \notin unify
  /\ ~ Dominated(t)
  /\ unify' = unify \cup {t}
  /\ UNCHANGED <<alloc_with_ctx, unify0>>

-----------------------------------------------------------------------------
Init ==
  /\ alloc_with_ctx = {}
  /\ unify0 = {}
  /\ unify = {}

(* Facts that arrive from the other rules of the analysis, in any order and *)
(* between any two steps of the union-find rules.                           *)
NewAllocation(e) ==
  /\ e \notin alloc_with_ctx
  /\ alloc_with_ctx' = alloc_with_ctx \cup {e}
  /\ UNCHANGED <<unify0, unify>>

NewUnify0(p) ==
  /\ p \notin unify0
  /\ unify0' = unify0 \cup {p}
  /\ UNCHANGED <<alloc_with_ctx, unify>>

(* "reflexivity" facts for every allocation *)
Reflexivity(e) ==
  /\ e \in alloc_with_ctx
  /\ Derive(<<e, e>>)

TransitivitySlip(t, u) ==
  /\ t[2] = u[2]
  /\ Derive(<<t[1], u[2]>>)

Transitivity(t, u) ==
  /\ t[2] = u[1]
  /\ Derive(<<t[1], u[2]>>)

OrderedParentsUnjoinedSlip(p, t, u) ==
  /\ t[2] = p[1] \/ t[2] = p[2]
  /\ LexOrder(t[1], u[1])

OrderedParentsOneWaySlip(p, t, u) ==
  /\ t[2] = p[1] /\ u[2] = p[2]
  /\ LexOrder(t[1], u[1])

(* "we can only unify existing representatives": t and u give parents of    *)
(* the two ends of a unify0 fact, taken in either direction, and the parent *)
(* that comes first becomes the parent of the other.                        *)
OrderedParents(p, t, u) ==
  /\ \/ t[2] = p[1] /\ u[2] = p[2]
     \/ t[2] = p[2] /\ u[2] = p[1]
  /\ LexOrder(t[1], u[1])

UnifyRepresentatives(p, t, u) ==
  /\ OrderedParents(p, t, u)
  /\ Derive(<<t[1], u[1]>>)

ParentHopSlip(t) ==
  /\ \E u \in unify : u[2] = t[2] /\ LexOrder(t[1], u[1])
  /\ unify' = unify \ {t}
  /\ UNCHANGED <<alloc_with_ctx, unify0>>

(* Parent-hopping: delete a subsumed tuple. *)
ParentHop(t) ==
  /\ Dominated(t)
  /\ unify' = unify \ {t}
  /\ UNCHANGED <<alloc_with_ctx, unify0>>

Rules ==
  \/ \E e \in alloc_with_ctx : Reflexivity(e)
  \/ \E t, u \in unify : Transitivity(t, u)
  \/ \E p \in unify0, t, u \in unify : UnifyRepresentatives(p, t, u)
  \/ \E t \in unify : ParentHop(t)

Facts ==
  \/ \E e \in AllocWithContext : NewAllocation(e)
  \/ \E p \in UnifyFacts : NewUnify0(p)

Next == Rules \/ Facts

Spec == Init /\ [][Next]_vars

(* Souffle leaves a stratum only when no rule adds or removes a tuple. *)
FairSpec == Spec /\ WF_vars(Rules)

-----------------------------------------------------------------------------
(* The end of the stratum: every derivable tuple is present or subsumed, and *)
(* no subsumed tuple is left.                                                *)
Absorbed(t) == t \in unify \/ Dominated(t)

Fixpoint ==
  /\ \A e \in alloc_with_ctx : Absorbed(<<e, e>>)
  /\ \A t, u \in unify : t[2] = u[1] => Absorbed(<<t[1], u[2]>>)
  /\ \A p \in unify0, t, u \in unify :
       OrderedParents(p, t, u) => Absorbed(<<t[1], u[1]>>)
  /\ \A t \in unify : ~ Dominated(t)

is_reprSlip(r) ==
  /\ \E e \in AllocWithContext : <<r, e>> \in unify
  /\ \A s \in AllocWithContext : <<r, s>> \in unify => s = r

(* is_repr and unify_repr read the final unify (the aggregates put them in a *)
(* later stratum).                                                           *)
is_repr(r) ==
  /\ \E e \in AllocWithContext : <<r, e>> \in unify
  /\ \A s \in AllocWithContext : <<s, r>> \in unify => s = r

unify_repr(e, r) == is_repr(r) /\ <<r, e>> \in unify

-----------------------------------------------------------------------------
(* The reference: x and y are in one class iff no set that respects every   *)
(* unify0 fact separates them, i.e. they are related by the reflexive,      *)
(* symmetric and transitive closure of unify0.                              *)
Respects(S) == \A p \in unify0 : p[1] \in S <=> p[2] \in S

SameClass(x, y) ==
  \A S \in SUBSET AllocWithContext : Respects(S) => (x \in S <=> y \in S)

(* assert_alloc_with_ctx_complete, for the facts of unify0. *)
Complete == \A p \in unify0 : p[1] \in alloc_with_ctx /\ p[2] \in alloc_with_ctx

(* No two allocations are merged unless the closure of unify0 merges them,  *)
(* and a parent never comes after its child: in every intermediate state,   *)
(* including those where stale tuples are waiting to be subsumed.           *)
ParentsAreSound ==
  \A t \in unify : SameClass(t[1], t[2]) /\ ~ LexOrder(t[2], t[1])

(* Deleting tuples never orphans an element: whatever is in unify has been  *)
(* reached (assert_alloc_with_ctx_complete), and a parent has a parent of   *)
(* its own to be looked up by the next unify0 fact.                         *)
NothingOrphaned ==
  \A t \in unify :
    /\ t[1] \in alloc_with_ctx /\ t[2] \in alloc_with_ctx
    /\ \E u \in unify : u[2] = t[1]

(* assert_has_repr: when the rules have settled, the parent of an element   *)
(* is its own only parent, so the join with is_repr drops no points-to fact. *)
RepresentativesExist ==
  Fixpoint => \A e \in alloc_with_ctx : \E r \in alloc_with_ctx : unify_repr(e, r)

(* assert_unique_repr, and what it is for: when the rules have settled, two *)
(* allocations have the same representative exactly if they are in one      *)
(* class, and it is the first of the class.                                 *)
RepresentativesAreClasses ==
  Fixpoint /\ Complete =>
    \A x, y \in alloc_with_ctx : \A r, s \in AllocWithContext :
      unify_repr(x, r) /\ unify_repr(y, s) =>
        /\ SameClass(x, y) <=> r = s
        /\ SameClass(x, y) => ~ LexOrder(y, r)

(* An element's first parent only ever moves down the order: the union-find *)
(* forest never grows taller, which is also why the evaluation terminates.  *)
ParentsOnlyDescend ==
  [][\A t \in unify : \E u \in unify' : u[2] = t[2] /\ ~ LexOrder(t[1], u[1])]_vars

(* Whatever the order in which facts arrive, the rules settle again. *)
Settles == []<>Fixpoint
=============================================================================
