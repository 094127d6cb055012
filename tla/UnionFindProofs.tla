-------------------------- MODULE UnionFindProofs --------------------------
(***************************************************************************)
(* What holds of the union-find rules for every set of contexts,           *)
(* allocations and unify0 facts.                                           *)
(***************************************************************************)
EXTENDS UnionFind, TLAPS

(* The ord() of both halves of an allocation with context is a number. *)
LEMMA OrdsAreNumbers ==
  ASSUME NEW x \in AllocWithContext
  PROVE  x[1] \in Nat /\ x[2] \in Nat /\ x = <<x[1], x[2]>>
<1>1. PICK c \in Contexts, a \in Allocations : x = <<c, a>>
  BY DEF AllocWithContext
<1>2. x[1] = c /\ x[2] = a
  BY <1>1
<1>3. c \in Nat /\ a \in Nat
  BY OrdAssumption
<1>4. QED
  BY <1>1, <1>2, <1>3

(* LEX_ORDER is a strict total order on (context, allocation) pairs, so the *)
(* subsumption clause can never delete both of two tuples in favour of each *)
(* other.                                                                   *)
LEMMA LexOrderTotal ==
  ASSUME NEW x \in AllocWithContext, NEW y \in AllocWithContext
  PROVE  /\ ~ LexOrder(x, x)
         /\ LexOrder(x, y) => ~ LexOrder(y, x)
         /\ x = y \/ LexOrder(x, y) \/ LexOrder(y, x)
<1>1. x[1] \in Nat /\ x[2] \in Nat /\ y[1] \in Nat /\ y[2] \in Nat
  BY OrdsAreNumbers
<1>2. x[1] = y[1] /\ x[2] = y[2] => x = y
  BY OrdsAreNumbers, Zenon
<1>3. QED
  BY <1>1, <1>2 DEF LexOrder

(* The order of ord() pairs is transitive, and so is its complement. *)
LEMMA LexOrderTransitive ==
  ASSUME NEW x \in AllocWithContext, NEW y \in AllocWithContext,
         NEW z \in AllocWithContext
  PROVE  /\ LexOrder(x, y) /\ LexOrder(y, z) => LexOrder(x, z)
         /\ ~ LexOrder(y, x) /\ ~ LexOrder(z, y) => ~ LexOrder(z, x)
<1>1. /\ x[1] \in Nat /\ x[2] \in Nat /\ y[1] \in Nat /\ y[2] \in Nat
      /\ z[1] \in Nat /\ z[2] \in Nat
  BY OrdsAreNumbers
<1>2. QED
  BY <1>1 DEF LexOrder

(* Being in one class is an equivalence that contains unify0. *)
LEMMA SameClassEquivalence ==
  ASSUME NEW x \in AllocWithContext, NEW y \in AllocWithContext,
         NEW z \in AllocWithContext
  PROVE  /\ SameClass(x, x)
         /\ SameClass(x, y) => SameClass(y, x)
         /\ SameClass(x, y) /\ SameClass(y, z) => SameClass(x, z)
         /\ <<x, y>> \in unify0 => SameClass(x, y)
  BY DEF SameClass, Respects

(* Being in the same class is passed along.                                *)
LEMMA SameClassTransitive ==
  \A x, y, z \in AllocWithContext :
    SameClass(x, y) /\ SameClass(y, z) => SameClass(x, z)
BY SameClassEquivalence

(* Classes only grow as unify0 grows. *)
LEMMA SameClassMonotone ==
  ASSUME NEW x, NEW y, SameClass(x, y), unify0 \subseteq unify0'
  PROVE  SameClass(x, y)'
  BY DEF SameClass, Respects

-----------------------------------------------------------------------------
(* Type correctness of the three relations. *)
THEOREM TypeCorrect == Spec => []TypeOK
<1>1. Init => TypeOK
  BY DEF Init, TypeOK
<1>2. TypeOK /\ [Next]_vars => TypeOK'
  <2> SUFFICES ASSUME TypeOK, [Next]_vars
               PROVE  TypeOK'
    OBVIOUS
  <2> USE DEF TypeOK
  <2>1. CASE \E e \in AllocWithContext : NewAllocation(e)
    BY <2>1 DEF NewAllocation
  <2>2. CASE \E p \in UnifyFacts : NewUnify0(p)
    BY <2>2 DEF NewUnify0
  <2>3. CASE \E e \in alloc_with_ctx : Reflexivity(e)
    BY <2>3 DEF Reflexivity, Derive
  <2>4. CASE \E t, u \in unify : Transitivity(t, u)
    BY <2>4 DEF Transitivity, Derive
  <2>5. CASE \E p \in unify0, t, u \in unify : UnifyRepresentatives(p, t, u)
    BY <2>5 DEF UnifyRepresentatives, Derive
  <2>6. CASE \E t \in unify : ParentHop(t)
    BY <2>6 DEF ParentHop
  <2>7. CASE UNCHANGED vars
    BY <2>7 DEF vars
  <2>8. QED
    BY <2>1, <2>2, <2>3, <2>4, <2>5, <2>6, <2>7 DEF Next, Rules, Facts
<1>3. QED
  BY <1>1, <1>2, PTL DEF Spec

-----------------------------------------------------------------------------
(* A tuple of unify is a pair of allocations with contexts. *)
LEMMA TupleForm ==
  ASSUME TypeOK, NEW t \in unify
  PROVE  /\ t[1] \in AllocWithContext
         /\ t[2] \in AllocWithContext
         /\ t = <<t[1], t[2]>>
<1>1. PICK x \in AllocWithContext, y \in AllocWithContext : t = <<x, y>>
  BY DEF TypeOK
<1>2. QED
  BY <1>1

(* Every step but ParentHop keeps all of unify, and ParentHop deletes a     *)
(* tuple only in favour of another one for the same element.                *)
LEMMA DeletionLeavesAParent ==
  ASSUME TypeOK, NEW t \in unify, ParentHop(t), NEW e,
         \E u \in unify : u[2] = e
  PROVE  \E u \in unify' : u[2] = e
<1>1. PICK u \in unify : u[2] = t[2] /\ LexOrder(u[1], t[1])
  BY DEF ParentHop, Dominated
<1>2. u # t
  BY <1>1, TupleForm, LexOrderTotal
<1>3. u \in unify'
  BY <1>2 DEF ParentHop
<1>4. QED
  BY <1>1, <1>3 DEF ParentHop

(* The inductive invariant.  Soundness needs that a parent is a reached      *)
(* allocation and has a parent, which NothingOrphaned says.                  *)
IInv ==
  /\ TypeOK
  /\ ParentsAreSound
  /\ NothingOrphaned

(* A derived tuple keeps the invariant if it joins two reached members of a *)
(* class in order and its parent is known to unify.                         *)
LEMMA DerivePreserves ==
  ASSUME IInv, NEW r \in alloc_with_ctx, NEW e \in alloc_with_ctx,
         Derive(<<r, e>>), SameClass(r, e), ~ LexOrder(e, r),
         r = e \/ \E u \in unify : u[2] = r
  PROVE  IInv'
<1>1. /\ unify' = unify \cup {<<r, e>>}
      /\ UNCHANGED <<alloc_with_ctx, unify0>>
  BY DEF Derive
<1>2. TypeOK'
  BY <1>1 DEF IInv, TypeOK
<1>3. ParentsAreSound'
  <2> SUFFICES ASSUME NEW t \in unify'
               PROVE  SameClass(t[1], t[2])' /\ ~ LexOrder(t[2], t[1])
    BY DEF ParentsAreSound
  <2>1. SameClass(t[1], t[2]) /\ ~ LexOrder(t[2], t[1])
    BY <1>1 DEF IInv, ParentsAreSound
  <2>2. QED
    BY <1>1, <2>1, SameClassMonotone
<1>4. NothingOrphaned'
  BY <1>1 DEF IInv, NothingOrphaned
<1>5. QED
  BY <1>2, <1>3, <1>4 DEF IInv

(* The union-find rules keep the invariant, in whatever order they fire. *)
LEMMA RulesPreserve ==
  ASSUME IInv, Rules
  PROVE  IInv'
<1>1. CASE \E e \in alloc_with_ctx : Reflexivity(e)
  <2>1. PICK e \in alloc_with_ctx : Derive(<<e, e>>)
    BY <1>1 DEF Reflexivity
  <2>2. e \in AllocWithContext
    BY DEF IInv, TypeOK
  <2>3. SameClass(e, e) /\ ~ LexOrder(e, e)
    BY <2>2, SameClassEquivalence, LexOrderTotal
  <2>4. QED
    BY <2>1, <2>3, DerivePreserves
<1>2. CASE \E t, u \in unify : Transitivity(t, u)
  <2>1. PICK t \in unify, u \in unify : t[2] = u[1] /\ Derive(<<t[1], u[2]>>)
    BY <1>2 DEF Transitivity
  <2>2. t[1] \in AllocWithContext /\ t[2] \in AllocWithContext /\ u[2] \in AllocWithContext
    BY TupleForm DEF IInv
  <2>3. SameClass(t[1], u[2])
    BY <2>1, <2>2, SameClassTransitive DEF IInv, ParentsAreSound
  <2>4. ~ LexOrder(u[2], t[1])
    <3>1. ~ LexOrder(u[2], t[2]) /\ ~ LexOrder(t[2], t[1])
      BY <2>1 DEF IInv, ParentsAreSound
    <3>2. QED
      BY <2>2, <3>1, LexOrderTransitive
  <2>5. /\ t[1] \in alloc_with_ctx /\ u[2] \in alloc_with_ctx
        /\ \E w \in unify : w[2] = t[1]
    BY DEF IInv, NothingOrphaned
  <2>6. QED
    BY <2>1, <2>3, <2>4, <2>5, DerivePreserves
<1>3. CASE \E p \in unify0, t, u \in unify : UnifyRepresentatives(p, t, u)
  <2>1. PICK p \in unify0, t \in unify, u \in unify :
          OrderedParents(p, t, u) /\ Derive(<<t[1], u[1]>>)
    BY <1>3 DEF UnifyRepresentatives
  <2>2. /\ t[1] \in AllocWithContext /\ t[2] \in AllocWithContext
        /\ u[1] \in AllocWithContext /\ u[2] \in AllocWithContext
    BY TupleForm DEF IInv
  <2>3. SameClass(t[2], u[2])
    <3>1. PICK x \in AllocWithContext, y \in AllocWithContext : p = <<x, y>>
      BY UnifyFactsAssumption DEF IInv, TypeOK
    <3>2. SameClass(x, y) /\ SameClass(y, x)
      BY <3>1, SameClassEquivalence
    <3>3. QED
      BY <2>1, <3>1, <3>2 DEF OrderedParents
  <2>4. SameClass(t[1], t[2]) /\ SameClass(u[2], u[1])
    BY <2>2, SameClassEquivalence DEF IInv, ParentsAreSound
  <2>5. SameClass(t[1], u[1])
    <3>1. SameClass(t[1], u[2])
      BY ONLY <2>2, <2>3, <2>4, SameClassTransitive
    <3>2. QED
      BY ONLY <2>2, <2>4, <3>1, SameClassTransitive
  <2>6. ~ LexOrder(u[1], t[1])
    BY <2>1, <2>2, LexOrderTotal DEF OrderedParents
  <2>7. /\ t[1] \in alloc_with_ctx /\ u[1] \in alloc_with_ctx
        /\ \E w \in unify : w[2] = t[1]
    BY DEF IInv, NothingOrphaned
  <2>8. QED
    BY <2>1, <2>5, <2>6, <2>7, DerivePreserves
<1>4. CASE \E t \in unify : ParentHop(t)
  <2>1. PICK t \in unify : ParentHop(t)
    BY <1>4
  <2>2. unify' \subseteq unify /\ UNCHANGED <<alloc_with_ctx, unify0>>
    BY <2>1 DEF ParentHop
  <2>3. TypeOK'
    BY <2>2 DEF IInv, TypeOK
  <2>4. ParentsAreSound'
    <3> SUFFICES ASSUME NEW u \in unify'
                 PROVE  SameClass(u[1], u[2])' /\ ~ LexOrder(u[2], u[1])
      BY DEF ParentsAreSound
    <3>1. SameClass(u[1], u[2]) /\ ~ LexOrder(u[2], u[1])
      BY <2>2 DEF IInv, ParentsAreSound
    <3>2. QED
      BY <2>2, <3>1, SameClassMonotone
  <2>5. NothingOrphaned'
    <3> SUFFICES ASSUME NEW u \in unify'
                 PROVE  /\ u[1] \in alloc_with_ctx' /\ u[2] \in alloc_with_ctx'
                        /\ \E w \in unify' : w[2] = u[1]
      BY DEF NothingOrphaned
    <3>1. /\ u[1] \in alloc_with_ctx /\ u[2] \in alloc_with_ctx
          /\ \E w \in unify : w[2] = u[1]
      BY <2>2 DEF IInv, NothingOrphaned
    <3>2. QED
      BY <2>1, <2>2, <3>1, DeletionLeavesAParent DEF IInv
  <2>6. QED
    BY <2>3, <2>4, <2>5 DEF IInv
<1>5. QED
  BY <1>1, <1>2, <1>3, <1>4 DEF Rules

(* So do the facts that arrive from the rest of the analysis. *)
LEMMA FactsPreserve ==
  ASSUME IInv, Facts
  PROVE  IInv'
<1>1. /\ alloc_with_ctx \subseteq alloc_with_ctx' /\ unify0 \subseteq unify0'
      /\ UNCHANGED unify
  BY DEF Facts, NewAllocation, NewUnify0
<1>2. TypeOK'
  BY DEF IInv, TypeOK, Facts, NewAllocation, NewUnify0
<1>3. ParentsAreSound'
  <2> SUFFICES ASSUME NEW t \in unify'
               PROVE  SameClass(t[1], t[2])' /\ ~ LexOrder(t[2], t[1])
    BY DEF ParentsAreSound
  <2>1. SameClass(t[1], t[2]) /\ ~ LexOrder(t[2], t[1])
    BY <1>1 DEF IInv, ParentsAreSound
  <2>2. QED
    BY <1>1, <2>1, SameClassMonotone
<1>4. NothingOrphaned'
  BY <1>1 DEF IInv, NothingOrphaned
<1>5. QED
  BY <1>2, <1>3, <1>4 DEF IInv

(* The inductive invariant: unify stays within the classes of unify0, points *)
(* down the order, and loses no element when tuples are deleted.             *)
THEOREM Invariance == Spec => []IInv
<1>1. Init => IInv
  BY DEF Init, IInv, TypeOK, ParentsAreSound, NothingOrphaned
<1>2. IInv /\ [Next]_vars => IInv'
  <2> SUFFICES ASSUME IInv, [Next]_vars
               PROVE  IInv'
    OBVIOUS
  <2>1. CASE Rules
    BY <2>1, RulesPreserve
  <2>2. CASE Facts
    BY <2>2, FactsPreserve
  <2>3. CASE UNCHANGED vars
    BY <2>3 DEF vars, IInv, TypeOK, ParentsAreSound, NothingOrphaned, SameClass, Respects
  <2>4. QED
    BY <2>1, <2>2, <2>3 DEF Next
<1>3. QED
  BY <1>1, <1>2, PTL DEF Spec

(* No merge without a reason: a parent and its element are always in one     *)
(* class of the closure of unify0, in every order of evaluation.             *)
THEOREM Soundness == Spec => []ParentsAreSound
<1>1. IInv => ParentsAreSound
  BY DEF IInv
<1>2. QED
  BY <1>1, Invariance, PTL

(* Deletion by subsumption orphans nothing. *)
THEOREM NoOrphans == Spec => []NothingOrphaned
<1>1. IInv => NothingOrphaned
  BY DEF IInv
<1>2. QED
  BY <1>1, Invariance, PTL

(* Every step leaves each element a parent that does not come later.         *)
THEOREM Descent == Spec => ParentsOnlyDescend
<1> DEFINE Step == \A t \in unify : \E u \in unify' : u[2] = t[2] /\ ~ LexOrder(t[1], u[1])
<1>1. TypeOK /\ [Next]_vars => [Step]_vars
  <2> SUFFICES ASSUME TypeOK, Next, NEW t \in unify
               PROVE  \E u \in unify' : u[2] = t[2] /\ ~ LexOrder(t[1], u[1])
    OBVIOUS
  <2>1. CASE t \in unify'
    BY <2>1, TupleForm, LexOrderTotal
  <2>2. CASE t \notin unify'
    <3>1. PICK d \in unify : ParentHop(d)
      BY <2>2 DEF Next, Rules, Facts, NewAllocation, NewUnify0, Reflexivity,
                  Transitivity, UnifyRepresentatives, Derive
    <3>2. d = t /\ unify' = unify \ {t}
      BY <2>2, <3>1 DEF ParentHop
    <3>3. PICK u \in unify : u[2] = t[2] /\ LexOrder(u[1], t[1])
      BY <3>1, <3>2 DEF ParentHop, Dominated
    <3>4. u # t
      BY <3>3, TupleForm, LexOrderTotal
    <3>5. ~ LexOrder(t[1], u[1])
      BY <3>3, TupleForm, LexOrderTotal
    <3>6. QED
      BY <3>2, <3>3, <3>4, <3>5
  <2>3. QED
    BY <2>1, <2>2
<1>2. QED
  BY <1>1, TypeCorrect, PTL DEF Spec, ParentsOnlyDescend

-----------------------------------------------------------------------------
(* At a fixpoint, unify is a function from elements to representatives.      *)
LEMMA ParentUnique ==
  ASSUME IInv, Fixpoint, NEW t \in unify, NEW u \in unify, t[2] = u[2]
  PROVE  t[1] = u[1]
<1>1. ~ LexOrder(t[1], u[1]) /\ ~ LexOrder(u[1], t[1])
  BY DEF Fixpoint, Dominated
<1>2. t[1] \in AllocWithContext /\ u[1] \in AllocWithContext
  BY TupleForm DEF IInv
<1>3. QED
  BY <1>1, <1>2, LexOrderTotal

(* At a fixpoint a parent is its own parent. *)
LEMMA ParentOfParent ==
  ASSUME IInv, Fixpoint, NEW t \in unify
  PROVE  <<t[1], t[1]>> \in unify
<1>1. PICK u \in unify : u[2] = t[1]
  BY DEF IInv, NothingOrphaned
<1>2. /\ t[1] \in AllocWithContext /\ t[2] \in AllocWithContext
      /\ u[1] \in AllocWithContext /\ u = <<u[1], u[2]>>
  BY TupleForm DEF IInv
<1>3. Absorbed(<<u[1], t[2]>>)
  BY <1>1 DEF Fixpoint
<1>4. CASE <<u[1], t[2]>> \in unify
  <2>1. u[1] = t[1]
    BY <1>4, ParentUnique
  <2>2. QED
    BY <1>1, <1>2, <2>1
<1>5. CASE Dominated(<<u[1], t[2]>>)
  <2>1. PICK w \in unify : w[2] = t[2] /\ LexOrder(w[1], u[1])
    BY <1>5 DEF Dominated
  <2>2. w[1] = t[1]
    BY <2>1, ParentUnique
  <2>3. ~ LexOrder(t[1], u[1])
    BY <1>1 DEF IInv, ParentsAreSound
  <2>4. QED
    BY <2>1, <2>2, <2>3
<1>6. QED
  BY <1>3, <1>4, <1>5 DEF Absorbed

(* A parent is the representative of its child. *)
LEMMA ParentIsRepr ==
  ASSUME IInv, Fixpoint, NEW t \in unify
  PROVE  unify_repr(t[2], t[1])
<1>1. <<t[1], t[1]>> \in unify
  BY ParentOfParent
<1>2. t = <<t[1], t[2]>> /\ t[1] \in AllocWithContext /\ t[2] \in AllocWithContext
  BY TupleForm DEF IInv
<1>3. ASSUME NEW s \in AllocWithContext, <<s, t[1]>> \in unify
      PROVE  s = t[1]
  BY <1>1, <1>3, ParentUnique
<1>4. QED
  BY <1>2, <1>3 DEF unify_repr, is_repr

(* Every reached allocation has a parent: itself, or one that dominated it. *)
LEMMA HasParent ==
  ASSUME IInv, Fixpoint, NEW e \in alloc_with_ctx
  PROVE  \E t \in unify : t[2] = e
<1>1. Absorbed(<<e, e>>)
  BY DEF Fixpoint
<1>2. CASE <<e, e>> \in unify
  BY <1>2
<1>3. CASE Dominated(<<e, e>>)
  BY <1>3 DEF Dominated
<1>4. QED
  BY <1>1, <1>2, <1>3 DEF Absorbed

(* The ends of a unify0 fact have the same parent. *)
LEMMA EndsMeet ==
  ASSUME IInv, Fixpoint, NEW p \in unify0, NEW t \in unify, NEW u \in unify,
         (t[2] = p[1] /\ u[2] = p[2]) \/ (t[2] = p[2] /\ u[2] = p[1])
  PROVE  ~ LexOrder(t[1], u[1])
<1> SUFFICES ASSUME LexOrder(t[1], u[1])
             PROVE  FALSE
  OBVIOUS
<1>1. /\ t[1] \in AllocWithContext /\ u[1] \in AllocWithContext
  BY TupleForm DEF IInv
<1>2. <<u[1], u[1]>> \in unify
  BY ParentOfParent
<1>3. Absorbed(<<t[1], u[1]>>)
  BY DEF Fixpoint, OrderedParents
<1>4. CASE <<t[1], u[1]>> \in unify
  <2>1. t[1] = u[1]
    BY <1>2, <1>4, ParentUnique
  <2>2. QED
    BY <1>1, <2>1, LexOrderTotal
<1>5. CASE Dominated(<<t[1], u[1]>>)
  <2>1. PICK w \in unify : w[2] = u[1] /\ LexOrder(w[1], t[1])
    BY <1>5 DEF Dominated
  <2>2. w[1] = u[1]
    BY <1>2, <2>1, ParentUnique
  <2>3. QED
    BY <1>1, <2>1, <2>2, LexOrderTotal
<1>6. QED
  BY <1>3, <1>4, <1>5 DEF Absorbed

(* The elements of one representative are closed under unify0, so everything *)
(* in the class of one of them is among them.                                *)
LEMMA ClassSharesParent ==
  ASSUME IInv, Fixpoint, Complete, NEW t \in unify, NEW u \in unify,
         SameClass(t[2], u[2])
  PROVE  t[1] = u[1]
<1> DEFINE S == {e \in AllocWithContext : <<t[1], e>> \in unify}
<1>1. Respects(S)
  <2> SUFFICES ASSUME NEW p \in unify0
               PROVE  p[1] \in S <=> p[2] \in S
    BY DEF Respects
  <2>1. PICK a \in unify : a[2] = p[1]
    BY HasParent DEF Complete
  <2>2. PICK b \in unify : b[2] = p[2]
    BY HasParent DEF Complete
  <2>3. /\ a[1] \in AllocWithContext /\ b[1] \in AllocWithContext
        /\ p[1] \in AllocWithContext /\ p[2] \in AllocWithContext
        /\ a = <<a[1], p[1]>> /\ b = <<b[1], p[2]>>
    BY <2>1, <2>2, TupleForm DEF IInv
  <2>4. ~ LexOrder(a[1], b[1]) /\ ~ LexOrder(b[1], a[1])
    BY <2>1, <2>2, EndsMeet
  <2>5. a[1] = b[1]
    BY <2>3, <2>4, LexOrderTotal
  <2>6. p[1] \in S => t[1] = a[1]
    BY <2>1, ParentUnique
  <2>7. p[2] \in S => t[1] = b[1]
    BY <2>2, ParentUnique
  <2>8. QED
    BY <2>3, <2>5, <2>6, <2>7
<1>2. /\ t[2] \in AllocWithContext /\ t = <<t[1], t[2]>>
  BY TupleForm DEF IInv
<1>3. t[2] \in S
  BY <1>2
<1>4. u[2] \in S
  BY <1>1, <1>3 DEF SameClass
<1>5. QED
  BY <1>4, ParentUnique

(* assert_has_repr cannot fail: at every fixpoint each reached allocation    *)
(* has a representative that is itself a reached allocation.                 *)
THEOREM EveryAllocationHasRepr == Spec => []RepresentativesExist
<1>1. IInv => RepresentativesExist
  <2> SUFFICES ASSUME IInv, Fixpoint, NEW e \in alloc_with_ctx
               PROVE  \E r \in alloc_with_ctx : unify_repr(e, r)
    BY DEF RepresentativesExist
  <2>1. PICK t \in unify : t[2] = e
    BY HasParent
  <2>2. t[1] \in alloc_with_ctx
    BY DEF IInv, NothingOrphaned
  <2>3. QED
    BY <2>1, <2>2, ParentIsRepr
<1>2. QED
  BY <1>1, Invariance, PTL

(* assert_unique_repr cannot fail, and the representatives decide aliasing:  *)
(* at every fixpoint two allocations have the same one exactly if the        *)
(* closure of unify0 relates them, and it is the first of its class.         *)
THEOREM ReprsAreClasses == Spec => []RepresentativesAreClasses
<1>1. IInv => RepresentativesAreClasses
  <2> SUFFICES ASSUME IInv, Fixpoint, Complete,
                      NEW x \in alloc_with_ctx, NEW y \in alloc_with_ctx,
                      NEW r \in AllocWithContext, NEW s \in AllocWithContext,
                      unify_repr(x, r), unify_repr(y, s)
               PROVE  /\ SameClass(x, y) <=> r = s
                      /\ SameClass(x, y) => ~ LexOrder(y, r)
    BY DEF RepresentativesAreClasses
  <2>1. /\ <<r, x>> \in unify /\ <<s, y>> \in unify
        /\ x \in AllocWithContext /\ y \in AllocWithContext
    BY DEF unify_repr, IInv, TypeOK
  <2>2. SameClass(x, y) => r = s
    BY <2>1, ClassSharesParent
  <2>3. SameClass(r, x) /\ SameClass(s, y) /\ ~ LexOrder(y, s)
    BY <2>1 DEF IInv, ParentsAreSound
  <2>4. r = s => SameClass(x, y)
    BY <2>1, <2>3, SameClassEquivalence
  <2>5. QED
    BY <2>2, <2>3, <2>4
<1>2. QED
  BY <1>1, Invariance, PTL
=============================================================================
