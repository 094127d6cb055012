--------------------------- MODULE ContextsProofs ---------------------------
(***************************************************************************)
(* For every program, every option and every k: what the merge relation    *)
(* contains, and that contexts never grow beyond k.                        *)
(***************************************************************************)
EXTENDS Contexts, SequenceTheorems, WellFoundedInduction, TLAPS

-----------------------------------------------------------------------------
(* Calling contexts are lists of context items, and what is done with them *)
(* keeps them so.                                                          *)

(* nil is a context without items, and the only one. *)
LEMMA NilContext ==
  /\ nil \in Context
  /\ Len(nil) = 0
  /\ \A c \in Context : Len(c) \in Nat /\ (c # nil => Len(c) \in Nat \ {0})
<1>1. \A c \in Context : Len(c) \in Nat
  BY LenProperties DEF Context
<1>2. nil \in Context /\ Len(nil) = 0
  BY EmptySeq DEF Context, nil
<1>3. \A c \in Seq(ContextItem) : c # << >> => Len(c) \in Nat \ {0}
  BY EmptySeq
<1>4. QED
  BY <1>1, <1>2, <1>3 DEF Context, nil

(* A cons cell is a context one deeper than its tail. *)
LEMMA ConsContext ==
  ASSUME NEW h \in ContextItem, NEW t \in Context
  PROVE  /\ Cons(h, t) \in Context
         /\ Len(Cons(h, t)) = Len(t) + 1
         /\ Cons(h, t)[1] = h
         /\ \A i \in 1 .. Len(t) : Cons(h, t)[i + 1] = t[i]
<1> USE DEF Context
<1>1. <<h>> \in Seq(ContextItem) /\ Len(<<h>>) = 1 /\ <<h>>[1] = h
  OBVIOUS
<1>2. /\ <<h>> \o t \in Seq(ContextItem)
      /\ Len(<<h>> \o t) = 1 + Len(t)
      /\ \A i \in 1 .. 1 + Len(t) : (<<h>> \o t)[i] = IF i <= 1 THEN h ELSE t[i - 1]
  BY <1>1, ConcatProperties
<1>3. Len(t) \in Nat
  BY LenProperties
<1>4. QED
  BY <1>2, <1>3 DEF Cons

(* Taking a context apart and putting it together again. *)
LEMMA ConsHeadTail ==
  ASSUME NEW c \in Context, c # nil
  PROVE  /\ Head(c) \in ContextItem
         /\ Tail(c) \in Context
         /\ Len(Tail(c)) = Len(c) - 1
         /\ c = Cons(Head(c), Tail(c))
<1>1. /\ Head(c) \in ContextItem /\ Tail(c) \in Context /\ Len(Tail(c)) = Len(c) - 1
      /\ \A i \in 1 .. Len(Tail(c)) : Tail(c)[i] = c[i + 1]
  BY HeadTailProperties DEF Context, nil
<1>2. Head(c) = c[1]
  OBVIOUS
<1>3. Len(c) \in Nat \ {0} /\ Len(Tail(c)) \in Nat
  BY <1>1, NilContext
<1> DEFINE t == Tail(c)
           h == Head(c)
           d == Cons(h, t)
<1>4. /\ d \in Context /\ Len(d) = Len(t) + 1 /\ d[1] = h
      /\ \A i \in 1 .. Len(t) : d[i + 1] = t[i]
  BY <1>1, ConsContext
<1> HIDE DEF d
<1>5. \A i \in 1 .. Len(c) : c[i] = d[i]
  <2>1. SUFFICES ASSUME NEW i \in 1 .. Len(c) PROVE c[i] = d[i]
    OBVIOUS
  <2>2. CASE i = 1
    BY <1>2, <1>4, <2>2
  <2>3. CASE i # 1
    <3>1. (i - 1) \in 1 .. Len(t) /\ (i - 1) + 1 = i
      BY <1>1, <1>3, <2>3
    <3>2. QED
      BY <1>1, <1>4, <3>1
  <2>4. QED
    BY <2>2, <2>3
<1>6. Len(c) = Len(d)
  BY <1>1, <1>3, <1>4
<1>7. c = d
  BY <1>4, <1>5, <1>6, SeqEqual DEF Context
<1>8. QED
  BY <1>1, <1>7 DEF d

(* All but the last item of a context. *)
Front(ctx) == SubSeq(ctx, 1, Len(ctx) - 1)

(* The front of a context is a context one shallower. *)
LEMMA FrontContext ==
  ASSUME NEW c \in Context, c # nil
  PROVE  /\ Front(c) \in Context
         /\ Len(Front(c)) = Len(c) - 1
         /\ \A i \in 1 .. Len(c) - 1 : Front(c)[i] = c[i]
<1>1. Len(c) \in Nat \ {0}
  BY NilContext
<1>2. \A i \in 1 .. Len(c) - 1 : c[i] \in ContextItem
  <2>1. \A i \in 1 .. Len(c) : c[i] \in ContextItem
    BY ElementOfSeq DEF Context
  <2>2. QED
    BY <1>1, <2>1
<1> DEFINE n == Len(c) - 1
<1>3. 1 \in Int /\ n \in Int /\ n \in Nat /\ Len(c) = n + 1
  BY <1>1
<1>4. Front(c) = SubSeq(c, 1, n) /\ \A i \in 1 .. n : c[i] \in ContextItem
  BY <1>2 DEF Front
<1> HIDE DEF n
<1>5. SubSeq(c, 1, n) \in Seq(ContextItem)
  BY <1>3, <1>4
<1>6. Len(SubSeq(c, 1, n)) = n
  BY <1>3, <1>4
<1>7. \A i \in 1 .. n : SubSeq(c, 1, n)[i] = c[i]
  BY <1>3, <1>4
<1>8. n = Len(c) - 1
  BY <1>3
<1>9. QED
  BY <1>4, <1>5, <1>6, <1>7, <1>8 DEF Context

(* Dropping the last item commutes with consing, unless it is the item that *)
(* was consed.                                                              *)
LEMMA FrontCons ==
  ASSUME NEW h \in ContextItem, NEW t \in Context, t # nil
  PROVE  Front(Cons(h, t)) = Cons(h, Front(t))
<1> DEFINE c == Cons(h, t)
           u == Front(t)
           f == Front(c)
           g == Cons(h, u)
<1>1. /\ c \in Context /\ Len(c) = Len(t) + 1 /\ c[1] = h
      /\ \A i \in 1 .. Len(t) : c[i + 1] = t[i]
  BY ConsContext
<1>2. Len(t) \in Nat \ {0}
  BY NilContext
<1>3. c # nil
  BY <1>1, <1>2, NilContext
<1> HIDE DEF c
<1>4. /\ f \in Context /\ Len(f) = Len(c) - 1 /\ \A i \in 1 .. Len(c) - 1 : f[i] = c[i]
  BY <1>1, <1>3, FrontContext
<1>5. /\ u \in Context /\ Len(u) = Len(t) - 1 /\ \A i \in 1 .. Len(t) - 1 : u[i] = t[i]
  BY FrontContext
<1> HIDE DEF u, f
<1>6. /\ g \in Context /\ Len(g) = Len(u) + 1 /\ g[1] = h
      /\ \A i \in 1 .. Len(u) : g[i + 1] = u[i]
  BY <1>5, ConsContext
<1> HIDE DEF g
<1>7. Len(f) = Len(g)
  BY <1>1, <1>2, <1>4, <1>5, <1>6
<1>8. \A i \in 1 .. Len(f) : f[i] = g[i]
  <2>1. SUFFICES ASSUME NEW i \in 1 .. Len(f) PROVE f[i] = g[i]
    OBVIOUS
  <2>2. i \in 1 .. Len(c) - 1 /\ f[i] = c[i]
    BY <1>1, <1>2, <1>4
  <2>3. CASE i = 1
    BY <1>1, <1>6, <2>2, <2>3
  <2>4. CASE i # 1
    <3> DEFINE j == i - 1
    <3>1. j \in 1 .. Len(t) - 1 /\ j \in 1 .. Len(t) /\ j \in 1 .. Len(u) /\ j + 1 = i
      BY <1>1, <1>2, <1>5, <2>2, <2>4
    <3> HIDE DEF j
    <3>2. c[j + 1] = t[j] /\ g[j + 1] = u[j] /\ u[j] = t[j]
      BY <1>1, <1>5, <1>6, <3>1
    <3>3. QED
      BY <2>2, <3>1, <3>2
  <2>5. QED
    BY <2>3, <2>4
<1>9. f = g
  BY <1>4, <1>6, <1>7, <1>8, SeqEqual DEF Context
<1>10. QED
  BY <1>9 DEF f, g, c, u

(* The contexts of the call graph roots are one deep at most. *)
LEMMA RootContexts ==
  /\ main_context \in Context /\ Len(main_context) = 1
  /\ startup_context \in Context /\ Len(startup_context) = 1
  /\ exit_context \in Context /\ Len(exit_context) = 1
<1>1. main_item \in ContextItem /\ startup_item \in ContextItem /\ exit_item \in ContextItem
  BY DEF ContextItem
<1>2. nil \in Context /\ Len(nil) = 0
  BY NilContext
<1>3. \A h \in ContextItem : Cons(h, nil) \in Context /\ Len(Cons(h, nil)) = 0 + 1
  BY <1>2, ConsContext
<1>4. QED
  BY <1>1, <1>3 DEF main_context, startup_context, exit_context

(* The contexts in which the roots of the call graph are reachable. *)
LEMMA RootContextType ==
  ASSUME NEW root \in {"main", "startup", "library", "exit"}
  PROVE  root_context(root) \in Context
  BY NilContext, RootContexts DEF root_context

(* The item that a call contributes is a context item. *)
LEMMA ItemOfCall ==
  ASSUME NEW call \in CallBase
  PROVE  context_item_by_invoc(call) \in ContextItem
  BY ContextOpsAssumption DEF context_item_by_invoc, ContextItem

(* Pushing a call onto a context makes a context. *)
LEMMA PushContext ==
  ASSUME options \in Options, NEW call \in CallBase, NEW ctx \in Context
  PROVE  Push(call, ctx) \in Context
<1> DEFINE k == options.max_context_depth
           n == k - 1
           item == context_item_by_invoc(call)
           rest == IF Len(ctx) < k THEN ctx ELSE SubSeq(ctx, 1, n)
<1>1. k \in Nat \ {0}
  BY ContextOpsAssumption DEF Options
<1>2. rest \in Context
  <2>1. CASE Len(ctx) < k
    BY <2>1
  <2>2. CASE ~ (Len(ctx) < k)
    <3>1. Len(ctx) \in Nat /\ n \in Nat /\ n \in Int /\ 1 \in Int
      BY <1>1, LenProperties DEF Context
    <3>2. \A i \in 1 .. n : ctx[i] \in ContextItem
      <4>1. \A i \in 1 .. n : i \in 1 .. Len(ctx)
        BY <1>1, <2>2, <3>1
      <4>2. QED
        BY <4>1, ElementOfSeq DEF Context
    <3> HIDE DEF n
    <3>3. SubSeq(ctx, 1, n) \in Seq(ContextItem)
      BY <3>1, <3>2
    <3>4. QED
      BY <2>2, <3>3 DEF Context
  <2>3. QED
    BY <2>1, <2>2
<1>3. Cons(item, rest) \in Context
  <2>1. item \in ContextItem
    BY ItemOfCall
  <2> HIDE DEF item, rest
  <2>2. QED
    BY <1>2, <2>1, ConsContext
<1>4. QED
  BY <1>3, NilContext DEF Push

-----------------------------------------------------------------------------
(* The contexts that other relations mention are well formed ones, so the   *)
(* bound on context bounds the callee contexts too; and nil has a depth.    *)
Closed ==
  /\ <<0, nil>> \in context_depth
  /\ \A p \in drop_last : p[1] \in context
  /\ {nil, main_context, startup_context, exit_context} \subseteq context
  /\ \A r \in reachable_call : r[1] \in context
  /\ \A m \in merge : m[1] \in context

(* merge has nothing but pushes. *)
OnlyPushes == \A m \in merge : m[1] = Push(m[2], m[3])

(* What context_depth and drop_last say of a context is true of it. *)
FactsExact ==
  /\ \A d \in context_depth : d[2] \in context /\ d[1] = Len(d[2])
  /\ \A p \in drop_last : p[2] \in context /\ p[2] # nil /\ p[1] = Front(p[2])

(* The inductive invariant: OnlyPushes and DepthBounded both need that the  *)
(* facts about contexts are exact.                                          *)
IInv ==
  /\ TypeOK
  /\ Closed
  /\ DepthBounded
  /\ FactsExact
  /\ OnlyPushes

(* The greatest depth that the options allow. *)
Limit == IF insensitive THEN 1 ELSE options.max_context_depth

(* The limit is positive, so that a root context is within it. *)
LEMMA LimitPositive ==
  ASSUME TypeOK
  PROVE  /\ Limit \in Nat \ {0}
         /\ options.max_context_depth \in Nat \ {0}
<1>1. options.max_context_depth \in MaxContextDepths
  BY DEF TypeOK, Options
<1>2. options.max_context_depth \in Nat \ {0}
  BY <1>1, ContextOpsAssumption
<1>3. QED
  BY <1>2 DEF Limit

(* A step that leaves the options alone leaves their meaning alone. *)
LEMMA OptionsFixed ==
  ASSUME options' = options
  PROVE  /\ Limit' = Limit
         /\ \A call, ctx : Push(call, ctx)' = Push(call, ctx)
  BY DEF Limit, Push, insensitive, drop_context_by_invoc, drop_context_item_by_invoc,
         context_item_by_invoc

(* What the depth rules say of a context. *)
LEMMA DepthsExact ==
  ASSUME FactsExact, NEW ctx, NEW n \in DepthsOf(ctx)
  PROVE  ctx \in context /\ n = Len(ctx)
  BY DEF FactsExact, DepthsOf

(* What the drop_last rules say of a context. *)
LEMMA DropLastsExact ==
  ASSUME FactsExact, NEW ctx, NEW d \in DropLastsOf(ctx)
  PROVE  ctx \in context /\ ctx # nil /\ d = Front(ctx)
  BY DEF FactsExact, DropLastsOf

(* New drop_last pairs are harmless if they are right. *)
LEMMA AddDropLastPreserves ==
  ASSUME IInv, NEW pairs, AddDropLast(pairs),
         \A p \in pairs :
           /\ p = <<p[1], p[2]>>
           /\ p[2] \in context /\ p[2] # nil /\ p[1] = Front(p[2])
  PROVE  IInv'
<1> USE DEF IInv, AddDropLast
<1>1. \A p \in pairs : p[1] \in Context /\ p[2] \in Context /\ Len(p[1]) = Len(p[2]) - 1
  BY FrontContext DEF TypeOK
<1>2. context \subseteq Context /\ context' \subseteq Context
  BY <1>1 DEF TypeOK
<1>3. TypeOK'
  <2>1. pairs \subseteq Context \X Context
    BY <1>1
  <2>2. QED
    BY <1>2, <2>1 DEF TypeOK
<1>4. Closed'
  BY DEF Closed, main_context, startup_context, exit_context
<1>5. DepthBounded'
  <2>1. \A ctx \in context : Len(ctx) <= Limit
    BY DEF DepthBounded, Limit
  <2>2. \A p \in pairs : Len(p[1]) <= Limit
    BY <1>1, <1>2, <2>1, NilContext, LimitPositive
  <2>3. \A ctx \in context' : Len(ctx) <= Limit'
    BY <2>1, <2>2, OptionsFixed
  <2>4. QED
    BY <2>3 DEF DepthBounded, Limit
<1>6. FactsExact'
  BY DEF FactsExact, Front
<1>7. OnlyPushes'
  BY OptionsFixed DEF OnlyPushes
<1>8. QED
  BY <1>3, <1>4, <1>5, <1>6, <1>7

(* New merge tuples are harmless if they are pushes within the limit. *)
LEMMA AddMergePreserves ==
  ASSUME IInv, NEW tuples, NEW new, AddMerge(tuples, new),
         tuples \subseteq Context \X CallBase \X Context,
         \A m \in tuples : m[1] \in context \cup new /\ m[1] = Push(m[2], m[3]),
         \A ctx \in new : ctx \in Context /\ Len(ctx) <= Limit
  PROVE  IInv'
<1> USE DEF IInv, AddMerge
<1>1. TypeOK'
  BY DEF TypeOK
<1>2. Closed'
  BY DEF Closed, main_context, startup_context, exit_context
<1>3. DepthBounded'
  <2>1. \A ctx \in context : Len(ctx) <= Limit
    BY DEF DepthBounded, Limit
  <2>2. \A ctx \in context' : Len(ctx) <= Limit'
    BY <2>1, OptionsFixed
  <2>3. QED
    BY <2>2 DEF DepthBounded, Limit
<1>4. FactsExact'
  BY DEF FactsExact
<1>5. OnlyPushes'
  BY OptionsFixed DEF OnlyPushes
<1>6. QED
  BY <1>1, <1>2, <1>3, <1>4, <1>5

-----------------------------------------------------------------------------
(* The initial contexts satisfy the invariant. *)
LEMMA InitIInv == Init => IInv
<1> SUFFICES ASSUME Init PROVE IInv
  OBVIOUS
<1> USE DEF Init
<1>1. context \subseteq Context /\ \A ctx \in context : Len(ctx) <= 1
  BY NilContext, RootContexts
<1>2. TypeOK
  BY <1>1, NilContext DEF TypeOK
<1>3. DepthBounded
  BY <1>1, <1>2, LimitPositive DEF DepthBounded, Limit
<1>4. FactsExact
  BY NilContext DEF FactsExact
<1>5. QED
  BY <1>2, <1>3, <1>4 DEF IInv, Closed, OnlyPushes

(* The depth of a context is one more than the depth of its tail. *)
LEMMA ContextDepthPreserves == IInv /\ ContextDepth => IInv'
<1> SUFFICES ASSUME IInv, ContextDepth PROVE IInv'
  OBVIOUS
<1> USE DEF IInv, ContextDepth, DepthFacts
<1>1. \A d \in context_depth' \ context_depth :
        d = <<d[1], d[2]>> /\ d[2] \in context /\ d[1] = Len(d[2])
  <2>1. SUFFICES ASSUME NEW ctx \in context \ {nil}, NEW n \in DepthsOf(Tail(ctx))
                 PROVE  1 + n = Len(ctx)
    OBVIOUS
  <2>2. n = Len(Tail(ctx))
    BY DepthsExact
  <2>3. Len(Tail(ctx)) = Len(ctx) - 1 /\ Len(ctx) \in Nat
    BY ConsHeadTail, NilContext DEF TypeOK
  <2>4. QED
    BY <2>2, <2>3
<1>2. TypeOK'
  BY <1>1, NilContext DEF TypeOK
<1>3. FactsExact'
  BY <1>1 DEF FactsExact
<1>4. Closed'
  BY DEF Closed, main_context, startup_context, exit_context
<1>5. DepthBounded'
  BY DEF DepthBounded, insensitive
<1>6. OnlyPushes'
  BY OptionsFixed DEF OnlyPushes
<1>7. QED
  BY <1>2, <1>3, <1>4, <1>5, <1>6

(* The three drop_last rules compute the front of a context, from the depth *)
(* of the context or from the front of the tail of its tail.                *)
LEMMA FrontOfOne ==
  ASSUME NEW c \in Context, Len(c) = 1
  PROVE  c # nil /\ Front(c) = nil
  BY NilContext DEF Front, nil

(* The base case: a context of two items keeps its head. *)
LEMMA FrontOfTwo ==
  ASSUME NEW c \in Context, Len(c) = 2
  PROVE  c # nil /\ Front(c) = Cons(Head(c), nil)
<1>1. c # nil
  BY NilContext
<1>2. Head(c) \in ContextItem /\ Tail(c) \in Context /\ c = Cons(Head(c), Tail(c))
  BY <1>1, ConsHeadTail
<1>3. Len(Tail(c)) = 1
  BY <1>1, ConsHeadTail
<1>4. Tail(c) # nil /\ Front(Tail(c)) = nil
  BY <1>2, <1>3, FrontOfOne
<1>5. Front(Cons(Head(c), Tail(c))) = Cons(Head(c), Front(Tail(c)))
  BY <1>2, <1>4, FrontCons
<1>6. QED
  BY <1>1, <1>2, <1>4, <1>5

(* The recursive case, from the front of the tail of the tail. *)
LEMMA FrontOfMore ==
  ASSUME NEW c \in Context, Len(c) >= 2, Tail(Tail(c)) # nil
  PROVE  /\ c # nil
         /\ Front(c) = Cons(Head(c), Cons(Head(Tail(c)), Front(Tail(Tail(c)))))
<1>1. c # nil
  BY NilContext
<1>2. Head(c) \in ContextItem /\ Tail(c) \in Context /\ c = Cons(Head(c), Tail(c))
  BY <1>1, ConsHeadTail
<1>3. Len(Tail(c)) >= 1
  BY <1>1, ConsHeadTail, NilContext
<1> DEFINE t == Tail(c)
           h == Head(c)
<1>4. t # nil
  BY <1>3, NilContext
<1>5. Head(t) \in ContextItem /\ Tail(t) \in Context /\ t = Cons(Head(t), Tail(t))
  BY <1>2, <1>4, ConsHeadTail
<1>6. Front(Cons(Head(t), Tail(t))) = Cons(Head(t), Front(Tail(t)))
  BY <1>5, FrontCons
<1>7. Front(Cons(h, t)) = Cons(h, Front(t))
  BY <1>2, <1>4, FrontCons
<1>8. QED
  BY <1>1, <1>2, <1>5, <1>6, <1>7

(* What the three rules derive is the front of a context. *)
FrontsOf(pairs) ==
  \A p \in pairs : /\ p = <<p[1], p[2]>>
                   /\ p[2] \in context /\ p[2] # nil /\ p[1] = Front(p[2])

(* drop_last of a context of depth one is nil. *)
LEMMA SingleDropsExact ==
  ASSUME IInv
  PROVE  FrontsOf(SingleDrops) /\ { p[1] : p \in SingleDrops } \subseteq {nil}
<1>1. \A d \in context_depth : d[2] \in context /\ d[1] = Len(d[2])
  BY DEF IInv, FactsExact
<1>2. \A d \in context_depth :
        d[1] = 1 => d[2] \in context /\ Len(d[2]) = 1
  BY <1>1
<1>3. \A p \in SingleDrops : /\ p = <<p[1], p[2]>> /\ p[1] = nil
                             /\ p[2] \in context /\ Len(p[2]) = 1
  BY <1>2 DEF SingleDrops
<1>4. QED
  BY <1>3, FrontOfOne DEF IInv, TypeOK, FrontsOf

(* drop_last of a context of depth two. *)
LEMMA BaseDropsExact ==
  ASSUME IInv
  PROVE  FrontsOf(BaseDrops)
<1>1. \A c \in context : Len(c) = 2 => c # nil /\ Front(c) = Cons(Head(c), nil)
  BY FrontOfTwo DEF IInv, TypeOK
<1>2. QED
  BY <1>1 DEF FrontsOf, BaseDrops

(* drop_last of deeper contexts. *)
LEMMA RecursiveDropsExact ==
  ASSUME IInv
  PROVE  FrontsOf(RecursiveDrops)
<1> DEFINE PairsOf(ctx) ==
             { <<Cons(Head(ctx), Cons(Head(Tail(ctx)), dropped)), ctx>> :
                 dropped \in DropLastsOf(Tail(Tail(ctx))) }
<1>1. ASSUME NEW ctx \in context, Len(ctx) >= 2, NEW p \in PairsOf(ctx)
      PROVE  /\ p = <<p[1], p[2]>>
             /\ p[2] \in context /\ p[2] # nil /\ p[1] = Front(p[2])
  <2>1. PICK dropped \in DropLastsOf(Tail(Tail(ctx))) :
          p = <<Cons(Head(ctx), Cons(Head(Tail(ctx)), dropped)), ctx>>
    OBVIOUS
  <2>2. Tail(Tail(ctx)) # nil /\ dropped = Front(Tail(Tail(ctx)))
    BY DropLastsExact DEF IInv
  <2>3. ctx \in Context
    BY DEF IInv, TypeOK
  <2>4. ctx # nil /\ Front(ctx) = Cons(Head(ctx), Cons(Head(Tail(ctx)), dropped))
    BY <1>1, <2>2, <2>3, FrontOfMore
  <2>5. QED
    BY <2>1, <2>4
<1>2. RecursiveDrops = UNION { PairsOf(ctx) : ctx \in { c \in context : Len(c) >= 2 } }
  BY DEF RecursiveDrops
<1> HIDE DEF PairsOf
<1>3. QED
  BY <1>1, <1>2 DEF FrontsOf

(* So the rules may add it. *)
LEMMA DropLastPreserves ==
  IInv /\ (DropLastSingle \/ DropLastBase \/ DropLastRecursive) => IInv'
<1> SUFFICES ASSUME IInv PROVE DropLastSingle \/ DropLastBase \/ DropLastRecursive => IInv'
  OBVIOUS
<1>1. CASE DropLastSingle
  <2>1. context' = context \cup { p[1] : p \in SingleDrops }
    BY <1>1, SingleDropsExact DEF DropLastSingle, IInv, Closed
  <2>2. AddDropLast(SingleDrops)
    BY <1>1, <2>1 DEF AddDropLast, DropLastSingle
  <2>3. QED
    BY <2>2, SingleDropsExact, AddDropLastPreserves DEF FrontsOf
<1>2. CASE DropLastBase
  BY <1>2, BaseDropsExact, AddDropLastPreserves DEF FrontsOf, DropLastBase
<1>3. CASE DropLastRecursive
  BY <1>3, RecursiveDropsExact, AddDropLastPreserves DEF FrontsOf, DropLastRecursive
<1>4. QED
  BY <1>1, <1>2, <1>3

-----------------------------------------------------------------------------
(* The rules that reuse a context add pushes that keep it or reset it. *)
LEMMA MergeReusePreserves ==
  IInv /\ (MergeDroppedItem \/ MergeDroppedContext \/ MergeInsensitive) => IInv'
<1> SUFFICES ASSUME IInv PROVE MergeDroppedItem \/ MergeDroppedContext \/ MergeInsensitive => IInv'
  OBVIOUS
<1>1. \A r \in reachable_call : /\ r = <<r[1], r[2]>> /\ r[1] \in Context
                                /\ r[2] \in CallBase /\ r[1] \in context
  BY DEF IInv, TypeOK, Closed
<1>2. nil \in context /\ nil \in Context
  BY NilContext DEF IInv, Closed
<1>3. ASSUME NEW tuples, AddMerge(tuples, {}),
             \A m \in tuples :
               \E r \in reachable_call : \E new \in {nil, r[1]} :
                 m = <<new, r[2], r[1]>> /\ new = Push(r[2], r[1])
      PROVE  IInv'
  <2>1. ASSUME NEW m \in tuples
        PROVE  /\ m \in Context \X CallBase \X Context
               /\ m[1] \in context \cup {} /\ m[1] = Push(m[2], m[3])
    <3>1. PICK r \in reachable_call : \E new \in {nil, r[1]} :
            m = <<new, r[2], r[1]>> /\ new = Push(r[2], r[1])
      BY <1>3
    <3>5. PICK new \in {nil, r[1]} : m = <<new, r[2], r[1]>> /\ new = Push(r[2], r[1])
      BY <3>1
    <3>2. new \in context /\ new \in Context
      BY <1>1, <1>2
    <3>3. m[1] = new /\ m[2] = r[2] /\ m[3] = r[1]
      BY <3>5
    <3>4. QED
      BY <1>1, <3>5, <3>2, <3>3
  <2>2. tuples \subseteq Context \X CallBase \X Context
    BY <2>1
  <2>3. QED
    BY <1>3, <2>1, <2>2, AddMergePreserves
<1>4. CASE MergeDroppedItem
  <2>1. \A r \in reachable_call :
          drop_context_item_by_invoc(r[2]) /\ ~ drop_context_by_invoc(r[2])
            => r[1] = Push(r[2], r[1])
    BY <1>4 DEF MergeDroppedItem, Push
  <2>2. QED
    BY <1>3, <1>4, <2>1 DEF MergeDroppedItem, DroppedItemMerges
<1>5. CASE MergeDroppedContext
  <2>1. \A r \in reachable_call :
          drop_context_by_invoc(r[2]) => nil = Push(r[2], r[1])
    BY <1>5 DEF MergeDroppedContext, Push
  <2>2. QED
    BY <1>3, <1>5, <2>1 DEF MergeDroppedContext, DroppedContextMerges
<1>6. CASE MergeInsensitive
  <2>1. \A r \in reachable_call : r[1] = Push(r[2], r[1])
    BY <1>6 DEF MergeInsensitive, Push
  <2>2. QED
    BY <1>3, <1>6, <2>1 DEF MergeInsensitive, InsensitiveMerges
<1>7. QED
  BY <1>4, <1>5, <1>6

(* A merge tuple whose callee context is that of a reachable call, pushed    *)
(* onto rest.                                                               *)
PushedOnto(m, r, rest) ==
  /\ m = <<Cons(context_item_by_invoc(r[2]), rest), r[2], r[1]>>
  /\ has_context_item(r[2])
  /\ Len(rest) < options.max_context_depth
  /\ rest = IF Len(r[1]) < options.max_context_depth THEN r[1]
            ELSE SubSeq(r[1], 1, options.max_context_depth - 1)

(* The rules that build a context: onto the calling context, or onto the    *)
(* calling context without its last item.                                   *)
LEMMA MergeConsPreserves ==
  ASSUME IInv, ~ insensitive, NEW tuples, AddMerge(tuples, { m[1] : m \in tuples }),
         \A m \in tuples :
           \E r \in reachable_call, rest \in Context : PushedOnto(m, r, rest)
  PROVE  IInv'
<1>1. options.max_context_depth \in Nat \ {0} /\ Limit = options.max_context_depth
  BY LimitPositive DEF IInv, Limit
<1>2. ASSUME NEW m \in tuples
      PROVE  /\ m \in Context \X CallBase \X Context
             /\ m[1] = Push(m[2], m[3])
             /\ Len(m[1]) <= Limit
  <2>1. PICK r \in reachable_call, rest \in Context : PushedOnto(m, r, rest)
    OBVIOUS
  <2> USE DEF PushedOnto
  <2> DEFINE new == Cons(context_item_by_invoc(r[2]), rest)
  <2>2. r[1] \in Context /\ r[2] \in CallBase
    BY DEF IInv, TypeOK
  <2>3. new \in Context /\ Len(new) = Len(rest) + 1
    BY <2>2, ItemOfCall, ConsContext
  <2>4. new = Push(r[2], r[1])
    BY <2>1 DEF Push, has_context_item
  <2> HIDE DEF new
  <2>5. m = <<new, r[2], r[1]>>
    BY <2>1 DEF new
  <2>6. Len(new) <= Limit
    BY <1>1, <2>1, <2>3, NilContext
  <2>7. QED
    BY <2>2, <2>3, <2>4, <2>5, <2>6
<1> DEFINE new == { m[1] : m \in tuples }
<1>3. /\ tuples \subseteq Context \X CallBase \X Context
      /\ \A m \in tuples : m[1] \in context \cup new /\ m[1] = Push(m[2], m[3])
  BY <1>2
<1>4. \A ctx \in new : ctx \in Context /\ Len(ctx) <= Limit
  BY <1>2
<1> HIDE DEF new
<1>5. AddMerge(tuples, new)
  BY DEF new
<1>6. QED
  BY <1>3, <1>4, <1>5, AddMergePreserves

(* Calls from a context that is not full. *)
LEMMA MergeShallowPreserves == IInv /\ MergeShallow => IInv'
<1> SUFFICES ASSUME IInv, MergeShallow PROVE IInv'
  OBVIOUS
<1> DEFINE k == options.max_context_depth
           calls == { q \in reachable_call :
                        /\ has_context_item(q[2])
                        /\ \E n \in DepthsOf(q[1]) : n < k }
           tuples == { <<Cons(context_item_by_invoc(r[2]), r[1]), r[2], r[1]>> : r \in calls }
<1>1. \A r \in calls : r[1] \in Context /\ Len(r[1]) < k
  BY DepthsExact DEF IInv, TypeOK
<1>2. AddMerge(tuples, { m[1] : m \in tuples }) /\ ~ insensitive
  BY DEF MergeShallow, ShallowMerges
<1>3. \A m \in tuples :
        \E r \in reachable_call, rest \in Context : PushedOnto(m, r, rest)
  BY <1>1 DEF PushedOnto
<1> HIDE DEF tuples
<1>4. QED
  BY <1>2, <1>3, MergeConsPreserves

(* Calls from a full context. *)
LEMMA MergeDeepPreserves == IInv /\ MergeDeep => IInv'
<1> SUFFICES ASSUME IInv, MergeDeep PROVE IInv'
  OBVIOUS
<1> DEFINE k == options.max_context_depth
           calls == { q \in reachable_call : has_context_item(q[2]) /\ k \in DepthsOf(q[1]) }
           TuplesOf(r) == { <<Cons(context_item_by_invoc(r[2]), dropped), r[2], r[1]>> :
                              dropped \in DropLastsOf(r[1]) }
           tuples == UNION { TuplesOf(r) : r \in calls }
<1>1. AddMerge(tuples, { m[1] : m \in tuples }) /\ ~ insensitive
  BY DEF MergeDeep, DeepMerges
<1>2. ASSUME NEW r \in calls, NEW dropped \in DropLastsOf(r[1])
      PROVE  /\ dropped \in Context
             /\ Len(dropped) < k
             /\ dropped = IF Len(r[1]) < k THEN r[1] ELSE SubSeq(r[1], 1, k - 1)
  <2>1. k = Len(r[1])
    BY DepthsExact DEF IInv
  <2>2. r[1] \in Context /\ r[1] # nil /\ dropped = Front(r[1])
    BY DropLastsExact DEF IInv, TypeOK
  <2>3. Len(r[1]) \in Nat
    BY <2>2, NilContext
  <2>4. dropped \in Context /\ Len(dropped) = k - 1
    BY <2>1, <2>2, FrontContext
  <2> HIDE DEF k
  <2>5. dropped = SubSeq(r[1], 1, k - 1)
    BY <2>1, <2>2 DEF Front
  <2>6. QED
    BY <2>1, <2>3, <2>4, <2>5
<1>3. ASSUME NEW m \in tuples
      PROVE  \E r \in reachable_call, rest \in Context : PushedOnto(m, r, rest)
  <2>1. PICK r \in calls : m \in TuplesOf(r)
    OBVIOUS
  <2>2. PICK dropped \in DropLastsOf(r[1]) :
          m = <<Cons(context_item_by_invoc(r[2]), dropped), r[2], r[1]>>
    BY <2>1
  <2>3. r \in reachable_call /\ has_context_item(r[2])
    OBVIOUS
  <2>4. dropped \in Context /\ PushedOnto(m, r, dropped)
    BY <1>2, <2>2, <2>3 DEF PushedOnto
  <2>5. QED
    BY <2>3, <2>4
<1> HIDE DEF tuples
<1>4. QED
  BY <1>1, <1>3, MergeConsPreserves

(* A call becomes reachable only in a context that exists. *)
LEMMA ReachCallPreserves ==
  ASSUME IInv, NEW ctx \in CallingContexts, NEW call \in CallBase, ReachCall(ctx, call)
  PROVE  IInv'
<1> USE DEF IInv, ReachCall
<1>1. \A root \in Roots :
        root_context(root) \in {nil, main_context, startup_context, exit_context}
  BY ContextsAssumption DEF root_context
<1>2. ctx \in context
  BY <1>1 DEF CallingContexts, Closed
<1>3. TypeOK'
  BY <1>2 DEF TypeOK
<1>4. Closed'
  BY <1>2 DEF Closed, main_context, startup_context, exit_context
<1>5. DepthBounded'
  BY DEF DepthBounded, insensitive
<1>6. FactsExact'
  BY DEF FactsExact
<1>7. OnlyPushes'
  BY OptionsFixed DEF OnlyPushes
<1>8. QED
  BY <1>3, <1>4, <1>5, <1>6, <1>7

(* A step that changes nothing. *)
LEMMA StutterPreserves == IInv /\ UNCHANGED vars => IInv'
<1> SUFFICES ASSUME IInv, UNCHANGED vars PROVE IInv'
  OBVIOUS
<1> USE DEF IInv, vars
<1>1. TypeOK' /\ FactsExact'
  BY DEF TypeOK, FactsExact
<1>2. Closed' /\ DepthBounded'
  BY DEF Closed, DepthBounded, insensitive, main_context, startup_context, exit_context
<1>3. OnlyPushes'
  BY OptionsFixed DEF OnlyPushes
<1>4. QED
  BY <1>1, <1>2, <1>3

(* IInv holds initially, every rule and every new call preserves it. *)
THEOREM Invariance == Spec => []IInv
<1>1. IInv /\ [Next]_vars => IInv'
  <2>1. SUFFICES ASSUME IInv, Next PROVE IInv'
    BY StutterPreserves
  <2>2. CASE Rules
    BY <2>1, <2>2, ContextDepthPreserves, DropLastPreserves, MergeReusePreserves, MergeShallowPreserves,
       MergeDeepPreserves DEF Rules
  <2>3. ASSUME NEW ctx \in CallingContexts, NEW call \in CallBase, ReachCall(ctx, call)
        PROVE  IInv'
    BY <2>1, <2>3, ReachCallPreserves
  <2>4. QED
    BY <2>1, <2>2, <2>3 DEF Next
<1>2. QED
  BY <1>1, InitIInv, PTL DEF Spec

(* Every relation keeps its columns: contexts are made of the items of the  *)
(* program's calls and of nothing else.                                     *)
THEOREM TypeCorrect == Spec => []TypeOK
<1>1. IInv => TypeOK
  BY DEF IInv
<1>2. QED
  BY <1>1, Invariance, PTL

(* No context is deeper than k, whatever the recursion of the program. *)
THEOREM ContextsAreBounded == Spec => []DepthBounded
<1>1. IInv => DepthBounded
  BY DEF IInv
<1>2. QED
  BY <1>1, Invariance, PTL

-----------------------------------------------------------------------------
(* What the rules have found when they end.  drop_last of a context is      *)
(* derived from the tail of its tail, so every context needs its tail, and  *)
(* a context made by drop_last has its tail only when drop_last of another  *)
(* tail has been derived.  The invariant is therefore about the ends that   *)
(* the rules may still come to.                                             *)

(* A non-empty set of numbers has a least element. *)
LEMMA LeastNumber ==
  ASSUME NEW T, T \subseteq Nat, T # {}
  PROVE  \E x \in T : \A y \in T : x <= y
<1> DEFINE R == OpToRel(<, Nat)
<1>1. IsWellFoundedOn(R, Nat)
  BY NatLessThanWellFounded
<1>2. \A x, y \in Nat : y < x => <<y, x>> \in R
  BY DEF OpToRel
<1> HIDE DEF R
<1>3. PICK x \in T : \A y \in T : ~ (<<y, x>> \in R)
  BY <1>1, WFMin
<1>4. ASSUME NEW y \in T PROVE x <= y
  <2>1. ~ (<<y, x>> \in R) /\ x \in Nat /\ y \in Nat
    BY <1>3
  <2>2. ~ (y < x)
    BY <1>2, <2>1
  <2> HIDE DEF R
  <2>3. QED
    BY <2>1, <2>2
<1>5. QED
  BY <1>4

(* The tail of a cons cell is the tail. *)
LEMMA TailOfCons ==
  ASSUME NEW h \in ContextItem, NEW t \in Context
  PROVE  Cons(h, t) # nil /\ Tail(Cons(h, t)) = t
<1>1. /\ Cons(h, t) \in Context /\ Len(Cons(h, t)) = Len(t) + 1 /\ Len(t) \in Nat
      /\ \A i \in 1 .. Len(t) : Cons(h, t)[i + 1] = t[i]
  BY ConsContext, NilContext
<1>2. Cons(h, t) # nil
  BY <1>1, NilContext
<1> DEFINE c == Cons(h, t)
<1> HIDE DEF c
<1>3. c \in Context /\ c # << >> /\ Len(c) = Len(t) + 1
      /\ \A i \in 1 .. Len(t) : c[i + 1] = t[i]
  BY <1>1, <1>2 DEF c, nil
<1>4. /\ Tail(c) \in Context /\ Len(Tail(c)) = Len(c) - 1
      /\ \A i \in 1 .. Len(Tail(c)) : Tail(c)[i] = c[i + 1]
  BY <1>3, HeadTailProperties DEF Context
<1>5. Len(Tail(c)) = Len(t) /\ \A i \in 1 .. Len(t) : Tail(c)[i] = t[i]
  BY <1>1, <1>3, <1>4
<1>6. Tail(c) = t
  BY <1>4, <1>5, SeqEqual DEF Context
<1>7. QED
  BY <1>2, <1>6 DEF c

(* Contexts C, depths D and drop_last pairs L to which the rules about      *)
(* contexts have nothing to add.                                            *)
Ended(C, D, L) ==
  /\ nil \in C /\ <<0, nil>> \in D
  /\ \A ctx \in C \ {nil}, n \in Nat : <<n, Tail(ctx)>> \in D => <<1 + n, ctx>> \in D
  /\ \A ctx \in C : <<1, ctx>> \in D => <<nil, ctx>> \in L
  /\ \A ctx \in C : Len(ctx) = 2 => <<Cons(Head(ctx), nil), ctx>> \in L
  /\ \A ctx \in C, dropped \in Context :
       Len(ctx) >= 2 /\ <<dropped, Tail(Tail(ctx))>> \in L
         => <<Cons(Head(ctx), Cons(Head(Tail(ctx)), dropped)), ctx>> \in L
  /\ \A out, in \in Context : <<out, in>> \in L => out \in C

(* A set of contexts that has the tail and the front of each. *)
Whole(S) ==
  /\ S \subseteq Context
  /\ \A ctx \in S \ {nil} : Tail(ctx) \in S /\ Front(ctx) \in S

(* However the rules end, they end with the tails and the fronts of all     *)
(* contexts, and the tails and the fronts of those.                         *)
Supported ==
  \A C, D, L :
    Ended(C, D, L) /\ context \subseteq C
      => \E S \in SUBSET C : context \subseteq S /\ Whole(S)

(* drop_last of a context can be derived once the tail of its tail has one. *)
LEMMA FrontDerived ==
  ASSUME NEW C, NEW D, NEW L, Ended(C, D, L),
         NEW c \in C, c \in Context, c # nil, <<Len(c), c>> \in D,
         Len(c) > 2 => <<Front(Tail(Tail(c))), Tail(Tail(c))>> \in L
  PROVE  <<Front(c), c>> \in L /\ Front(c) \in C
<1>1. Len(c) \in Nat \ {0} /\ Front(c) \in Context
  BY NilContext, FrontContext
<1> DEFINE n == Len(c)
<1>0. n = 1 \/ n = 2 \/ n > 2
  <2>1. n \in Nat \ {0}
    BY <1>1
  <2> HIDE DEF n
  <2>2. QED
    BY <2>1
<1>2. CASE Len(c) = 1
  <2>1. Front(c) = nil
    BY <1>2, FrontOfOne
  <2>2. QED
    BY <1>2, <2>1 DEF Ended
<1>3. CASE Len(c) = 2
  <2>1. Front(c) = Cons(Head(c), nil)
    BY <1>3, FrontOfTwo
  <2>2. QED
    BY <1>1, <1>3, <2>1 DEF Ended
<1>4. CASE Len(c) > 2
  <2> DEFINE t == Tail(c)
             u == Tail(t)
  <2>1. t \in Context /\ Len(t) = Len(c) - 1
    BY ConsHeadTail
  <2>2. t # nil
    BY <1>1, <1>4, <2>1, NilContext
  <2>3. u \in Context /\ Len(u) = Len(t) - 1
    BY <2>1, <2>2, ConsHeadTail
  <2>4. u # nil
    <3>1. Len(u) # 0
      <4> HIDE DEF t, u
      <4>1. QED
        BY <1>1, <1>4, <2>1, <2>3
    <3>2. QED
      BY <3>1, NilContext
  <2>5. Front(u) \in Context
    BY <2>3, <2>4, FrontContext
  <2>6. Len(c) >= 2
    BY <1>1, <1>4
  <2>7. Front(c) = Cons(Head(c), Cons(Head(t), Front(u)))
    BY <2>4, <2>6, FrontOfMore
  <2>8. <<Cons(Head(c), Cons(Head(t), Front(u))), c>> \in L
    BY <1>4, <2>5, <2>6 DEF Ended
  <2>9. QED
    BY <1>1, <2>7, <2>8 DEF Ended
<1>5. QED
  BY <1>0, <1>2, <1>3, <1>4

(* Where the rules have ended, each context of a whole set has its depth    *)
(* and its drop_last.                                                       *)
LEMMA WholeIsTotal ==
  ASSUME NEW C, NEW D, NEW L, Ended(C, D, L), NEW S \in SUBSET C, Whole(S)
  PROVE  \A c \in S : <<Len(c), c>> \in D /\ (c # nil => <<Front(c), c>> \in L)
<1> DEFINE Has(c) == <<Len(c), c>> \in D /\ (c # nil => <<Front(c), c>> \in L)
           T == { Len(c) : c \in { d \in S : ~ Has(d) } }
<1> SUFFICES ASSUME T # {} PROVE FALSE
  OBVIOUS
<1>1. \A c \in S : Len(c) \in Nat /\ c \in Context /\ c \in C
  BY NilContext DEF Whole
<1>2. T \subseteq Nat
  BY <1>1
<1> HIDE DEF T
<1>3. PICK x \in T : \A y \in T : x <= y
  BY <1>2, LeastNumber
<1>4. PICK c \in S : ~ Has(c) /\ Len(c) = x
  BY <1>3 DEF T
<1>5. \A d \in S : ~ Has(d) => Len(d) \in T
  BY DEF T
<1> HIDE DEF Has
<1>6. \A d \in S : Len(d) < Len(c) => Has(d)
  BY <1>1, <1>3, <1>4, <1>5
<1>7. c # nil
  BY <1>4, NilContext DEF Has, Ended
<1> DEFINE t == Tail(c)
           u == Tail(t)
<1>8. t \in S /\ Len(t) = Len(c) - 1 /\ Len(c) \in Nat \ {0}
  BY <1>1, <1>7, ConsHeadTail, NilContext DEF Whole
<1>9. <<Len(c), c>> \in D
  <2>1. Has(t)
    <3> HIDE DEF t
    <3>1. Len(t) < Len(c)
      BY <1>8
    <3>2. QED
      BY <1>6, <1>8, <3>1
  <2>2. Len(t) \in Nat /\ <<Len(t), Tail(c)>> \in D
    BY <1>8, <2>1 DEF Has
  <2>3. <<1 + Len(t), c>> \in D
    BY <1>1, <1>7, <2>2 DEF Ended
  <2>4. QED
    BY <1>8, <2>3
<1>10. ASSUME Len(c) > 2 PROVE <<Front(u), u>> \in L
  <2>1. t # nil
    BY <1>8, <1>10, NilContext
  <2>2. u \in S /\ Len(u) = Len(t) - 1
    BY <1>1, <1>8, <2>1, ConsHeadTail DEF Whole
  <2>3. Len(u) # 0 /\ Len(u) < Len(c)
    <3> DEFINE k == Len(c)
               l == Len(t)
               m == Len(u)
    <3>1. k \in Nat /\ k > 2 /\ l = k - 1 /\ m = l - 1
      BY <1>8, <1>10, <2>2
    <3> HIDE DEF k, l, m
    <3>2. m # 0 /\ m < k
      BY <3>1
    <3>3. QED
      BY <3>2 DEF k, m
  <2>5. u # nil
    BY <2>3, NilContext
  <2>4. QED
    BY <1>6, <2>2, <2>3, <2>5 DEF Has
<1>11. <<Front(c), c>> \in L
  BY <1>1, <1>7, <1>9, <1>10, FrontDerived
<1>12. QED
  BY <1>4, <1>9, <1>11 DEF Has

(* Contexts whose tails are in a whole set may be added to it, if the rules *)
(* have ended with them.                                                    *)
LEMMA WholeGrows ==
  ASSUME NEW C, NEW D, NEW L, Ended(C, D, L), NEW S \in SUBSET C, Whole(S), nil \in S,
         NEW new \in SUBSET C,
         \A c \in new : c \in Context /\ (c # nil => Tail(c) \in S)
  PROVE  \E S2 \in SUBSET C : S \cup new \subseteq S2 /\ Whole(S2)
<1> DEFINE S2 == S \cup { c \in C : c \in Context /\ c # nil /\ Tail(c) \in S }
<1>1. S2 \subseteq Context /\ S2 \in SUBSET C /\ S \cup new \subseteq S2
  BY DEF Whole
<1>2. ASSUME NEW c \in S2, c # nil PROVE Tail(c) \in S2 /\ Front(c) \in S2
  <2>1. CASE c \in S
    BY <1>2, <2>1 DEF Whole
  <2>2. CASE c \notin S
    <3> DEFINE t == Tail(c)
               u == Tail(t)
               f == Front(c)
    <3>1. c \in C /\ c \in Context /\ t \in S
      BY <2>2
    <3>2. Len(t) = Len(c) - 1 /\ Len(c) \in Nat \ {0} /\ t \in Context
      BY <1>2, <3>1, ConsHeadTail, NilContext
    <3>3. f \in Context /\ Len(f) = Len(c) - 1
      BY <1>2, <3>1, FrontContext
    <3>4. <<Len(c), c>> \in D
      <4>1. <<Len(t), Tail(c)>> \in D /\ Len(t) \in Nat
        BY <3>1, <3>2, WholeIsTotal, NilContext
      <4>2. <<1 + Len(t), c>> \in D
        BY <1>2, <3>1, <4>1 DEF Ended
      <4>3. QED
        BY <3>2, <4>2
    <3>5. ASSUME Len(c) > 2 PROVE <<Front(u), u>> \in L
      <4>1. t # nil
        BY <3>2, <3>5, NilContext
      <4>2. u \in S /\ Len(u) = Len(t) - 1
        BY <3>1, <3>2, <4>1, ConsHeadTail DEF Whole
      <4>3. u # nil
        BY <3>2, <3>5, <4>2, NilContext
      <4>4. QED
        BY <4>2, <4>3, WholeIsTotal
    <3>6. f \in C
      BY <1>2, <3>1, <3>4, <3>5, FrontDerived
    <3>7. CASE t = nil
      <4>1. Len(c) = 1
        <5>1. Len(t) = 0
          BY <3>7, NilContext
        <5> HIDE DEF t
        <5>2. QED
          BY <3>2, <5>1
      <4>2. f = nil
        BY <3>1, <4>1, FrontOfOne
      <4>3. QED
        BY <3>1, <4>2
    <3>8. CASE t # nil
      <4>1. Head(c) \in ContextItem /\ c = Cons(Head(c), t)
        BY <1>2, <3>1, ConsHeadTail
      <4>2. f = Cons(Head(c), Front(t)) /\ Front(t) \in Context
        BY <3>2, <3>8, <4>1, FrontCons, FrontContext
      <4>3. f # nil /\ Tail(f) = Front(t)
        BY <4>1, <4>2, TailOfCons
      <4>4. Front(t) \in S
        BY <3>1, <3>8 DEF Whole
      <4>5. f \in S2
        BY <3>3, <3>6, <4>3, <4>4
      <4>6. QED
        BY <3>1, <4>5
    <3>9. QED
      BY <3>7, <3>8
  <2>3. QED
    BY <2>1, <2>2
<1>3. Whole(S2)
  BY <1>1, <1>2 DEF Whole
<1>4. QED
  BY <1>1, <1>3

-----------------------------------------------------------------------------
(* The ends that the next state may still come to. *)
LEMMA SupportedNext ==
  ASSUME \A C, D, L : Ended(C, D, L) /\ context' \subseteq C
                       => \E S \in SUBSET C : context' \subseteq S /\ Whole(S)
  PROVE  Supported'
  BY DEF Supported, Ended, Whole

(* New contexts are harmless if they have tails that are                    *)
(* contexts or fronts of contexts.                                          *)
LEMMA SupportedGrows ==
  ASSUME IInv, Supported, NEW new, context' = context \cup new,
         \A c \in new :
           /\ c \in Context
           /\ \E d \in context : Tail(c) = d \/ (d # nil /\ Tail(c) = Front(d))
  PROVE  Supported'
<1> SUFFICES ASSUME NEW C, NEW D, NEW L, Ended(C, D, L), context' \subseteq C
             PROVE  \E S \in SUBSET C : context' \subseteq S /\ Whole(S)
  BY SupportedNext
<1>1. PICK S \in SUBSET C : context \subseteq S /\ Whole(S)
  BY DEF Supported
<1>2. nil \in S
  BY <1>1 DEF IInv, Closed
<1>3. \A d \in context : d # nil => Front(d) \in S
  BY <1>1 DEF Whole
<1>4. \A c \in new : c \in Context /\ (c # nil => Tail(c) \in S)
  BY <1>1, <1>3
<1>5. QED
  BY <1>1, <1>2, <1>4, WholeGrows

(* Fronts of contexts are where the rules may end anyway. *)
LEMMA SupportedFronts ==
  ASSUME Supported, NEW pairs, FrontsOf(pairs), context' = context \cup { p[1] : p \in pairs }
  PROVE  Supported'
<1> SUFFICES ASSUME NEW C, NEW D, NEW L, Ended(C, D, L), context' \subseteq C
             PROVE  \E S \in SUBSET C : context' \subseteq S /\ Whole(S)
  BY SupportedNext
<1>1. PICK S \in SUBSET C : context \subseteq S /\ Whole(S)
  BY DEF Supported
<1>2. context' \subseteq S
  BY <1>1 DEF Whole, FrontsOf
<1>3. QED
  BY <1>1, <1>2

(* The contexts at the start are their own tails and fronts. *)
LEMMA InitSupported == Init => Supported
<1> SUFFICES ASSUME Init, NEW C, context \subseteq C PROVE Whole(context)
  BY DEF Supported
<1>1. main_item \in ContextItem /\ startup_item \in ContextItem /\ exit_item \in ContextItem
  BY DEF ContextItem
<1>2. context \subseteq Context
  BY NilContext, RootContexts DEF Init
<1>3. \A c \in context \ {nil} : Tail(c) = nil /\ Front(c) = nil
  <2>1. \A h \in ContextItem : Tail(Cons(h, nil)) = nil
    BY NilContext, TailOfCons
  <2>2. \A c \in context \ {nil} : Tail(c) = nil
    BY <1>1, <2>1 DEF Init, main_context, startup_context, exit_context
  <2>3. \A c \in context \ {nil} : Front(c) = nil
    BY RootContexts, FrontOfOne DEF Init
  <2>4. QED
    BY <2>2, <2>3
<1>4. QED
  BY <1>2, <1>3 DEF Whole, Init

(* Every rule and every new call. *)
LEMMA NextSupported == IInv /\ Supported /\ [Next]_vars => Supported'
<1> SUFFICES ASSUME IInv, Supported, [Next]_vars PROVE Supported'
  OBVIOUS
<1>0. ASSUME context' = context PROVE Supported'
  BY <1>0, SupportedNext DEF Supported
<1>1. CASE ContextDepth \/ DropLastSingle \/ UNCHANGED vars
  BY <1>0, <1>1 DEF ContextDepth, DropLastSingle, vars
<1>2. CASE \E ctx \in CallingContexts, call \in CallBase : ReachCall(ctx, call)
  BY <1>0, <1>2 DEF ReachCall
<1>3. CASE DropLastBase
  BY <1>3, BaseDropsExact, SupportedFronts DEF DropLastBase, AddDropLast
<1>4. CASE DropLastRecursive
  BY <1>4, RecursiveDropsExact, SupportedFronts DEF DropLastRecursive, AddDropLast
<1>5. CASE MergeDroppedItem \/ MergeDroppedContext \/ MergeInsensitive
  BY <1>0, <1>5 DEF MergeDroppedItem, MergeDroppedContext, MergeInsensitive, AddMerge
<1>6. \A r \in reachable_call :
        r[1] \in context /\ r[1] \in Context /\ context_item_by_invoc(r[2]) \in ContextItem
  BY ItemOfCall DEF IInv, TypeOK, Closed
<1>7. CASE MergeShallow
  <2> DEFINE new == { m[1] : m \in ShallowMerges }
  <2>1. context' = context \cup new
    BY <1>7 DEF MergeShallow, AddMerge
  <2>2. ASSUME NEW c \in new
        PROVE  /\ c \in Context
               /\ \E d \in context : Tail(c) = d
    <3>1. PICK r \in reachable_call : c = Cons(context_item_by_invoc(r[2]), r[1])
      BY DEF ShallowMerges
    <3>2. QED
      BY <1>6, <3>1, ConsContext, TailOfCons
  <2> HIDE DEF new
  <2>3. QED
    BY <2>1, <2>2, SupportedGrows
<1>8. CASE MergeDeep
  <2> DEFINE new == { m[1] : m \in DeepMerges }
  <2>1. context' = context \cup new
    BY <1>8 DEF MergeDeep, AddMerge
  <2>2. ASSUME NEW c \in new
        PROVE  /\ c \in Context
               /\ \E d \in context : d # nil /\ Tail(c) = Front(d)
    <3>1. PICK r \in reachable_call : \E dropped \in DropLastsOf(r[1]) :
            c = Cons(context_item_by_invoc(r[2]), dropped)
      BY DEF DeepMerges
    <3>2. PICK dropped \in DropLastsOf(r[1]) :
            c = Cons(context_item_by_invoc(r[2]), dropped)
      BY <3>1
    <3>3. r[1] # nil /\ dropped = Front(r[1]) /\ dropped \in Context
      BY <1>6, <3>2, DropLastsExact, FrontContext DEF IInv
    <3>4. QED
      BY <1>6, <3>2, <3>3, ConsContext, TailOfCons
  <2> HIDE DEF new
  <2>3. QED
    BY <2>1, <2>2, SupportedGrows
<1>9. QED
  BY <1>1, <1>2, <1>3, <1>4, <1>5, <1>7, <1>8 DEF Next, Rules

(* However the rules are scheduled. *)
LEMMA SupportedInvariance == Spec => []Supported
  BY InitSupported, NextSupported, Invariance, PTL DEF Spec

-----------------------------------------------------------------------------
(* The state of the rules when none has anything to add. *)
LEMMA FinishedIsEnded ==
  ASSUME IInv, Finished
  PROVE  Ended(context, context_depth, drop_last)
<1>1. nil \in context /\ <<0, nil>> \in context_depth
  BY DEF IInv, Closed
<1>2. \A ctx \in context \ {nil}, n \in Nat :
        <<n, Tail(ctx)>> \in context_depth => <<1 + n, ctx>> \in context_depth
  <2>1. ASSUME NEW ctx \in context \ {nil}, NEW n \in Nat, <<n, Tail(ctx)>> \in context_depth
        PROVE  <<1 + n, ctx>> \in DepthFacts
    <3>1. n \in DepthsOf(Tail(ctx))
      BY <2>1 DEF DepthsOf
    <3>2. QED
      BY <3>1 DEF DepthFacts
  <2>2. QED
    BY <2>1 DEF Finished
<1>3. \A ctx \in context : <<1, ctx>> \in context_depth => <<nil, ctx>> \in drop_last
  <2>1. \A ctx \in context : <<1, ctx>> \in context_depth => <<nil, ctx>> \in SingleDrops
    BY DEF SingleDrops
  <2>2. QED
    BY <2>1 DEF Finished
<1>4. \A ctx \in context : Len(ctx) = 2 => <<Cons(Head(ctx), nil), ctx>> \in drop_last
  BY DEF Finished, BaseDrops
<1>5. ASSUME NEW ctx \in context, NEW dropped \in Context, Len(ctx) >= 2,
             <<dropped, Tail(Tail(ctx))>> \in drop_last
      PROVE  <<Cons(Head(ctx), Cons(Head(Tail(ctx)), dropped)), ctx>> \in drop_last
  <2>1. dropped \in DropLastsOf(Tail(Tail(ctx)))
    BY <1>5 DEF DropLastsOf
  <2>2. <<Cons(Head(ctx), Cons(Head(Tail(ctx)), dropped)), ctx>> \in RecursiveDrops
    BY <1>5, <2>1 DEF RecursiveDrops
  <2>3. QED
    BY <2>2 DEF Finished
<1>6. \A out, in \in Context : <<out, in>> \in drop_last => out \in context
  BY DEF IInv, Closed
<1>7. QED
  BY <1>1, <1>2, <1>3, <1>4, <1>5, <1>6 DEF Ended

(* Then all contexts have their depths and drop_lasts. *)
LEMMA FinishedTotal ==
  ASSUME IInv, Supported, Finished
  PROVE  \A c \in context :
           /\ <<Len(c), c>> \in context_depth
           /\ c # nil => <<Front(c), c>> \in drop_last
<1>1. Ended(context, context_depth, drop_last)
  BY FinishedIsEnded
<1>2. PICK S \in SUBSET context : context \subseteq S /\ Whole(S)
  BY <1>1 DEF Supported
<1>3. QED
  BY <1>1, <1>2, WholeIsTotal

(* And every reachable call has its callee context. *)
LEMMA FinishedMerges ==
  ASSUME IInv, Supported, Finished, NEW r \in reachable_call
  PROVE  <<Push(r[2], r[1]), r[2], r[1]>> \in merge
<1> DEFINE k == options.max_context_depth
           ctx == r[1]
           item == context_item_by_invoc(r[2])
<1>1. ctx \in context /\ ctx \in Context /\ Len(ctx) \in Nat
  BY NilContext DEF IInv, TypeOK, Closed
<1>2. k \in Nat \ {0}
  BY LimitPositive DEF IInv
<1>3. <<Len(ctx), ctx>> \in context_depth /\ (ctx # nil => <<Front(ctx), ctx>> \in drop_last)
  BY <1>1, FinishedTotal
<1>4. Len(ctx) \in DepthsOf(ctx) /\ (ctx # nil => Front(ctx) \in DropLastsOf(ctx))
  BY <1>3 DEF DepthsOf, DropLastsOf
<1>5. CASE insensitive
  BY <1>5 DEF Finished, InsensitiveMerges, Push
<1>6. CASE ~ insensitive /\ drop_context_by_invoc(r[2])
  BY <1>6 DEF Finished, DroppedContextMerges, Push
<1>7. CASE ~ insensitive /\ ~ drop_context_by_invoc(r[2]) /\ drop_context_item_by_invoc(r[2])
  BY <1>7 DEF Finished, DroppedItemMerges, Push
<1>8. CASE ~ insensitive /\ has_context_item(r[2])
  <2>1. CASE Len(ctx) < k
    <3>1. <<Cons(item, ctx), r[2], ctx>> \in ShallowMerges
      BY <1>4, <1>8, <2>1 DEF ShallowMerges
    <3>2. Push(r[2], ctx) = Cons(item, ctx)
      BY <1>8, <2>1 DEF Push, has_context_item
    <3>3. QED
      BY <1>8, <3>1, <3>2 DEF Finished
  <2>2. CASE ~ (Len(ctx) < k)
    <3>1. Len(ctx) <= k
      BY <1>1, <1>8 DEF IInv, DepthBounded
    <3>2. Len(ctx) = k
      BY <1>1, <1>2, <2>2, <3>1
    <3>3. ctx # nil
      BY <1>2, <3>2, NilContext
    <3>4. <<Cons(item, Front(ctx)), r[2], ctx>> \in DeepMerges
      BY <1>4, <1>8, <3>2, <3>3 DEF DeepMerges
    <3>5. Push(r[2], ctx) = Cons(item, Front(ctx))
      BY <1>8, <2>2, <3>2 DEF Push, has_context_item, Front
    <3>6. QED
      BY <1>8, <3>4, <3>5 DEF Finished
  <2>3. QED
    BY <2>1, <2>2
<1>9. QED
  BY <1>5, <1>6, <1>7, <1>8 DEF has_context_item

(* merge derives nothing but what the closed form Push says, in any order   *)
(* of the rules, for any program, k and combination of the dropping options,*)
(* and when the rules have ended it has derived that for every reachable    *)
(* call and calling context: assert_reachable_calls_have_contexts.          *)
THEOREM MergesArePushes == Spec => []MergeIsPush
<1>1. IInv /\ Supported => MergeIsPush
  BY FinishedMerges DEF IInv, OnlyPushes, MergeIsPush
<1>2. QED
  BY <1>1, Invariance, SupportedInvariance, PTL

(* context_depth and drop_last never hold a wrong value for a context, and  *)
(* when the rules have ended they hold the right one for every context.     *)
THEOREM DepthAndDropLastCorrect == Spec => []DepthAndDropLastExact
<1>1. IInv /\ Supported => DepthAndDropLastExact
  BY FinishedTotal DEF IInv, FactsExact, DepthAndDropLastExact, Front
<1>2. QED
  BY <1>1, Invariance, SupportedInvariance, PTL
=============================================================================
