------------------------------ MODULE Contexts ------------------------------
(***************************************************************************)
(* The construction of calling contexts by the rules of                    *)
(* datalog/context/interface.dl.                                           *)
(*                                                                         *)
(* The relations only grow.  Each rule is an action that adds everything   *)
(* the rule derives from the present state, so the rules interleave as the *)
(* rules of one Souffle stratum do.  The callgraph, which decides what     *)
(* calls are reachable, is a parameter of the Merge component: here it is  *)
(* an environment that may make any call reachable in any context it has   *)
(* been given.                                                             *)
(***************************************************************************)
EXTENDS ContextOps, FiniteSets

CONSTANTS
  Roots,           \* the kinds of call graph roots that the program has
  MaxReachable     \* bound on the calls the environment makes reachable

ASSUME ContextsAssumption ==
  /\ Roots \subseteq {"main", "startup", "exit", "library"}
  /\ MaxReachable \in Nat

VARIABLES
  context,         \* well-formed contexts
  context_depth,   \* <<n, ctx>>
  drop_last,       \* <<out, in>>
  reachable_call,  \* <<ctx, call>>: _reachable_call
  merge            \* <<newCtx, call, ctx>>

vars == <<options, context, context_depth, drop_last, reachable_call, merge>>

TypeOK ==
  /\ options \in Options
  /\ context \subseteq Context
  /\ context_depth \subseteq Nat \X Context
  /\ drop_last \subseteq Context \X Context
  /\ reachable_call \subseteq Context \X CallBase
  /\ merge \subseteq Context \X CallBase \X Context

-----------------------------------------------------------------------------
CallingContexts == { root_context(r) : r \in Roots } \cup { m[1] : m \in merge }

Init ==
  /\ options \in Options
  /\ context = {nil, main_context, startup_context, exit_context}
  /\ context_depth = {<<0, nil>>}
  /\ drop_last = {}
  /\ reachable_call = {}
  /\ merge = {}

-----------------------------------------------------------------------------
DepthsOf(ctx) == { d[1] : d \in { e \in context_depth : e[2] = ctx } }
DropLastsOf(ctx) == { p[1] : p \in { q \in drop_last : q[2] = ctx } }

(* Each rule has a set of what it derives from the present relations, and an *)
(* action that adds it.  Definitions named with "Slip" are not part of the   *)
(* model: each is a plausible mistake in the definition that follows it.     *)

(* context_depth([head, tail]) = 1 + context_depth(tail) *)
DepthFacts ==
  UNION { { <<1 + n, ctx>> : n \in DepthsOf(Tail(ctx)) } : ctx \in context \ {nil} }

ContextDepth ==
  /\ context_depth' = context_depth \cup DepthFacts
  /\ UNCHANGED <<options, context, drop_last, reachable_call, merge>>

(* drop_last of a context of depth one *)
SingleDrops == { <<nil, d[2]>> : d \in { e \in context_depth : e[1] = 1 } }

DropLastSingle ==
  /\ drop_last' = drop_last \cup SingleDrops
  /\ UNCHANGED <<options, context, context_depth, reachable_call, merge>>

(* The out column of both recursive cases is a context as well. *)
AddDropLast(pairs) ==
  /\ drop_last' = drop_last \cup pairs
  /\ context' = context \cup { p[1] : p \in pairs }
  /\ UNCHANGED <<options, context_depth, reachable_call, merge>>

BaseDrops ==
  { <<Cons(Head(ctx), nil), ctx>> : ctx \in { c \in context : Len(c) = 2 } }

DropLastBase == AddDropLast(BaseDrops)

RecursiveDropsSlip ==
  UNION { { <<Cons(Head(ctx), Cons(Head(Tail(ctx)), dropped)), ctx>> :
              dropped \in DropLastsOf(Tail(ctx)) } :
          ctx \in { c \in context : Len(c) >= 2 } }

RecursiveDrops ==
  UNION { { <<Cons(Head(ctx), Cons(Head(Tail(ctx)), dropped)), ctx>> :
              dropped \in DropLastsOf(Tail(Tail(ctx))) } :
          ctx \in { c \in context : Len(c) >= 2 } }

DropLastRecursive == AddDropLast(RecursiveDrops)

-----------------------------------------------------------------------------
(* The five merge rules; the last two also put the new context in context.  *)
AddMerge(tuples, newContexts) ==
  /\ merge' = merge \cup tuples
  /\ context' = context \cup newContexts
  /\ UNCHANGED <<options, context_depth, drop_last, reachable_call>>

DroppedItemMergesSlip ==
  { <<r[1], r[2], r[1]>> : r \in
      { q \in reachable_call : drop_context_item_by_invoc(q[2]) } }

DroppedItemMerges ==
  { <<r[1], r[2], r[1]>> : r \in
      { q \in reachable_call : /\ drop_context_item_by_invoc(q[2])
                               /\ ~ drop_context_by_invoc(q[2]) } }

MergeDroppedItem == ~ insensitive /\ AddMerge(DroppedItemMerges, {})

DroppedContextMerges ==
  { <<nil, r[2], r[1]>> : r \in
      { q \in reachable_call : drop_context_by_invoc(q[2]) } }

MergeDroppedContext == ~ insensitive /\ AddMerge(DroppedContextMerges, {})

InsensitiveMergesSlip == { <<r[1], r[1], r[2]>> : r \in reachable_call }

InsensitiveMerges == { <<r[1], r[2], r[1]>> : r \in reachable_call }

MergeInsensitive == insensitive /\ AddMerge(InsensitiveMerges, {})

(* The case where the previous context has depth < k *)
ShallowMerges ==
  { <<Cons(context_item_by_invoc(r[2]), r[1]), r[2], r[1]>> : r \in
      { q \in reachable_call :
          /\ has_context_item(q[2])
          /\ \E n \in DepthsOf(q[1]) : n < options.max_context_depth } }

MergeShallow ==
  ~ insensitive /\ AddMerge(ShallowMerges, { m[1] : m \in ShallowMerges })

DeepMergesSlip ==
  UNION { { <<Cons(context_item_by_invoc(r[2]), dropped), r[2], r[1]>> :
              dropped \in DropLastsOf(r[1]) } :
          r \in { q \in reachable_call :
                   /\ has_context_item(q[2])
                   /\ \E n \in DepthsOf(q[1]) : n > options.max_context_depth } }

(* The case where the previous context has depth = k *)
DeepMerges ==
  UNION { { <<Cons(context_item_by_invoc(r[2]), dropped), r[2], r[1]>> :
              dropped \in DropLastsOf(r[1]) } :
          r \in { q \in reachable_call :
                   /\ has_context_item(q[2])
                   /\ options.max_context_depth \in DepthsOf(q[1]) } }

MergeDeep == ~ insensitive /\ AddMerge(DeepMerges, { m[1] : m \in DeepMerges })

(* The callgraph component makes a call reachable, in the context of a root  *)
(* or in one that merge has made for a callee.                               *)
ReachCall(ctx, call) ==
  /\ Cardinality(reachable_call) < MaxReachable
  /\ ctx \in CallingContexts
  /\ reachable_call' = reachable_call \cup {<<ctx, call>>}
  /\ UNCHANGED <<options, context, context_depth, drop_last, merge>>

Rules ==
  \/ ContextDepth
  \/ DropLastSingle
  \/ DropLastBase
  \/ DropLastRecursive
  \/ MergeDroppedItem
  \/ MergeDroppedContext
  \/ MergeInsensitive
  \/ MergeShallow
  \/ MergeDeep

Next ==
  \/ Rules
  \/ \E ctx \in CallingContexts, call \in CallBase : ReachCall(ctx, call)

Spec == Init /\ [][Next]_vars

(* Souffle applies every rule of a stratum until none adds a tuple. *)
FairSpec ==
  /\ Spec
  /\ WF_vars(ContextDepth) /\ WF_vars(DropLastSingle)
  /\ WF_vars(DropLastBase) /\ WF_vars(DropLastRecursive)
  /\ WF_vars(MergeDroppedItem) /\ WF_vars(MergeDroppedContext)
  /\ WF_vars(MergeInsensitive) /\ WF_vars(MergeShallow) /\ WF_vars(MergeDeep)

-----------------------------------------------------------------------------
(* The rules have ended: none of them has anything to add. *)
Finished ==
  /\ DepthFacts \subseteq context_depth
  /\ SingleDrops \cup BaseDrops \cup RecursiveDrops \subseteq drop_last
  /\ { p[1] : p \in BaseDrops \cup RecursiveDrops } \subseteq context
  /\ IF insensitive
     THEN InsensitiveMerges \subseteq merge
     ELSE DroppedItemMerges \cup DroppedContextMerges \cup ShallowMerges \cup DeepMerges
            \subseteq merge

(* merge computes nothing but Push, whatever part of context_depth and      *)
(* drop_last it reads: no call site is ever analysed in a callee context    *)
(* that belongs to another one.  When the rules have ended it has computed  *)
(* Push of every reachable call: this is assert_reachable_calls_have_contexts *)
(* for each calling context and not only for each call.                     *)
MergeIsPush ==
  /\ \A m \in merge : m[1] = Push(m[2], m[3])
  /\ Finished =>
       \A r \in reachable_call : <<Push(r[2], r[1]), r[2], r[1]>> \in merge

(* The k limit holds for all contexts, also for those that exist only       *)
(* because drop_last was computed for them; without it the analysis of a    *)
(* recursive program would not end.                                         *)
DepthBounded ==
  \A ctx \in context :
    Len(ctx) <= IF insensitive THEN 1 ELSE options.max_context_depth

(* Every call that is made reachable gets a callee context sooner or later,  *)
(* so nothing reachable is left unanalysed.                                  *)
EveryCallGetsContext ==
  []<>(\A r \in reachable_call : \E m \in merge : m[2] = r[2] /\ m[3] = r[1])

(* A context never has a depth or a drop_last that is not its own, and when  *)
(* the rules have ended every context has its depth and, unless it is nil,   *)
(* its drop_last: what MergeDeep joins on is a function.                     *)
DepthAndDropLastExact ==
  /\ \A d \in context_depth : d[2] \in context /\ d[1] = Len(d[2])
  /\ \A p \in drop_last :
       p[2] \in context /\ p[2] # nil /\ p[1] = SubSeq(p[2], 1, Len(p[2]) - 1)
  /\ Finished =>
       \A ctx \in context :
         /\ <<Len(ctx), ctx>> \in context_depth
         /\ ctx # nil => <<SubSeq(ctx, 1, Len(ctx) - 1), ctx>> \in drop_last
=============================================================================
