----------------------------- MODULE ContextOps -----------------------------
(***************************************************************************)
(* Calling contexts as values: their representation, the options that      *)
(* choose their items and their depth, the contexts of the call graph      *)
(* roots, and Push, the function that the merge relation computes          *)
(* (datalog/context/interface.dl).                                         *)
(*                                                                         *)
(* A Context is a cons list of context items, most recent call first; nil  *)
(* is the empty sequence.                                                  *)
(***************************************************************************)
EXTENDS Naturals, Sequences

CONSTANTS
  CallBase,           \* call and invoke instructions
  Function,           \* function names
  instr_func,         \* the function each call is in
  Sensitivities,      \* the context sensitivities considered
  MaxContextDepths,   \* the k of the k-callsite and k-caller options considered
  OneCallsite,        \* calls of a function that has exactly one call site
  NoPointers          \* calls whose declared type passes and returns no pointers

(* The option strings are "insensitive", "1-callsite" .. "9-callsite" and   *)
(* "1-caller" .. "9-caller".                                                *)
ASSUME ContextOpsAssumption ==
  /\ instr_func \in [CallBase -> Function]
  /\ Sensitivities \subseteq {"insensitive", "callsite", "caller"}
  /\ MaxContextDepths \subseteq Nat \ {0}
  /\ OneCallsite \subseteq CallBase
  /\ NoPointers \subseteq CallBase

VARIABLE options      \* context_sensitivity and the two drop_redundant_ options

Options ==
  [ sensitivity : Sensitivities,
    max_context_depth : MaxContextDepths,
    drop_items : BOOLEAN,
    drop_contexts : BOOLEAN ]

-----------------------------------------------------------------------------
main_item == "<<main-context>>"
startup_item == "<<startup-context>>"
exit_item == "<<exit_context>>"

ContextItem == CallBase \cup Function \cup {main_item, startup_item, exit_item}

Context == Seq(ContextItem)

nil == << >>
Cons(head, tail) == <<head>> \o tail

main_context == Cons(main_item, nil)
startup_context == Cons(startup_item, nil)
exit_context == Cons(exit_item, nil)

-----------------------------------------------------------------------------
insensitive == options.sensitivity = "insensitive"

drop_context_item_by_invoc(call) == options.drop_items /\ call \in OneCallsite
drop_context_by_invoc(call) == options.drop_contexts /\ call \in NoPointers

has_context_item(call) ==
  ~ drop_context_by_invoc(call) /\ ~ drop_context_item_by_invoc(call)

context_item_by_invoc(call) ==
  IF options.sensitivity = "caller" THEN instr_func[call] ELSE call

(* The contexts in which the roots of the call graph are reachable. *)
root_context(root) ==
  CASE root = "library" \/ insensitive -> nil
    [] root = "main" /\ ~ insensitive -> main_context
    [] root = "startup" /\ ~ insensitive -> startup_context
    [] root = "exit" /\ ~ insensitive -> exit_context

(* The reference: the k most recent items, counting neither dropped items   *)
(* nor anything before a dropped context.                                   *)
Push(call, ctx) ==
  IF insensitive THEN ctx
  ELSE IF drop_context_by_invoc(call) THEN nil
  ELSE IF drop_context_item_by_invoc(call) THEN ctx
  ELSE Cons(context_item_by_invoc(call),
            IF Len(ctx) < options.max_context_depth THEN ctx
            ELSE SubSeq(ctx, 1, options.max_context_depth - 1))
=============================================================================
