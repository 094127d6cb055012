------------------------------ MODULE PointsTo ------------------------------
(***************************************************************************)
(* The subset-based (Andersen-style) points-to analysis with its call      *)
(* graph: datalog/points-to/{core,subset,interprocedural,assignment,       *)
(* allocations,argv,at-exit}.dl.                                           *)
(*                                                                         *)
(* The program under analysis is given by the relations that the schema    *)
(* rules extract from the fact files.  Each rule (or group of rules with   *)
(* one head and one kind of instruction) is an action that adds what it    *)
(* derives from the present state.  merge is taken in the closed form      *)
(* Push: that the rules for merge compute Push and leave no reachable call *)
(* without a context is what module Contexts is about.                     *)
(***************************************************************************)
EXTENDS ContextOps

CONSTANTS
  Variable, Constant, Allocation,
  variable_in_func,
  Roots,                 \* <<kind, func>>: main, startup and library entry points
  argv_var_points_to,    \* <<var, alloc>>: main's second parameter and *argv-alloc*
  argv_ptr_points_to,    \* <<from, to>>: the elements of argv
  alloca_or_malloc,      \* [func, to, alloc]: stack and heap allocations
  assign_instr,          \* [func, to, value]: bitcast, ptrtoint, phi, select
  inttoptr_instr,        \* [func, to]
  store_instr,           \* [func, value, address]
  load_instr,            \* [func, to, address]
  call_instr_fn_target,  \* <<call, func>>: direct calls and invokes
  func_operand,          \* <<call, operand>>: of indirect calls and of invokes
  type_compatible,       \* <<call, func>>: callees of a compatible type
  call_instr_arg,        \* <<call, index, operand>>
  invoke_instr_arg,      \* <<invoke, index, operand>>
  func_param,            \* <<func, index, var>>
  func_returns_value,    \* <<func, operand>>
  call_assigns_to,       \* <<call, var>>
  func_by_location,      \* <<alloc, func>>
  constant_in_func,      \* <<constant, func>>
  constant_points_to,    \* <<constant, alloc>>
  constant_ptr_points_to,     \* <<to, from>>: global initializers
  ptr_compatible_allocation,  \* allocations that may be stored to
  alloc_aliases,         \* <<alloc1, alloc2>>
  alloc_matches,         \* <<specific, generic>>
  atexit,                \* the functions named @atexit
  cxa_atexit,            \* the functions that are __cxa_atexit
  dtor_receiver,         \* <<func, alloc>>: global objects of the type func destroys
  unknown_location

Operand == Variable \cup Constant

ASSUME ProgramAssumption ==
  /\ Variable \cap Constant = {}
  /\ Roots \subseteq {"main", "startup", "library"} \X Function
  /\ argv_var_points_to \subseteq Variable \X Allocation
  /\ argv_ptr_points_to \subseteq Allocation \X Allocation
  /\ alloca_or_malloc \subseteq [func : Function, to : Variable, alloc : Allocation]
  /\ assign_instr \subseteq [func : Function, to : Variable, value : Operand]
  /\ inttoptr_instr \subseteq [func : Function, to : Variable]
  /\ store_instr \subseteq [func : Function, value : Operand, address : Operand]
  /\ load_instr \subseteq [func : Function, to : Variable, address : Operand]
  /\ call_instr_fn_target \subseteq CallBase \X Function
  /\ func_operand \subseteq CallBase \X Operand
  /\ type_compatible \subseteq CallBase \X Function
  /\ call_instr_arg \subseteq CallBase \X Nat \X Operand
  /\ invoke_instr_arg \subseteq CallBase \X Nat \X Operand
  /\ func_param \subseteq Function \X Nat \X Variable
  /\ func_returns_value \subseteq Function \X Operand
  /\ call_assigns_to \subseteq CallBase \X Variable
  /\ func_by_location \subseteq Allocation \X Function
  /\ constant_in_func \subseteq Constant \X Function
  /\ constant_points_to \subseteq Constant \X Allocation
  /\ constant_ptr_points_to \subseteq Allocation \X Allocation
  /\ ptr_compatible_allocation \subseteq Allocation
  /\ alloc_matches \subseteq Allocation \X Allocation
  /\ atexit \subseteq Function /\ cxa_atexit \subseteq Function
  /\ dtor_receiver \subseteq Function \X Allocation
  /\ unknown_location \in Allocation

(* Aliases are different names of one place. *)
ASSUME AliasAssumption ==
  /\ alloc_aliases \subseteq Allocation \X Allocation
  /\ \A x \in Allocation : <<x, x>> \in alloc_aliases
  /\ \A x, y \in Allocation : <<x, y>> \in alloc_aliases => <<y, x>> \in alloc_aliases
  /\ \A x, y, z \in Allocation :
       <<x, y>> \in alloc_aliases /\ <<y, z>> \in alloc_aliases => <<x, z>> \in alloc_aliases

(* Variables are local to a function, and so are constants: a constant is    *)
(* numbered anew for every instruction that it occurs in.                   *)
InFunction(operand, func) ==
  /\ operand \in Variable => variable_in_func[operand] = func
  /\ \A f \in Function : <<operand, f>> \in constant_in_func => f = func

ASSUME LocalityAssumption ==
  /\ variable_in_func \in [Variable -> Function]
  /\ \A i \in alloca_or_malloc \cup assign_instr \cup inttoptr_instr \cup load_instr :
       InFunction(i.to, i.func)
  /\ \A i \in assign_instr : InFunction(i.value, i.func)
  /\ \A p \in func_param : InFunction(p[3], p[1])
  /\ \A t \in call_assigns_to : InFunction(t[2], instr_func[t[1]])
  /\ \A a \in argv_var_points_to : <<"main", variable_in_func[a[1]]>> \in Roots

VARIABLES
  reachable_context,  \* <<ctx, func>>
  callgraph_edge,     \* <<calleeCtx, callee, callerCtx, call>>
  called_at_exit,     \* functions
  var_points_to,      \* <<aCtx, alloc, ctx, var>>
  ptr_points_to       \* <<aCtx, alloc, baseACtx, baseAlloc>>

callgraph == <<reachable_context, callgraph_edge, called_at_exit>>
vars == <<options, callgraph, var_points_to, ptr_points_to>>

TypeOK ==
  /\ options \in Options
  /\ reachable_context \subseteq Context \X Function
  /\ callgraph_edge \subseteq Context \X Function \X Context \X CallBase
  /\ called_at_exit \subseteq Function
  /\ var_points_to \subseteq Context \X Allocation \X Context \X Variable
  /\ ptr_points_to \subseteq Context \X Allocation \X Context \X Allocation

-----------------------------------------------------------------------------
(* The contexts in which a function is reachable, and reachable_func. *)
ContextsOf(func) == { r[1] : r \in { q \in reachable_context : q[2] = func } }
reachable_func(func) == ContextsOf(func) # {}

(* operand_points_to: <<aCtx, alloc>> *)
operand_points_to(ctx, operand) ==
  { <<v[1], v[2]>> : v \in { w \in var_points_to : w[3] = ctx /\ w[4] = operand } }
  \cup { <<nil, c[2]>> : c \in { d \in constant_points_to :
           /\ d[1] = operand
           /\ \E f \in Function : <<d[1], f>> \in constant_in_func /\ ctx \in ContextsOf(f) } }

(* What base may point to: <<aCtx, alloc>> *)
Pointees(base) ==
  { <<p[1], p[2]>> : p \in { q \in ptr_points_to : <<q[3], q[4]>> = base } }

actual_arg == invoke_instr_arg \cup call_instr_arg

(* The interprocedural assignments of call graph edge e, <<ctx, var, ctx,   *)
(* operand>>: of actual arguments to parameters and of returned values.     *)
Passed(e) ==
  UNION { { <<e[1], p[3], e[3], a[3]>> :
              a \in { b \in actual_arg : b[1] = e[4] /\ b[2] = p[2] } } :
          p \in { q \in func_param : q[1] = e[2] } }

(* Definitions named with "Slip" are not part of the model: each is a        *)
(* plausible mistake in the definition that follows it.                     *)
ReturnedSlip(e) ==
  UNION { { <<e[1], t[2], e[1], r[2]>> : r \in { s \in func_returns_value : s[1] = e[2] } } :
          t \in { u \in call_assigns_to : u[1] = e[4] } }

Returned(e) ==
  UNION { { <<e[3], t[2], e[1], r[2]>> : r \in { s \in func_returns_value : s[1] = e[2] } } :
          t \in { u \in call_assigns_to : u[1] = e[4] } }

interp_assignment(e) == Passed(e) \cup Returned(e)

VarFacts(objs, ctx, var) == { <<o[1], o[2], ctx, var>> : o \in objs }
PtrFacts(objs, bases) == UNION { { <<o[1], o[2], b[1], b[2]>> : o \in objs } : b \in bases }

(* The functions that objs contain. *)
FunctionsAt(objs) ==
  { l[2] : l \in { m \in func_by_location : \E o \in objs : o[2] = m[1] } }

-----------------------------------------------------------------------------
(* reachable_context *)
RootFacts ==
  { <<root_context(r[1]), r[2]>> : r \in Roots }
  \cup { <<root_context("exit"), f>> : f \in called_at_exit }

CalleeFacts == { <<e[1], e[2]>> : e \in callgraph_edge }

(* callgraph_edge *)
EdgesFrom(call, ctx, callees) == { <<Push(call, ctx), f, ctx, call>> : f \in callees }

DirectEdges ==
  UNION { UNION { EdgesFrom(t[1], ctx, {t[2]}) : ctx \in ContextsOf(instr_func[t[1]]) } :
          t \in call_instr_fn_target }

IndirectCallees(call, ctx, operand) ==
  { f \in FunctionsAt(operand_points_to(ctx, operand)) : <<call, f>> \in type_compatible }

IndirectEdges ==
  UNION { UNION { EdgesFrom(t[1], ctx, IndirectCallees(t[1], ctx, t[2])) :
                  ctx \in ContextsOf(instr_func[t[1]]) } :
          t \in func_operand }

(* called_at_exit *)
CallsOf(funcs) == { e \in callgraph_edge : e[2] \in funcs }
Args(args, call, index) == { a[3] : a \in { b \in args : b[1] = call /\ b[2] = index } }

Registered ==
  UNION { UNION { FunctionsAt(operand_points_to(e[3], a)) : a \in Args(actual_arg, e[4], 0) } :
          e \in CallsOf(atexit) }

(* _dtor_accepts_recv: <<aCtx, recvObj, dtor>>, for calls but not invokes of *)
(* __cxa_atexit.                                                            *)
dtor_accepts_recv ==
  UNION { UNION { UNION {
    { <<o[1], d[2], d[1]>> : d \in { r \in dtor_receiver :
         /\ r[1] \in FunctionsAt(operand_points_to(e[3], a))
         /\ <<r[2], o[2]>> \in alloc_aliases } } :
    o \in UNION { operand_points_to(e[3], b) : b \in Args(call_instr_arg, e[4], 1) } } :
    a \in Args(call_instr_arg, e[4], 0) } :
    e \in CallsOf(cxa_atexit) }

-----------------------------------------------------------------------------
(* The instructions of reachable functions, each with a context in which it *)
(* is reachable (reachable_load, reachable_store).                          *)
Sites(instrs) == UNION { { <<ctx, i>> : ctx \in ContextsOf(i.func) } : i \in instrs }

(* var_points_to.  An instruction that copies a value does so in every      *)
(* context in which the value points to something, once its function is     *)
(* reachable in any.                                                        *)
KnownContexts == { v[3] : v \in var_points_to } \cup { r[1] : r \in reachable_context }

AllocatedFactsSlip == { <<nil, s[2].alloc, s[1], s[2].to>> : s \in Sites(alloca_or_malloc) }
AllocatedFacts == { <<s[1], s[2].alloc, s[1], s[2].to>> : s \in Sites(alloca_or_malloc) }

ArgvFacts == { <<nil, a[2], main_context, a[1]>> : a \in argv_var_points_to }

AssignFacts ==
  UNION { VarFacts(operand_points_to(ctx, i.value), ctx, i.to) :
          ctx \in KnownContexts, i \in { j \in assign_instr : reachable_func(j.func) } }

IntToPtrFacts == { <<nil, unknown_location, s[1], s[2].to>> : s \in Sites(inttoptr_instr) }

InterpFactsSlip ==
  UNION { VarFacts(operand_points_to(t[1], t[4]), t[1], t[2]) :
          t \in UNION { interp_assignment(e) : e \in callgraph_edge } }

InterpFacts ==
  UNION { VarFacts(operand_points_to(t[3], t[4]), t[1], t[2]) :
          t \in UNION { interp_assignment(e) : e \in callgraph_edge } }

Loaded(ctx, address) == UNION { Pointees(o) : o \in operand_points_to(ctx, address) }

LoadFacts ==
  UNION { VarFacts(Loaded(s[1], s[2].address), s[1], s[2].to) : s \in Sites(load_instr) }

(* The more specific allocations that match what is loaded from. *)
LoadedMatching(ctx, address) ==
  UNION { UNION { Pointees(<<o[1], m[1]>>) : m \in { n \in alloc_matches : n[2] = o[2] } } :
          o \in operand_points_to(ctx, address) }

LoadMatchFacts ==
  UNION { VarFacts(LoadedMatching(s[1], s[2].address), s[1], s[2].to) :
          s \in Sites(load_instr) }

AtExitFacts ==
  UNION { { <<d[1], d[2], exit_context, p[3]>> :
              p \in { q \in func_param : q[1] = d[3] /\ q[2] = 0 } } :
          d \in { e \in dtor_accepts_recv : exit_context \in ContextsOf(e[3]) } }

(* ptr_points_to *)
InitialFacts ==
  { <<nil, c[1], nil, c[2]>> : c \in constant_ptr_points_to }
  \cup { <<nil, a[2], nil, a[1]>> : a \in argv_ptr_points_to }
  \cup { <<nil, unknown_location, nil, unknown_location>> }

StoreFactsSlip ==
  UNION { PtrFacts({ o \in operand_points_to(s[1], s[2].address) :
                       o[2] \in ptr_compatible_allocation },
                   operand_points_to(s[1], s[2].value)) :
          s \in Sites(store_instr) }

StoreFacts ==
  UNION { PtrFacts(operand_points_to(s[1], s[2].value),
                   { o \in operand_points_to(s[1], s[2].address) :
                       o[2] \in ptr_compatible_allocation }) :
          s \in Sites(store_instr) }

AliasBaseFacts ==
  UNION { { <<p[1], p[2], p[3], a[1]>> : a \in { b \in alloc_aliases : b[2] = p[4] } } :
          p \in ptr_points_to }

AliasTargetFacts ==
  UNION { { <<p[1], a[1], p[3], p[4]>> : a \in { b \in alloc_aliases : b[2] = p[2] } } :
          p \in ptr_points_to }

MatchFacts ==
  UNION { { <<p[1], p[2], p[3], m[1]>> : m \in { n \in alloc_matches : n[2] = p[4] } } :
          p \in ptr_points_to }

-----------------------------------------------------------------------------
Init ==
  /\ options \in Options
  /\ reachable_context = {}
  /\ callgraph_edge = {}
  /\ called_at_exit = {}
  /\ var_points_to = {}
  /\ ptr_points_to = {}

Reach(facts) ==
  /\ reachable_context' = reachable_context \cup facts
  /\ UNCHANGED <<options, callgraph_edge, called_at_exit, var_points_to, ptr_points_to>>

AddEdges(edges) ==
  /\ callgraph_edge' = callgraph_edge \cup edges
  /\ UNCHANGED <<options, reachable_context, called_at_exit, var_points_to, ptr_points_to>>

CallAtExitSlip ==
  /\ called_at_exit' = called_at_exit \cup Registered
  /\ UNCHANGED <<options, reachable_context, callgraph_edge, var_points_to, ptr_points_to>>

CallAtExit ==
  /\ called_at_exit' = called_at_exit \cup Registered \cup { d[3] : d \in dtor_accepts_recv }
  /\ UNCHANGED <<options, reachable_context, callgraph_edge, var_points_to, ptr_points_to>>

VarPointsTo(facts) ==
  /\ var_points_to' = var_points_to \cup facts
  /\ UNCHANGED <<options, callgraph, ptr_points_to>>

PtrPointsTo(facts) ==
  /\ ptr_points_to' = ptr_points_to \cup facts
  /\ UNCHANGED <<options, callgraph, var_points_to>>

Rules ==
  \/ Reach(RootFacts)
  \/ Reach(CalleeFacts)
  \/ AddEdges(DirectEdges)
  \/ AddEdges(IndirectEdges)
  \/ CallAtExit
  \/ VarPointsTo(AllocatedFacts)
  \/ VarPointsTo(ArgvFacts)
  \/ VarPointsTo(AssignFacts)
  \/ VarPointsTo(IntToPtrFacts)
  \/ VarPointsTo(InterpFacts)
  \/ VarPointsTo(LoadFacts)
  \/ VarPointsTo(LoadMatchFacts)
  \/ VarPointsTo(AtExitFacts)
  \/ PtrPointsTo(InitialFacts)
  \/ PtrPointsTo(StoreFacts)
  \/ PtrPointsTo(AliasBaseFacts)
  \/ PtrPointsTo(AliasTargetFacts)
  \/ PtrPointsTo(MatchFacts)

Next == Rules

Spec == Init /\ [][Next]_vars

(* Souffle applies the rules of the stratum until none adds a tuple. *)
FairSpec == Spec /\ WF_vars(Rules)

(* An iteration of the loop that Souffle makes of the stratum: every rule is *)
(* applied to what the iterations before it have derived.                   *)
Round ==
  /\ UNCHANGED options
  /\ reachable_context' = reachable_context \cup RootFacts \cup CalleeFacts
  /\ callgraph_edge' = callgraph_edge \cup DirectEdges \cup IndirectEdges
  /\ called_at_exit' = called_at_exit \cup Registered \cup { d[3] : d \in dtor_accepts_recv }
  /\ var_points_to' = var_points_to \cup AllocatedFacts \cup ArgvFacts \cup AssignFacts
       \cup IntToPtrFacts \cup InterpFacts \cup LoadFacts \cup LoadMatchFacts \cup AtExitFacts
  /\ ptr_points_to' = ptr_points_to \cup InitialFacts \cup StoreFacts \cup AliasBaseFacts
       \cup AliasTargetFacts \cup MatchFacts

Fixpoint ==
  /\ RootFacts \cup CalleeFacts \subseteq reachable_context
  /\ DirectEdges \cup IndirectEdges \subseteq callgraph_edge
  /\ Registered \cup { d[3] : d \in dtor_accepts_recv } \subseteq called_at_exit
  /\ AllocatedFacts \cup ArgvFacts \cup AssignFacts \cup IntToPtrFacts \cup InterpFacts
       \cup LoadFacts \cup LoadMatchFacts \cup AtExitFacts \subseteq var_points_to
  /\ InitialFacts \cup StoreFacts \cup AliasBaseFacts \cup AliasTargetFacts
       \cup MatchFacts \subseteq ptr_points_to

(* What any evaluation strategy may do in a step: add derivable tuples. *)
Derives ==
  /\ UNCHANGED options
  /\ reachable_context \subseteq reachable_context'
  /\ reachable_context' \subseteq reachable_context \cup RootFacts \cup CalleeFacts
  /\ callgraph_edge \subseteq callgraph_edge'
  /\ callgraph_edge' \subseteq callgraph_edge \cup DirectEdges \cup IndirectEdges
  /\ called_at_exit \subseteq called_at_exit'
  /\ called_at_exit' \subseteq called_at_exit \cup Registered \cup { d[3] : d \in dtor_accepts_recv }
  /\ var_points_to \subseteq var_points_to'
  /\ var_points_to' \subseteq var_points_to \cup AllocatedFacts \cup ArgvFacts \cup AssignFacts
       \cup IntToPtrFacts \cup InterpFacts \cup LoadFacts \cup LoadMatchFacts \cup AtExitFacts
  /\ ptr_points_to \subseteq ptr_points_to'
  /\ ptr_points_to' \subseteq ptr_points_to \cup InitialFacts \cup StoreFacts \cup AliasBaseFacts
       \cup AliasTargetFacts \cup MatchFacts

DerivationSpec == Init /\ [][Derives]_vars

-----------------------------------------------------------------------------
(* instr_assigns_to *)
assigned_variable ==
  { i.to : i \in alloca_or_malloc \cup assign_instr \cup inttoptr_instr \cup load_instr }
  \cup { t[2] : t \in call_assigns_to }

(* assert_var_points_to_implies_reachable: the result of an instruction has *)
(* points-to facts only in contexts in which its function is reachable, or  *)
(* about to be, which in the end is the same.  It is what allows            *)
(* AssignFacts to leave out the test for reachable_context.                 *)
VarPointsToImpliesReachable ==
  \A v \in var_points_to : v[4] \in assigned_variable =>
    <<v[3], variable_in_func[v[4]]>> \in reachable_context \cup RootFacts \cup CalleeFacts

(* The contexts of allocations: alloc_with_ctx without subregions. *)
alloc_with_ctx ==
  { <<s[1], s[2].alloc>> : s \in Sites(alloca_or_malloc) }
  \cup { <<nil, c[2]>> : c \in constant_points_to \cup argv_var_points_to \cup argv_ptr_points_to }
  \cup { <<nil, c[1]>> : c \in constant_ptr_points_to }
  \cup { <<nil, unknown_location>> }

(* assert_alloc_with_ctx_complete: whatever is pointed to was allocated by  *)
(* an instruction that is reachable in its context, or is static.           *)
AllocWithCtxComplete ==
  /\ \A v \in var_points_to : \E o \in alloc_with_ctx :
       o[1] = v[1] /\ <<v[2], o[2]>> \in alloc_aliases
  /\ \A p \in ptr_points_to : \E o \in alloc_with_ctx :
       o[1] = p[1] /\ <<p[2], o[2]>> \in alloc_aliases

(* The evaluation ends. *)
Settles == <>[]Fixpoint
=============================================================================
