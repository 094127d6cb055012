---------------------------- MODULE ContextFree -----------------------------
(***************************************************************************)
(* What the points-to analysis promises whatever the contexts are: a flow  *)
(* is found along the instructions of reachable functions and along edges  *)
(* of the call graph only.  The rules of module PointsTo, of facts that    *)
(* have no contexts; a step adds any of the facts that they derive.        *)
(***************************************************************************)
CONSTANTS
  instr_func, Roots, argv_var_points_to, argv_ptr_points_to, alloca_or_malloc,
  assign_instr, inttoptr_instr, store_instr, load_instr, call_instr_fn_target, func_operand,
  type_compatible, call_instr_arg, invoke_instr_arg, func_param, func_returns_value,
  call_assigns_to, func_by_location, constant_in_func, constant_points_to,
  constant_ptr_points_to, ptr_compatible_allocation, alloc_aliases, alloc_matches, atexit,
  cxa_atexit, dtor_receiver, unknown_location

VARIABLES
  reached,          \* functions
  callgraph_edge,   \* <<callee, call>>
  called_at_exit,   \* functions
  var_points_to,    \* <<alloc, var>>
  ptr_points_to     \* <<alloc, baseAlloc>>

vars == <<reached, callgraph_edge, called_at_exit, var_points_to, ptr_points_to>>

Pointees(objs) == { p[1] : p \in { q \in ptr_points_to : q[2] \in objs } }

operand_points_to(operand) ==
  { v[1] : v \in { w \in var_points_to : w[2] = operand } }
  \cup { c[2] : c \in { d \in constant_points_to :
           d[1] = operand /\ \E f \in reached : <<operand, f>> \in constant_in_func } }

FunctionsAt(objs) == { l[2] : l \in { m \in func_by_location : m[1] \in objs } }

Reachable(instrs) == { i \in instrs : i.func \in reached }
CallsOf(funcs) == { e[2] : e \in { d \in callgraph_edge : d[1] \in funcs } }
Args(args, call, index) == { a[3] : a \in { b \in args : b[1] = call /\ b[2] = index } }
actual_arg == invoke_instr_arg \cup call_instr_arg

-----------------------------------------------------------------------------
(* The call graph. *)
FunctionFacts ==
  { r[2] : r \in Roots } \cup called_at_exit \cup { e[1] : e \in callgraph_edge }

DirectEdges ==
  { <<t[2], t[1]>> : t \in { u \in call_instr_fn_target : instr_func[u[1]] \in reached } }

IndirectCallees(call, operand) ==
  { f \in FunctionsAt(operand_points_to(operand)) : <<call, f>> \in type_compatible }

IndirectEdges ==
  UNION { { <<f, t[1]>> : f \in IndirectCallees(t[1], t[2]) } :
          t \in { u \in func_operand : instr_func[u[1]] \in reached } }

Registered ==
  UNION { UNION { FunctionsAt(operand_points_to(a)) : a \in Args(actual_arg, call, 0) } :
          call \in CallsOf(atexit) }

(* <<object, its destructor>>, registered together. *)
Destroyed ==
  { <<d[2], d[1]>> : d \in { r \in dtor_receiver :
      \E call \in CallsOf(cxa_atexit) :
        /\ \E a \in Args(call_instr_arg, call, 0) : r[1] \in FunctionsAt(operand_points_to(a))
        /\ \E b \in Args(call_instr_arg, call, 1) : \E o \in operand_points_to(b) :
             <<r[2], o>> \in alloc_aliases } }

-----------------------------------------------------------------------------
(* <<to, from>>: of a value, an actual argument or a returned value. *)
Assigned == { <<i.to, i.value>> : i \in Reachable(assign_instr) }
Passed(p) ==
  { <<p[3], a[3]>> : a \in { b \in actual_arg : b[2] = p[2] /\ <<p[1], b[1]>> \in callgraph_edge } }
Returned(u) ==
  { <<u[2], r[2]>> : r \in { s \in func_returns_value : <<s[1], u[1]>> \in callgraph_edge } }
Copies ==
  UNION ({Assigned} \cup { Passed(p) : p \in func_param } \cup { Returned(u) : u \in call_assigns_to })

(* What the destructors of an object are given. *)
Receives(d) == { <<d[1], p[3]>> : p \in { q \in func_param : q[1] = d[2] /\ q[2] = 0 } }

VarFacts ==
  { <<i.alloc, i.to>> : i \in Reachable(alloca_or_malloc) }
  \cup { <<a[2], a[1]>> : a \in argv_var_points_to }
  \cup { <<unknown_location, i.to>> : i \in Reachable(inttoptr_instr) }
  \cup UNION ({ operand_points_to(c[2]) \X {c[1]} : c \in Copies } \cup { Receives(d) : d \in Destroyed })

(* Loads also read the more specific allocations that match. *)
Loaded(objs) == Pointees(objs \cup { m[1] : m \in { n \in alloc_matches : n[2] \in objs } })

LoadFacts ==
  UNION { Loaded(operand_points_to(i.address)) \X {i.to} : i \in Reachable(load_instr) }

Stored(i) ==
  operand_points_to(i.value) \X (operand_points_to(i.address) \cap ptr_compatible_allocation)

PtrFacts ==
  { <<c[1], c[2]>> : c \in constant_ptr_points_to }
  \cup { <<a[2], a[1]>> : a \in argv_ptr_points_to }
  \cup { <<unknown_location, unknown_location>> }
  \cup UNION { Stored(i) : i \in Reachable(store_instr) }

(* What aliases and matching allocations share. *)
Renamed(p) == { <<p[1], a[1]>> : a \in { b \in alloc_aliases \cup alloc_matches : b[2] = p[2] } }
Retargeted(p) == { <<a[1], p[2]>> : a \in { b \in alloc_aliases : b[2] = p[1] } }
SharedFacts == UNION { Renamed(p) \cup Retargeted(p) : p \in ptr_points_to }

-----------------------------------------------------------------------------
Init ==
  /\ reached = {} /\ callgraph_edge = {} /\ called_at_exit = {}
  /\ var_points_to = {} /\ ptr_points_to = {}

(* known grows by facts. *)
Adds(known, new, facts) == known \subseteq new /\ new \subseteq known \cup facts

Derives ==
  /\ Adds(reached, reached', FunctionFacts)
  /\ Adds(callgraph_edge, callgraph_edge', DirectEdges \cup IndirectEdges)
  /\ Adds(called_at_exit, called_at_exit', Registered \cup { d[2] : d \in Destroyed })
  /\ Adds(var_points_to, var_points_to', VarFacts \cup LoadFacts)
  /\ Adds(ptr_points_to, ptr_points_to', PtrFacts \cup SharedFacts)

Spec == Init /\ [][Derives]_vars
=============================================================================
