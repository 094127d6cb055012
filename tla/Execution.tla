----------------------------- MODULE Execution -----------------------------
(***************************************************************************)
(* What the points-to analysis is about: executions of the program.        *)
(*                                                                         *)
(* The analysis first runs to its fixpoint, in rounds (PointsTo covers the *)
(* other orders of its rules); then the program runs.  A frame may execute *)
(* any instruction of its function at any time, which covers every control *)
(* flow.  Locations carry the context in which they were allocated and     *)
(* frames the context that Push gives their call chain, so that each fact  *)
(* of an execution can be looked up in the analysis.                       *)
(*                                                                         *)
(* This is the reference against which the rules are judged.  It is not    *)
(* code of the repository but the meaning of the LLVM instructions that    *)
(* the rules abstract; inttoptr, whose rule is marked as incomplete in     *)
(* core.dl, is left out.                                                   *)
(***************************************************************************)
EXTENDS PointsTo

CONSTANTS
  MaxObjects,   \* bound on the objects an execution allocates
  MaxFrames     \* bound on the depth of the stack

ASSUME ExecutionAssumption == MaxObjects \in Nat /\ MaxFrames \in Nat

VARIABLES
  analysed,     \* the rules have been applied until none adds a tuple
  stack,        \* frames, innermost first
  memory,       \* <<location, content>>
  objects,      \* the number of objects allocated so far
  exit_calls    \* <<func, args>>: functions registered to run at exit

machine == <<stack, memory, objects, exit_calls>>

Location == [alloc : Allocation, ctx : Context, id : Nat]
Static(alloc) == [alloc |-> alloc, ctx |-> nil, id |-> 0]
Bindings == SUBSET (Variable \X Location)
Frame == [func : Function, ctx : Context, call : CallBase \cup {"root"}, env : Bindings]

MachineTypeOK ==
  /\ analysed \in BOOLEAN
  /\ stack \in Seq(Frame)
  /\ memory \subseteq Location \X Location
  /\ objects \in Nat
  /\ exit_calls \subseteq Function \X Bindings

-----------------------------------------------------------------------------
(* The value of an operand: what a variable was last set to, or the address *)
(* that a constant stands for.                                              *)
ValuesOf(frame, operand) ==
  { b[2] : b \in { c \in frame.env : c[1] = operand } }
  \cup { Static(c[2]) : c \in { d \in constant_points_to :
           d[1] = operand /\ <<d[1], frame.func>> \in constant_in_func } }

SamePlace(x, y) == x.ctx = y.ctx /\ x.id = y.id /\ <<x.alloc, y.alloc>> \in alloc_aliases

Assigned(env, var, loc) == { b \in env : b[1] # var } \cup {<<var, loc>>}

top == Head(stack)

(* The innermost frame sets var to loc. *)
Set(var, loc) ==
  /\ stack' = <<[top EXCEPT !.env = Assigned(top.env, var, loc)]>> \o Tail(stack)
  /\ UNCHANGED objects /\ UNCHANGED exit_calls

Running(func) == stack # << >> /\ top.func = func

-----------------------------------------------------------------------------
MachineInit ==
  /\ stack = << >>
  /\ memory = { <<Static(c[2]), Static(c[1])>> : c \in constant_ptr_points_to }
              \cup { <<Static(a[1]), Static(a[2])>> : a \in argv_ptr_points_to }
  /\ objects = 0
  /\ exit_calls = {}

(* The run-time system enters the program: main with argv, a function that  *)
(* was registered for exit with its receiver.                               *)
Enter(func, ctx, env) ==
  /\ stack = << >>
  /\ stack' = <<[func |-> func, ctx |-> ctx, call |-> "root", env |-> env]>>
  /\ UNCHANGED <<memory, objects, exit_calls>>

EnterRoot(root) ==
  Enter(root[2], root_context(root[1]),
        IF root[1] = "main" THEN { <<a[1], Static(a[2])>> : a \in argv_var_points_to } ELSE {})

EnterAtExit(exit_call) == Enter(exit_call[1], root_context("exit"), exit_call[2])

Allocate(i) ==
  /\ Running(i.func)
  /\ objects < MaxObjects
  /\ objects' = objects + 1
  /\ LET loc == [alloc |-> i.alloc, ctx |-> top.ctx, id |-> objects + 1]
     IN stack' = <<[top EXCEPT !.env = Assigned(top.env, i.to, loc)]>> \o Tail(stack)
  /\ UNCHANGED <<memory, exit_calls>>

Assign(i) ==
  /\ Running(i.func)
  /\ \E loc \in ValuesOf(top, i.value) : Set(i.to, loc)
  /\ UNCHANGED memory

Load(i) ==
  /\ Running(i.func)
  /\ \E base \in ValuesOf(top, i.address) : \E cell \in memory :
       SamePlace(cell[1], base) /\ Set(i.to, cell[2])
  /\ UNCHANGED memory

(* Only allocations that hold pointers are stored to. *)
Store(i) ==
  /\ Running(i.func)
  /\ \E base \in ValuesOf(top, i.address), loc \in ValuesOf(top, i.value) :
       /\ base.alloc \in ptr_compatible_allocation
       /\ memory' = { cell \in memory : ~ SamePlace(cell[1], base) } \cup {<<base, loc>>}
  /\ UNCHANGED <<stack, objects, exit_calls>>

(* A call binds the parameters that have an argument with a value. *)
Arguments(call, callee) ==
  UNION { UNION { { <<p[3], loc>> : loc \in ValuesOf(top, a) } : a \in Args(actual_arg, call, p[2]) } :
          p \in { q \in func_param : q[1] = callee } }

FunctionsOf(locs) == FunctionsAt({ <<loc.ctx, loc.alloc>> : loc \in locs })
ArgumentValues(args, call, index) == UNION { ValuesOf(top, a) : a \in Args(args, call, index) }

(* atexit registers the function it is given, __cxa_atexit a destructor with *)
(* an object of the class that it destroys.  __cxa_atexit does not throw: it *)
(* is called but not invoked.                                                *)
Handlers(call) == { <<f, {}>> : f \in FunctionsOf(ArgumentValues(actual_arg, call, 0)) }

Receiver(func, loc) ==
  { <<p[3], loc>> : p \in { q \in func_param : q[1] = func /\ q[2] = 0 } }

Destructors(call) ==
  UNION { { <<d[1], Receiver(d[1], [loc EXCEPT !.alloc = d[2]])>> :
              d \in { r \in dtor_receiver : /\ r[1] \in FunctionsOf(ArgumentValues(call_instr_arg, call, 0))
                                            /\ <<r[2], loc.alloc>> \in alloc_aliases } } :
          loc \in ArgumentValues(call_instr_arg, call, 1) }

Call(call, callee) ==
  /\ Running(instr_func[call])
  /\ Len(stack) < MaxFrames
  /\ stack' = <<[func |-> callee, ctx |-> Push(call, top.ctx), call |-> call,
                 env |-> Arguments(call, callee)]>> \o stack
  /\ exit_calls' = exit_calls
       \cup (IF callee \in atexit THEN Handlers(call) ELSE {})
       \cup (IF callee \in cxa_atexit THEN Destructors(call) ELSE {})
  /\ UNCHANGED <<memory, objects>>

DirectCall(t) == Call(t[1], t[2])

IndirectCall(t) ==
  /\ Running(instr_func[t[1]])
  /\ \E callee \in FunctionsOf(ValuesOf(top, t[2])) :
       <<t[1], callee>> \in type_compatible /\ Call(t[1], callee)

(* A frame ends; if it returns loc, the call's variable is set to it. *)
ReturnNothing ==
  /\ stack # << >>
  /\ stack' = Tail(stack)
  /\ UNCHANGED <<memory, objects, exit_calls>>

Return(operand) ==
  /\ Len(stack) > 1
  /\ Running(operand[1])
  /\ \E loc \in ValuesOf(top, operand[2]), t \in call_assigns_to :
       /\ t[1] = top.call
       /\ stack' = <<[stack[2] EXCEPT !.env = Assigned(stack[2].env, t[2], loc)]>>
                   \o Tail(Tail(stack))
  /\ UNCHANGED <<memory, objects, exit_calls>>

Execute ==
  \/ \E root \in Roots : EnterRoot(root)
  \/ \E exit_call \in exit_calls : EnterAtExit(exit_call)
  \/ \E i \in alloca_or_malloc : Allocate(i)
  \/ \E i \in assign_instr : Assign(i)
  \/ \E i \in load_instr : Load(i)
  \/ \E i \in store_instr : Store(i)
  \/ \E t \in call_instr_fn_target : DirectCall(t)
  \/ \E t \in func_operand : IndirectCall(t)
  \/ ReturnNothing
  \/ \E r \in func_returns_value : Return(r)

(* Souffle leaves the stratum and writes its results. *)
FinishAnalysis ==
  /\ Fixpoint
  /\ analysed' = TRUE
  /\ UNCHANGED <<vars, machine>>

ExecutionNext ==
  \/ ~ analysed /\ Round /\ UNCHANGED <<analysed, machine>>
  \/ ~ analysed /\ FinishAnalysis
  \/ analysed /\ Execute /\ UNCHANGED <<vars, analysed>>

ExecutionInit == Init /\ MachineInit /\ analysed = FALSE

ExecutionSpec == ExecutionInit /\ [][ExecutionNext]_<<vars, analysed, machine>>

-----------------------------------------------------------------------------
(* The analysis knows of every frame, of every variable and of every cell.  *)
FrameCovered(frame) ==
  /\ <<frame.ctx, frame.func>> \in reachable_context
  /\ \A b \in frame.env :
       <<b[2].ctx, b[2].alloc, frame.ctx, b[1]>> \in var_points_to

CellCovered(cell) ==
  <<cell[2].ctx, cell[2].alloc, cell[1].ctx, cell[1].alloc>> \in ptr_points_to

(* Soundness: once the rules are exhausted, no execution can reach a        *)
(* function, bind a variable or fill a memory cell in a way that the        *)
(* analysis has not derived.                                                *)
Sound ==
  analysed =>
    /\ \A n \in 1 .. Len(stack) : FrameCovered(stack[n])
    /\ \A cell \in memory : CellCovered(cell)
=============================================================================
