--------------------------- MODULE PointsToProofs ---------------------------
(***************************************************************************)
(* For every program and every order in which the rules are applied: what  *)
(* the repository asserts of the points-to facts holds of all of them.     *)
(*                                                                         *)
(* Everything is proved of Derives, which lets a step add any derivable    *)
(* tuples, so that it holds of single rules and of Souffle's rounds alike. *)
(* Then, that contexts only add precision, and that the result is sound.   *)
(***************************************************************************)
EXTENDS Execution, StripCtx, SequenceTheorems, TLAPS

VarFact == Context \X Allocation \X Context \X Variable
PtrFact == Context \X Allocation \X Context \X Allocation
Edge == Context \X Function \X Context \X CallBase

AllVarFacts ==
  AllocatedFacts \cup ArgvFacts \cup AssignFacts \cup IntToPtrFacts \cup InterpFacts
    \cup LoadFacts \cup LoadMatchFacts \cup AtExitFacts
AllPtrFacts ==
  InitialFacts \cup StoreFacts \cup AliasBaseFacts \cup AliasTargetFacts \cup MatchFacts

(* An object that was allocated, up to aliases. *)
HasOrigin(aCtx, alloc) ==
  \E o \in alloc_with_ctx : o[1] = aCtx /\ <<alloc, o[2]>> \in alloc_aliases

IInv == TypeOK /\ AllocWithCtxComplete

-----------------------------------------------------------------------------
(* Contexts are lists of context items, and pushing keeps them so.         *)

(* nil is a context without items, and the only one. *)
LEMMA NilContext ==
  /\ nil \in Context
  /\ Len(nil) = 0
  /\ \A c \in Context : Len(c) \in Nat /\ (c # nil => Len(c) \in Nat \ {0})
<1>1. \A c \in Context : Len(c) \in Nat
  BY LenProperties DEF Context
<1>2. nil \in Context /\ Len(nil) = 0
  BY EmptySeq DEF Context, nil
<1>3. \A c \in Seq(ContextItem) : c # << >> => Len(c) \in Nat \ {0}
  BY EmptySeq
<1>4. QED
  BY <1>1, <1>2, <1>3 DEF Context, nil

(* A cons cell is a context one deeper than its tail. *)
LEMMA ConsContext ==
  ASSUME NEW h \in ContextItem, NEW t \in Context
  PROVE  /\ Cons(h, t) \in Context
         /\ Len(Cons(h, t)) = Len(t) + 1
         /\ Cons(h, t)[1] = h
         /\ \A i \in 1 .. Len(t) : Cons(h, t)[i + 1] = t[i]
<1> USE DEF Context
<1>1. <<h>> \in Seq(ContextItem) /\ Len(<<h>>) = 1 /\ <<h>>[1] = h
  OBVIOUS
<1>2. /\ <<h>> \o t \in Seq(ContextItem)
      /\ Len(<<h>> \o t) = 1 + Len(t)
      /\ \A i \in 1 .. 1 + Len(t) : (<<h>> \o t)[i] = IF i <= 1 THEN h ELSE t[i - 1]
  BY <1>1, ConcatProperties
<1>3. Len(t) \in Nat
  BY LenProperties
<1>4. QED
  BY <1>2, <1>3 DEF Cons

(* The contexts of the call graph roots are one deep at most. *)
LEMMA RootContexts ==
  /\ main_context \in Context /\ Len(main_context) = 1
  /\ startup_context \in Context /\ Len(startup_context) = 1
  /\ exit_context \in Context /\ Len(exit_context) = 1
<1>1. main_item \in ContextItem /\ startup_item \in ContextItem /\ exit_item \in ContextItem
  BY DEF ContextItem
<1>2. nil \in Context /\ Len(nil) = 0
  BY NilContext
<1>3. \A h \in ContextItem : Cons(h, nil) \in Context /\ Len(Cons(h, nil)) = 0 + 1
  BY <1>2, ConsContext
<1>4. QED
  BY <1>1, <1>3 DEF main_context, startup_context, exit_context

(* The contexts in which the roots of the call graph are reachable. *)
LEMMA RootContextType ==
  ASSUME NEW root \in {"main", "startup", "library", "exit"}
  PROVE  root_context(root) \in Context
  BY NilContext, RootContexts DEF root_context

(* The item that a call contributes is a context item. *)
LEMMA ItemOfCall ==
  ASSUME NEW call \in CallBase
  PROVE  context_item_by_invoc(call) \in ContextItem
  BY ContextOpsAssumption DEF context_item_by_invoc, ContextItem

(* Pushing a call onto a context makes a context. *)
LEMMA PushContext ==
  ASSUME options \in Options, NEW call \in CallBase, NEW ctx \in Context
  PROVE  Push(call, ctx) \in Context
<1> DEFINE k == options.max_context_depth
           n == k - 1
           item == context_item_by_invoc(call)
           rest == IF Len(ctx) < k THEN ctx ELSE SubSeq(ctx, 1, n)
<1>1. k \in Nat \ {0}
  BY ContextOpsAssumption DEF Options
<1>2. rest \in Context
  <2>1. CASE Len(ctx) < k
    BY <2>1
  <2>2. CASE ~ (Len(ctx) < k)
    <3>1. Len(ctx) \in Nat /\ n \in Nat /\ n \in Int /\ 1 \in Int
      BY <1>1, LenProperties DEF Context
    <3>2. \A i \in 1 .. n : ctx[i] \in ContextItem
      <4>1. \A i \in 1 .. n : i \in 1 .. Len(ctx)
        BY <1>1, <2>2, <3>1
      <4>2. QED
        BY <4>1, ElementOfSeq DEF Context
    <3> HIDE DEF n
    <3>3. SubSeq(ctx, 1, n) \in Seq(ContextItem)
      BY <3>1, <3>2
    <3>4. QED
      BY <2>2, <3>3 DEF Context
  <2>3. QED
    BY <2>1, <2>2
<1>3. Cons(item, rest) \in Context
  <2>1. item \in ContextItem
    BY ItemOfCall
  <2> HIDE DEF item, rest
  <2>2. QED
    BY <1>2, <2>1, ConsContext
<1>4. QED
  BY <1>3, NilContext DEF Push

-----------------------------------------------------------------------------
(* Every rule and every round only adds derivable tuples. *)
LEMMA RulesDerive == Rules => Derives
<1> SUFFICES ASSUME Rules PROVE Derives
  OBVIOUS
<1>1. CASE Reach(RootFacts) \/ Reach(CalleeFacts)
  BY <1>1 DEF Derives, Reach
<1>2. CASE AddEdges(DirectEdges) \/ AddEdges(IndirectEdges)
  BY <1>2 DEF Derives, AddEdges
<1>3. CASE CallAtExit
  BY <1>3 DEF Derives, CallAtExit
<1>4. CASE \/ VarPointsTo(AllocatedFacts) \/ VarPointsTo(ArgvFacts)
           \/ VarPointsTo(AssignFacts) \/ VarPointsTo(IntToPtrFacts)
           \/ VarPointsTo(InterpFacts) \/ VarPointsTo(LoadFacts)
           \/ VarPointsTo(LoadMatchFacts) \/ VarPointsTo(AtExitFacts)
  BY <1>4 DEF Derives, VarPointsTo, callgraph
<1>5. CASE \/ PtrPointsTo(InitialFacts) \/ PtrPointsTo(StoreFacts)
           \/ PtrPointsTo(AliasBaseFacts) \/ PtrPointsTo(AliasTargetFacts)
           \/ PtrPointsTo(MatchFacts)
  BY <1>5 DEF Derives, PtrPointsTo, callgraph
<1>6. QED
  BY <1>1, <1>2, <1>3, <1>4, <1>5 DEF Rules

(* A round derives with all rules at once. *)
LEMMA RoundDerives == Round => Derives
  BY DEF Round, Derives

-----------------------------------------------------------------------------
(* A function is reachable in each of its contexts. *)
LEMMA ContextsReachable ==
  ASSUME TypeOK, NEW func, NEW ctx \in ContextsOf(func)
  PROVE  ctx \in Context /\ func \in Function /\ <<ctx, func>> \in reachable_context
  BY DEF TypeOK, ContextsOf

(* A site is an instruction with a context of its function. *)
LEMMA SitesReachable ==
  ASSUME TypeOK, NEW instrs, NEW s \in Sites(instrs)
  PROVE  /\ s = <<s[1], s[2]>> /\ s[2] \in instrs
         /\ s[1] \in Context /\ <<s[1], s[2].func>> \in reachable_context
<1>1. PICK i \in instrs : \E ctx \in ContextsOf(i.func) : s = <<ctx, i>>
  BY DEF Sites
<1>2. PICK ctx \in ContextsOf(i.func) : s = <<ctx, i>>
  BY <1>1
<1>3. s[1] = ctx /\ s[2] = i /\ s = <<s[1], s[2]>>
  BY <1>2
<1>4. ctx \in Context /\ <<ctx, i.func>> \in reachable_context
  BY ContextsReachable
<1>5. QED
  BY <1>1, <1>3, <1>4

(* A static allocation is its own origin. *)
LEMMA StaticOrigin ==
  ASSUME NEW alloc \in Allocation,
         \/ \E x : <<x, alloc>> \in constant_points_to \cup argv_var_points_to
                                      \cup argv_ptr_points_to
         \/ \E x : <<alloc, x>> \in constant_ptr_points_to
         \/ alloc = unknown_location
  PROVE  HasOrigin(nil, alloc)
<1>1. <<alloc, alloc>> \in alloc_aliases
  BY AliasAssumption
<1>2. <<nil, alloc>> \in alloc_with_ctx
  <2>1. CASE \E x : <<x, alloc>> \in constant_points_to \cup argv_var_points_to
                                       \cup argv_ptr_points_to
    BY <2>1 DEF alloc_with_ctx
  <2>2. CASE \E x : <<alloc, x>> \in constant_ptr_points_to
    BY <2>2 DEF alloc_with_ctx
  <2>3. CASE alloc = unknown_location
    BY <2>3 DEF alloc_with_ctx
  <2>4. QED
    BY <2>1, <2>2, <2>3
<1>3. QED
  BY <1>1, <1>2 DEF HasOrigin

(* An alias of an object with an origin has that origin. *)
LEMMA AliasOrigin ==
  ASSUME NEW aCtx, NEW x \in Allocation, NEW y \in Allocation,
         <<x, y>> \in alloc_aliases, HasOrigin(aCtx, y)
  PROVE  HasOrigin(aCtx, x)
<1>1. PICK o \in alloc_with_ctx : o[1] = aCtx /\ <<y, o[2]>> \in alloc_aliases
  BY DEF HasOrigin
<1>2. o[2] \in Allocation
  BY <1>1, AliasAssumption
<1>3. <<x, o[2]>> \in alloc_aliases
  BY <1>1, <1>2, AliasAssumption
<1>4. QED
  BY <1>1, <1>3 DEF HasOrigin

(* What an operand points to has an origin. *)
LEMMA OperandObjects ==
  ASSUME IInv, NEW ctx, NEW operand, NEW o \in operand_points_to(ctx, operand)
  PROVE  o \in Context \X Allocation /\ HasOrigin(o[1], o[2])
<1>1. CASE \E v \in var_points_to : o = <<v[1], v[2]>>
  BY <1>1 DEF IInv, TypeOK, AllocWithCtxComplete, HasOrigin
<1>2. CASE \E c \in constant_points_to : o = <<nil, c[2]>>
  <2>1. PICK c \in constant_points_to : o = <<nil, c[2]>>
    BY <1>2
  <2>2. c[2] \in Allocation /\ <<c[1], c[2]>> \in constant_points_to
    BY ProgramAssumption
  <2>3. QED
    BY <2>1, <2>2, NilContext, StaticOrigin
<1>3. QED
  BY <1>1, <1>2 DEF operand_points_to

(* So has what memory points to. *)
LEMMA PointeeObjects ==
  ASSUME IInv, NEW base, NEW o \in Pointees(base)
  PROVE  o \in Context \X Allocation /\ HasOrigin(o[1], o[2])
  BY DEF Pointees, IInv, TypeOK, AllocWithCtxComplete, HasOrigin

-----------------------------------------------------------------------------
(* A fact of the right type whose object has an origin. *)
GoodVar(v) == v \in VarFact /\ HasOrigin(v[1], v[2])
GoodPtr(p) == p \in PtrFact /\ HasOrigin(p[1], p[2])

(* Facts about objects with an origin are good. *)
LEMMA VarFactsGood ==
  ASSUME NEW objs, NEW ctx \in Context, NEW var \in Variable,
         \A o \in objs : o \in Context \X Allocation /\ HasOrigin(o[1], o[2]),
         NEW v \in VarFacts(objs, ctx, var)
  PROVE  GoodVar(v)
<1>1. PICK o \in objs : v = <<o[1], o[2], ctx, var>>
  BY DEF VarFacts
<1>2. o[1] \in Context /\ o[2] \in Allocation
  OBVIOUS
<1>3. v \in VarFact /\ v[1] = o[1] /\ v[2] = o[2]
  BY <1>1, <1>2 DEF VarFact
<1>4. QED
  BY <1>3 DEF GoodVar

(* An allocation instruction is the origin of what it allocates. *)
LEMMA AllocatedGood ==
  ASSUME IInv, NEW v \in AllocatedFacts
  PROVE  GoodVar(v)
<1>1. PICK s \in Sites(alloca_or_malloc) : v = <<s[1], s[2].alloc, s[1], s[2].to>>
  BY DEF AllocatedFacts
<1>2. s[2] \in alloca_or_malloc /\ s[1] \in Context
  BY SitesReachable DEF IInv
<1>3. s[2].alloc \in Allocation /\ s[2].to \in Variable
  BY <1>2, ProgramAssumption
<1>4. v \in VarFact /\ v[1] = s[1] /\ v[2] = s[2].alloc
  BY <1>1, <1>2, <1>3 DEF VarFact
<1>5. HasOrigin(s[1], s[2].alloc)
  <2>1. <<s[1], s[2].alloc>> \in alloc_with_ctx
    BY DEF alloc_with_ctx
  <2>2. <<s[2].alloc, s[2].alloc>> \in alloc_aliases
    BY <1>3, AliasAssumption
  <2>3. QED
    BY <2>1, <2>2 DEF HasOrigin
<1>6. QED
  BY <1>4, <1>5 DEF GoodVar

(* argv and inttoptr point to static allocations. *)
LEMMA StaticGood ==
  ASSUME IInv, NEW v \in ArgvFacts \cup IntToPtrFacts
  PROVE  GoodVar(v)
<1>1. CASE v \in ArgvFacts
  <2>1. PICK a \in argv_var_points_to : v = <<nil, a[2], main_context, a[1]>>
    BY <1>1 DEF ArgvFacts
  <2>2. a = <<a[1], a[2]>> /\ a[1] \in Variable /\ a[2] \in Allocation
    BY ProgramAssumption
  <2>3. HasOrigin(nil, a[2])
    BY <2>2, StaticOrigin
  <2>4. v \in VarFact /\ v[1] = nil /\ v[2] = a[2]
    BY <2>1, <2>2, NilContext, RootContexts DEF VarFact
  <2>5. QED
    BY <2>3, <2>4 DEF GoodVar
<1>2. CASE v \in IntToPtrFacts
  <2>1. PICK s \in Sites(inttoptr_instr) : v = <<nil, unknown_location, s[1], s[2].to>>
    BY <1>2 DEF IntToPtrFacts
  <2>2. s[2] \in inttoptr_instr /\ s[1] \in Context
    BY SitesReachable DEF IInv
  <2>3. s[2].to \in Variable /\ unknown_location \in Allocation
    BY <2>2, ProgramAssumption
  <2>4. v \in VarFact /\ v[1] = nil /\ v[2] = unknown_location
    BY <2>1, <2>2, <2>3, NilContext DEF VarFact
  <2>5. QED
    BY <2>3, <2>4, StaticOrigin DEF GoodVar
<1>3. QED
  BY <1>1, <1>2

(* Contexts that have facts or functions are contexts. *)
LEMMA KnownContextType ==
  ASSUME TypeOK
  PROVE  KnownContexts \subseteq Context
  BY DEF TypeOK, KnownContexts

(* Copies within a function. *)
LEMMA AssignGood ==
  ASSUME IInv, NEW v \in AssignFacts
  PROVE  GoodVar(v)
<1>1. PICK ctx \in KnownContexts, i \in assign_instr :
        v \in VarFacts(operand_points_to(ctx, i.value), ctx, i.to)
  BY DEF AssignFacts
<1>2. ctx \in Context
  BY KnownContextType DEF IInv
<1>3. i.to \in Variable
  BY ProgramAssumption
<1>4. QED
  BY <1>1, <1>2, <1>3, OperandObjects, VarFactsGood

(* The edge, parameter and argument, or variable and returned value, that  *)
(* an interprocedural assignment comes from.                                *)
LEMMA InterpAssignments ==
  ASSUME NEW e, NEW t \in interp_assignment(e)
  PROVE  \/ \E p \in func_param : p[1] = e[2] /\ t[1] = e[1] /\ t[2] = p[3] /\ t[3] = e[3]
         \/ \E u \in call_assigns_to : u[1] = e[4] /\ t[1] = e[3] /\ t[2] = u[2] /\ t[3] = e[1]
<1>1. CASE t \in Passed(e)
  BY <1>1 DEF Passed
<1>2. CASE t \in Returned(e)
  BY <1>2 DEF Returned
<1>3. QED
  BY <1>1, <1>2 DEF interp_assignment

(* Copies between functions. *)
LEMMA InterpGood ==
  ASSUME IInv, NEW v \in InterpFacts
  PROVE  GoodVar(v)
<1>1. PICK e \in callgraph_edge : \E t \in interp_assignment(e) :
        v \in VarFacts(operand_points_to(t[3], t[4]), t[1], t[2])
  BY DEF InterpFacts
<1>2. PICK t \in interp_assignment(e) :
        v \in VarFacts(operand_points_to(t[3], t[4]), t[1], t[2])
  BY <1>1
<1>3. e[1] \in Context /\ e[3] \in Context
  BY DEF IInv, TypeOK
<1>4. t[1] \in Context /\ t[2] \in Variable
  BY <1>3, InterpAssignments, ProgramAssumption DEF IInv
<1>5. QED
  BY <1>2, <1>4, OperandObjects, VarFactsGood

(* What is loaded was stored. *)
LEMMA LoadGood ==
  ASSUME IInv, NEW v \in LoadFacts \cup LoadMatchFacts
  PROVE  GoodVar(v)
<1>1. PICK s \in Sites(load_instr) :
        \/ v \in VarFacts(Loaded(s[1], s[2].address), s[1], s[2].to)
        \/ v \in VarFacts(LoadedMatching(s[1], s[2].address), s[1], s[2].to)
  BY DEF LoadFacts, LoadMatchFacts
<1>2. s[2] \in load_instr /\ s[1] \in Context
  BY SitesReachable DEF IInv
<1>3. s[2].to \in Variable
  BY <1>2, ProgramAssumption
<1>4. \A o \in Loaded(s[1], s[2].address) \cup LoadedMatching(s[1], s[2].address) :
        \E base : o \in Pointees(base)
  <2>1. \A o \in Loaded(s[1], s[2].address) : \E base : o \in Pointees(base)
    BY DEF Loaded
  <2>2. \A o \in LoadedMatching(s[1], s[2].address) : \E base : o \in Pointees(base)
    <3> DEFINE Matching(o) ==
                 UNION { Pointees(<<o[1], m[1]>>) : m \in { n \in alloc_matches : n[2] = o[2] } }
    <3>1. SUFFICES ASSUME NEW q \in operand_points_to(s[1], s[2].address),
                          NEW o \in Matching(q)
                   PROVE  \E base : o \in Pointees(base)
      BY DEF LoadedMatching
    <3>2. QED
      OBVIOUS
  <2>3. QED
    BY <2>1, <2>2
<1>5. \A o \in Loaded(s[1], s[2].address) \cup LoadedMatching(s[1], s[2].address) :
        o \in Context \X Allocation /\ HasOrigin(o[1], o[2])
  BY <1>4, PointeeObjects
<1>6. QED
  BY <1>1, <1>2, <1>3, <1>5, VarFactsGood

(* The destructor, its receiver and an object that it aliases. *)
LEMMA ReceiverObjects ==
  ASSUME IInv, NEW d \in dtor_accepts_recv
  PROVE  /\ d = <<d[1], d[2], d[3]>> /\ d \in Context \X Allocation \X Function
         /\ HasOrigin(d[1], d[2])
<1> DEFINE Recv(e, a, o) ==
             { <<o[1], r[2], r[1]>> : r \in { q \in dtor_receiver :
                  /\ q[1] \in FunctionsAt(operand_points_to(e[3], a))
                  /\ <<q[2], o[2]>> \in alloc_aliases } }
           Objects(e) ==
             UNION { operand_points_to(e[3], b) : b \in Args(call_instr_arg, e[4], 1) }
           OfArg(e, a) == UNION { Recv(e, a, o) : o \in Objects(e) }
           OfEdge(e) == UNION { OfArg(e, a) : a \in Args(call_instr_arg, e[4], 0) }
<1>1. d \in UNION { OfEdge(e) : e \in CallsOf(cxa_atexit) }
  BY DEF dtor_accepts_recv
<1>2. PICK e \in CallsOf(cxa_atexit) : d \in OfEdge(e)
  BY <1>1
<1>3. PICK a \in Args(call_instr_arg, e[4], 0) : d \in OfArg(e, a)
  BY <1>2
<1>4. PICK o \in Objects(e) : d \in Recv(e, a, o)
  BY <1>3
<1>5. PICK r \in dtor_receiver : d = <<o[1], r[2], r[1]>> /\ <<r[2], o[2]>> \in alloc_aliases
  BY <1>4
<1>6. o \in Context \X Allocation /\ HasOrigin(o[1], o[2])
  <2>1. PICK b : o \in operand_points_to(e[3], b)
    BY <1>4
  <2>2. QED
    BY <2>1, OperandObjects
<1>7. r[1] \in Function /\ r[2] \in Allocation /\ o[1] \in Context /\ o[2] \in Allocation
  BY <1>5, <1>6, ProgramAssumption
<1>8. HasOrigin(o[1], r[2])
  BY <1>5, <1>6, <1>7, AliasOrigin
<1>9. QED
  BY <1>5, <1>7, <1>8

(* Receivers of destructors at exit. *)
LEMMA AtExitGood ==
  ASSUME IInv, NEW v \in AtExitFacts
  PROVE  GoodVar(v)
<1>1. PICK d \in dtor_accepts_recv : \E p \in func_param : v = <<d[1], d[2], exit_context, p[3]>>
  BY DEF AtExitFacts
<1>2. PICK p \in func_param : v = <<d[1], d[2], exit_context, p[3]>>
  BY <1>1
<1>3. p[3] \in Variable
  BY ProgramAssumption
<1>4. d[1] \in Context /\ d[2] \in Allocation /\ HasOrigin(d[1], d[2])
  BY ReceiverObjects
<1>5. v \in VarFact /\ v[1] = d[1] /\ v[2] = d[2]
  BY <1>2, <1>3, <1>4, RootContexts DEF VarFact
<1>6. QED
  BY <1>4, <1>5 DEF GoodVar

(* All facts about variables that can be derived are good. *)
LEMMA VarsGood ==
  ASSUME IInv, NEW v \in AllVarFacts
  PROVE  GoodVar(v)
  BY AllocatedGood, StaticGood, AssignGood, InterpGood, LoadGood, AtExitGood DEF AllVarFacts

-----------------------------------------------------------------------------
(* The initial contents of memory are static. *)
LEMMA InitialGood ==
  ASSUME NEW p \in InitialFacts
  PROVE  GoodPtr(p)
<1>1. CASE p \in { <<nil, c[1], nil, c[2]>> : c \in constant_ptr_points_to }
  <2>1. PICK c \in constant_ptr_points_to : p = <<nil, c[1], nil, c[2]>>
    BY <1>1
  <2>2. c = <<c[1], c[2]>> /\ c[1] \in Allocation /\ c[2] \in Allocation
    BY ProgramAssumption
  <2>3. HasOrigin(nil, c[1])
    BY <2>2, StaticOrigin
  <2>4. QED
    BY <2>1, <2>2, <2>3, NilContext DEF GoodPtr, PtrFact
<1>2. CASE p \in { <<nil, a[2], nil, a[1]>> : a \in argv_ptr_points_to }
  <2>1. PICK a \in argv_ptr_points_to : p = <<nil, a[2], nil, a[1]>>
    BY <1>2
  <2>2. a = <<a[1], a[2]>> /\ a[1] \in Allocation /\ a[2] \in Allocation
    BY ProgramAssumption
  <2>3. HasOrigin(nil, a[2])
    BY <2>2, StaticOrigin
  <2>4. QED
    BY <2>1, <2>2, <2>3, NilContext DEF GoodPtr, PtrFact
<1>3. CASE p = <<nil, unknown_location, nil, unknown_location>>
  <2>1. unknown_location \in Allocation
    BY ProgramAssumption
  <2>2. HasOrigin(nil, unknown_location)
    BY <2>1, StaticOrigin
  <2>3. QED
    BY <1>3, <2>1, <2>2, NilContext DEF GoodPtr, PtrFact
<1>4. QED
  BY <1>1, <1>2, <1>3 DEF InitialFacts

(* Stores. *)
LEMMA StoreGood ==
  ASSUME IInv, NEW p \in StoreFacts
  PROVE  GoodPtr(p)
<1>1. PICK s \in Sites(store_instr) :
        p \in PtrFacts(operand_points_to(s[1], s[2].value),
                       { o \in operand_points_to(s[1], s[2].address) :
                           o[2] \in ptr_compatible_allocation })
  BY DEF StoreFacts
<1>2. PICK b \in operand_points_to(s[1], s[2].address) :
        \E o \in operand_points_to(s[1], s[2].value) : p = <<o[1], o[2], b[1], b[2]>>
  BY <1>1 DEF PtrFacts
<1>3. PICK o \in operand_points_to(s[1], s[2].value) : p = <<o[1], o[2], b[1], b[2]>>
  BY <1>2
<1>4. o[1] \in Context /\ o[2] \in Allocation /\ b[1] \in Context /\ b[2] \in Allocation
  BY OperandObjects
<1>5. HasOrigin(o[1], o[2])
  BY OperandObjects
<1>6. QED
  BY <1>3, <1>4, <1>5 DEF GoodPtr, PtrFact

(* Aliases and matches of what memory holds and where. *)
LEMMA AliasGood ==
  ASSUME IInv, NEW p \in AliasBaseFacts \cup AliasTargetFacts \cup MatchFacts
  PROVE  GoodPtr(p)
<1> DEFINE Renamed(q, x) == <<q[1], q[2], q[3], x>>
           Retargeted(q, x) == <<q[1], x, q[3], q[4]>>
<1>1. PICK q \in ptr_points_to :
        \/ \E x : /\ \/ <<x, q[4]>> \in alloc_aliases
                      \/ \E m \in alloc_matches : m[1] = x
                   /\ p = Renamed(q, x)
        \/ \E x : <<x, q[2]>> \in alloc_aliases /\ p = Retargeted(q, x)
  <2>1. CASE p \in AliasBaseFacts
    <3>1. PICK q \in ptr_points_to : \E a \in alloc_aliases : a[2] = q[4] /\ p = Renamed(q, a[1])
      BY <2>1 DEF AliasBaseFacts
    <3>2. \A a \in alloc_aliases : a = <<a[1], a[2]>>
      BY AliasAssumption
    <3>3. QED
      BY <3>1, <3>2
  <2>2. CASE p \in AliasTargetFacts
    <3>1. PICK q \in ptr_points_to :
            \E a \in alloc_aliases : a[2] = q[2] /\ p = Retargeted(q, a[1])
      BY <2>2 DEF AliasTargetFacts
    <3>2. \A a \in alloc_aliases : a = <<a[1], a[2]>>
      BY AliasAssumption
    <3>3. QED
      BY <3>1, <3>2
  <2>3. CASE p \in MatchFacts
    BY <2>3 DEF MatchFacts
  <2>4. QED
    BY <2>1, <2>2, <2>3
<1>2. /\ q[1] \in Context /\ q[2] \in Allocation /\ q[3] \in Context /\ q[4] \in Allocation
      /\ HasOrigin(q[1], q[2])
  BY DEF IInv, TypeOK, AllocWithCtxComplete, HasOrigin
<1>3. ASSUME NEW x, p = Renamed(q, x),
             <<x, q[4]>> \in alloc_aliases \/ \E m \in alloc_matches : m[1] = x
      PROVE  GoodPtr(p)
  <2>1. x \in Allocation
    BY <1>3, AliasAssumption, ProgramAssumption
  <2>2. QED
    BY <1>2, <1>3, <2>1 DEF GoodPtr, PtrFact
<1>4. ASSUME NEW x, p = Retargeted(q, x), <<x, q[2]>> \in alloc_aliases
      PROVE  GoodPtr(p)
  <2>1. x \in Allocation
    BY <1>4, AliasAssumption
  <2>2. HasOrigin(q[1], x)
    BY <1>2, <1>4, <2>1, AliasOrigin
  <2>3. QED
    BY <1>2, <1>4, <2>1, <2>2 DEF GoodPtr, PtrFact
<1>5. QED
  BY <1>1, <1>3, <1>4

(* All facts about memory that can be derived are good. *)
LEMMA PtrsGood ==
  ASSUME IInv, NEW p \in AllPtrFacts
  PROVE  GoodPtr(p)
  BY InitialGood, StoreGood, AliasGood DEF AllPtrFacts

-----------------------------------------------------------------------------
(* New call graph edges are well formed, and their caller is reachable. *)
GoodEdge(e) == e \in Edge /\ <<e[3], instr_func[e[4]]>> \in reachable_context

LEMMA EdgesFromGood ==
  ASSUME TypeOK, NEW call \in CallBase, NEW ctx \in ContextsOf(instr_func[call]),
         NEW callees \in SUBSET Function, NEW e \in EdgesFrom(call, ctx, callees)
  PROVE  GoodEdge(e)
<1>1. PICK f \in callees : e = <<Push(call, ctx), f, ctx, call>>
  BY DEF EdgesFrom
<1>2. ctx \in Context /\ <<ctx, instr_func[call]>> \in reachable_context
  BY ContextsReachable
<1>3. Push(call, ctx) \in Context
  BY <1>2, PushContext DEF TypeOK
<1>4. QED
  BY <1>1, <1>2, <1>3 DEF GoodEdge, Edge

LEMMA EdgesGood ==
  ASSUME TypeOK, NEW e \in DirectEdges \cup IndirectEdges
  PROVE  GoodEdge(e)
<1>1. CASE e \in DirectEdges
  <2> DEFINE Of(t) == UNION { EdgesFrom(t[1], ctx, {t[2]}) : ctx \in ContextsOf(instr_func[t[1]]) }
  <2>1. PICK t \in call_instr_fn_target : e \in Of(t)
    BY <1>1 DEF DirectEdges
  <2>2. PICK ctx \in ContextsOf(instr_func[t[1]]) : e \in EdgesFrom(t[1], ctx, {t[2]})
    BY <2>1
  <2>3. t[1] \in CallBase /\ t[2] \in Function
    BY ProgramAssumption
  <2>4. QED
    BY <2>2, <2>3, EdgesFromGood
<1>2. CASE e \in IndirectEdges
  <2> DEFINE Of(t) == UNION { EdgesFrom(t[1], ctx, IndirectCallees(t[1], ctx, t[2])) :
                              ctx \in ContextsOf(instr_func[t[1]]) }
  <2>1. PICK t \in func_operand : e \in Of(t)
    BY <1>2 DEF IndirectEdges
  <2>2. PICK ctx \in ContextsOf(instr_func[t[1]]) :
          e \in EdgesFrom(t[1], ctx, IndirectCallees(t[1], ctx, t[2]))
    BY <2>1
  <2>3. t[1] \in CallBase
    BY ProgramAssumption
  <2>4. IndirectCallees(t[1], ctx, t[2]) \subseteq Function
    BY ProgramAssumption DEF IndirectCallees, FunctionsAt
  <2>5. QED
    BY <2>2, <2>3, <2>4, EdgesFromGood
<1>3. QED
  BY <1>1, <1>2

(* The functions that become reachable are functions, in proper contexts. *)
LEMMA ReachType ==
  ASSUME TypeOK
  PROVE  RootFacts \cup CalleeFacts \subseteq Context \X Function
<1>1. \A r \in Roots : r[1] \in {"main", "startup", "library"} /\ r[2] \in Function
  BY ProgramAssumption
<1>2. \A r \in Roots : root_context(r[1]) \in Context
  BY <1>1, RootContextType
<1>3. root_context("exit") \in Context
  BY RootContextType
<1>4. RootFacts \subseteq Context \X Function
  BY <1>1, <1>2, <1>3 DEF RootFacts, TypeOK
<1>5. CalleeFacts \subseteq Context \X Function
  BY DEF CalleeFacts, TypeOK
<1>6. QED
  BY <1>4, <1>5

(* What is registered to run at exit are functions. *)
LEMMA AtExitType ==
  ASSUME IInv
  PROVE  Registered \cup { d[3] : d \in dtor_accepts_recv } \subseteq Function
<1>1. \A objs : FunctionsAt(objs) \subseteq Function
  BY ProgramAssumption DEF FunctionsAt
<1>2. Registered \subseteq Function
  BY <1>1 DEF Registered
<1>3. \A d \in dtor_accepts_recv : d[3] \in Function
  BY ReceiverObjects
<1>4. QED
  BY <1>2, <1>3

-----------------------------------------------------------------------------
(* What is reachable stays so, hence allocations keep their origins. *)
LEMMA OriginsStay ==
  ASSUME Derives, NEW aCtx, NEW alloc, HasOrigin(aCtx, alloc)
  PROVE  HasOrigin(aCtx, alloc)'
<1>1. reachable_context \subseteq reachable_context'
  BY DEF Derives
<1>2. \A func : ContextsOf(func) \subseteq ContextsOf(func)'
  BY <1>1 DEF ContextsOf
<1>3. Sites(alloca_or_malloc) \subseteq Sites(alloca_or_malloc)'
  BY <1>2 DEF Sites
<1>4. alloc_with_ctx \subseteq alloc_with_ctx'
  BY <1>3 DEF alloc_with_ctx
<1>5. QED
  BY <1>4 DEF HasOrigin

(* A step that derives preserves the invariant. *)
LEMMA DerivesPreserves == IInv /\ Derives => IInv'
<1> SUFFICES ASSUME IInv, Derives PROVE IInv'
  OBVIOUS
<1>1. TypeOK'
  <2>1. options' \in Options
    BY DEF IInv, TypeOK, Derives
  <2>2. reachable_context' \subseteq Context \X Function
    BY ReachType DEF IInv, TypeOK, Derives
  <2>3. callgraph_edge' \subseteq Context \X Function \X Context \X CallBase
    BY EdgesGood DEF IInv, TypeOK, Derives, GoodEdge, Edge
  <2>4. called_at_exit' \subseteq Function
    BY AtExitType DEF IInv, TypeOK, Derives
  <2>5. var_points_to' \subseteq VarFact
    <3>1. var_points_to' \subseteq var_points_to \cup AllVarFacts
      BY DEF Derives, AllVarFacts
    <3>2. QED
      BY <3>1, VarsGood DEF IInv, TypeOK, GoodVar, VarFact
  <2>6. ptr_points_to' \subseteq PtrFact
    <3>1. ptr_points_to' \subseteq ptr_points_to \cup AllPtrFacts
      BY DEF Derives, AllPtrFacts
    <3>2. QED
      BY <3>1, PtrsGood DEF IInv, TypeOK, GoodPtr, PtrFact
  <2>7. QED
    BY <2>1, <2>2, <2>3, <2>4, <2>5, <2>6 DEF TypeOK, VarFact, PtrFact
<1>2. \A v \in var_points_to' : HasOrigin(v[1], v[2])'
  <2>1. \A v \in var_points_to' : HasOrigin(v[1], v[2])
    <3>1. var_points_to' \subseteq var_points_to \cup AllVarFacts
      BY DEF Derives, AllVarFacts
    <3>2. \A v \in var_points_to : HasOrigin(v[1], v[2])
      BY DEF IInv, AllocWithCtxComplete, HasOrigin
    <3>3. QED
      BY <3>1, <3>2, VarsGood DEF GoodVar
  <2>2. QED
    BY <2>1, OriginsStay
<1>3. \A p \in ptr_points_to' : HasOrigin(p[1], p[2])'
  <2>1. \A p \in ptr_points_to' : HasOrigin(p[1], p[2])
    <3>1. ptr_points_to' \subseteq ptr_points_to \cup AllPtrFacts
      BY DEF Derives, AllPtrFacts
    <3>2. \A p \in ptr_points_to : HasOrigin(p[1], p[2])
      BY DEF IInv, AllocWithCtxComplete, HasOrigin
    <3>3. QED
      BY <3>1, <3>2, PtrsGood DEF GoodPtr
  <2>2. QED
    BY <2>1, OriginsStay
<1>4. AllocWithCtxComplete'
  BY <1>2, <1>3 DEF AllocWithCtxComplete, HasOrigin
<1>5. QED
  BY <1>1, <1>4 DEF IInv

(* No facts, no violations. *)
LEMMA InitIInv == Init => IInv
  BY DEF Init, IInv, TypeOK, AllocWithCtxComplete

(* Nor does a step that changes nothing. *)
LEMMA StutterPreserves == IInv /\ UNCHANGED vars => IInv'
<1> SUFFICES ASSUME IInv, UNCHANGED vars PROVE IInv'
  OBVIOUS
<1>1. UNCHANGED <<options, reachable_context, callgraph_edge, called_at_exit, var_points_to,
                  ptr_points_to>>
  BY DEF vars, callgraph
<1>2. TypeOK'
  BY <1>1 DEF IInv, TypeOK
<1>3. alloc_with_ctx' = alloc_with_ctx
  BY <1>1 DEF alloc_with_ctx, Sites, ContextsOf
<1>4. AllocWithCtxComplete'
  BY <1>1, <1>3 DEF IInv, AllocWithCtxComplete
<1>5. QED
  BY <1>2, <1>4 DEF IInv

(* However the rules are scheduled, IInv holds. *)
LEMMA Invariance == DerivationSpec => []IInv
<1>1. IInv /\ [Derives]_vars => IInv'
  BY DerivesPreserves, StutterPreserves
<1>2. QED
  BY InitIInv, <1>1, PTL DEF DerivationSpec

(* Spec is one of the schedules. *)
LEMMA SpecDerives == Spec => DerivationSpec
<1>1. [Next]_vars => [Derives]_vars
  BY RulesDerive DEF Next
<1>2. QED
  BY <1>1, PTL DEF Spec, DerivationSpec

-----------------------------------------------------------------------------
(* Every relation keeps its columns, for every program, k and option. *)
THEOREM TypeCorrect == Spec => []TypeOK
<1>1. IInv => TypeOK
  BY DEF IInv
<1>2. QED
  BY Invariance, SpecDerives, <1>1, PTL

(* assert_alloc_with_ctx_complete: whatever a variable or a memory cell     *)
(* points to was allocated in that context by a reachable instruction, or   *)
(* is static.                                                               *)
THEOREM AllocationsKnown == Spec => []AllocWithCtxComplete
<1>1. IInv => AllocWithCtxComplete
  BY DEF IInv
<1>2. QED
  BY Invariance, SpecDerives, <1>1, PTL

-----------------------------------------------------------------------------
(* Why AssignFacts need not test in which contexts a function is reachable: *)
(* the callers of call graph edges are reachable where the edges say, and   *)
(* the facts of all variables, parameters too, are where their function is  *)
(* or is about to become reachable.                                         *)
Pending == reachable_context \cup RootFacts \cup CalleeFacts

LocatedAt(ctx, func) == <<ctx, func>> \in Pending
Located(v) == LocatedAt(v[3], variable_in_func[v[4]])

CallersReachable ==
  \A e \in callgraph_edge : <<e[3], instr_func[e[4]]>> \in reachable_context
AllLocated == \A v \in var_points_to : Located(v)

LocatedInv == IInv /\ CallersReachable /\ AllLocated

(* argv has a fact in a context in which main is a root: there is no argv,  *)
(* or the analysis is context-sensitive.                                    *)
ArgvIsLocated == argv_var_points_to = {} \/ ~ insensitive

(* A fact that follows from an instruction with a context. *)
LEMMA SiteLocated ==
  ASSUME IInv, NEW instrs, NEW s \in Sites(instrs), NEW v,
         v[3] = s[1], variable_in_func[v[4]] = s[2].func
  PROVE  Located(v)
  BY SitesReachable DEF IInv, Located, LocatedAt, Pending

(* What an operand of a function points to, it points to in contexts of the *)
(* function.                                                                *)
LEMMA OperandLocated ==
  ASSUME LocatedInv, NEW func \in Function, NEW operand, InFunction(operand, func),
         NEW ctx, NEW o \in operand_points_to(ctx, operand)
  PROVE  LocatedAt(ctx, func)
<1>1. CASE \E w \in var_points_to : w[3] = ctx /\ w[4] = operand
  <2>1. PICK w \in var_points_to : w[3] = ctx /\ w[4] = operand
    BY <1>1
  <2>2. operand \in Variable
    BY <2>1 DEF LocatedInv, IInv, TypeOK
  <2>3. variable_in_func[operand] = func
    BY <2>2 DEF InFunction
  <2>4. QED
    BY <2>1, <2>3 DEF LocatedInv, AllLocated, Located
<1>2. CASE \E f \in Function : <<operand, f>> \in constant_in_func /\ ctx \in ContextsOf(f)
  <2>1. PICK f \in Function : <<operand, f>> \in constant_in_func /\ ctx \in ContextsOf(f)
    BY <1>2
  <2>2. f = func
    BY <2>1 DEF InFunction
  <2>3. QED
    BY <2>1, <2>2, ContextsReachable DEF LocatedInv, IInv, LocatedAt, Pending
<1>3. QED
  BY <1>1, <1>2 DEF operand_points_to

(* The instructions of a function set variables of the function. *)
LEMMA InstructionsSitesLocated ==
  ASSUME IInv, NEW v \in AllocatedFacts \cup IntToPtrFacts \cup LoadFacts \cup LoadMatchFacts
  PROVE  Located(v)
<1> DEFINE instrs == alloca_or_malloc \cup inttoptr_instr \cup load_instr
<1>1. \A i \in instrs : i.to \in Variable /\ variable_in_func[i.to] = i.func
  BY ProgramAssumption, LocalityAssumption DEF InFunction
<1>2. PICK s \in Sites(instrs) : v[3] = s[1] /\ v[4] = s[2].to
  <2>1. CASE v \in AllocatedFacts
    <3>1. PICK s \in Sites(alloca_or_malloc) : v = <<s[1], s[2].alloc, s[1], s[2].to>>
      BY <2>1 DEF AllocatedFacts
    <3>2. s \in Sites(instrs)
      BY DEF Sites
    <3>3. QED
      BY <3>1, <3>2
  <2>2. CASE v \in IntToPtrFacts
    <3>1. PICK s \in Sites(inttoptr_instr) : v = <<nil, unknown_location, s[1], s[2].to>>
      BY <2>2 DEF IntToPtrFacts
    <3>2. s \in Sites(instrs)
      BY DEF Sites
    <3>3. QED
      BY <3>1, <3>2
  <2>3. CASE v \in LoadFacts \cup LoadMatchFacts
    <3>1. PICK s \in Sites(load_instr) : \E objs : v \in VarFacts(objs, s[1], s[2].to)
      BY <2>3 DEF LoadFacts, LoadMatchFacts
    <3>2. v[3] = s[1] /\ v[4] = s[2].to
      BY <3>1 DEF VarFacts
    <3>3. s \in Sites(instrs)
      BY DEF Sites
    <3>4. QED
      BY <3>2, <3>3
  <2>4. QED
    BY <2>1, <2>2, <2>3
<1>3. s[2] \in instrs
  BY SitesReachable DEF IInv
<1>4. QED
  BY <1>1, <1>2, <1>3, SiteLocated

(* Copies are made where their source is. *)
LEMMA AssignLocated ==
  ASSUME LocatedInv, NEW v \in AssignFacts
  PROVE  Located(v)
<1>1. PICK ctx \in KnownContexts, i \in assign_instr :
        v \in VarFacts(operand_points_to(ctx, i.value), ctx, i.to)
  BY DEF AssignFacts
<1>2. PICK o \in operand_points_to(ctx, i.value) : v[3] = ctx /\ v[4] = i.to
  BY <1>1 DEF VarFacts
<1>3. i.func \in Function /\ i.to \in Variable
  BY ProgramAssumption
<1>4. InFunction(i.value, i.func) /\ variable_in_func[i.to] = i.func
  BY <1>3, LocalityAssumption DEF InFunction
<1>5. LocatedAt(ctx, i.func)
  BY <1>2, <1>3, <1>4, OperandLocated
<1>6. QED
  BY <1>2, <1>4, <1>5 DEF Located

(* Parameters get their facts where the callee, results where the caller is. *)
LEMMA InterpLocated ==
  ASSUME LocatedInv, NEW v \in InterpFacts
  PROVE  Located(v)
<1>1. PICK e \in callgraph_edge : \E t \in interp_assignment(e) :
        v \in VarFacts(operand_points_to(t[3], t[4]), t[1], t[2])
  BY DEF InterpFacts
<1>2. PICK t \in interp_assignment(e) : v[3] = t[1] /\ v[4] = t[2]
  BY <1>1 DEF VarFacts
<1>3. CASE \E p \in func_param : p[1] = e[2] /\ t[1] = e[1] /\ t[2] = p[3]
  <2>1. PICK p \in func_param : p[1] = e[2] /\ t[1] = e[1] /\ t[2] = p[3]
    BY <1>3
  <2>2. p[3] \in Variable
    BY ProgramAssumption
  <2>3. variable_in_func[p[3]] = e[2]
    BY <2>1, <2>2, LocalityAssumption DEF InFunction
  <2>4. <<e[1], e[2]>> \in CalleeFacts
    BY DEF CalleeFacts
  <2>5. QED
    BY <1>2, <2>1, <2>3, <2>4 DEF Located, LocatedAt, Pending
<1>4. CASE \E u \in call_assigns_to : u[1] = e[4] /\ t[1] = e[3] /\ t[2] = u[2]
  <2>1. PICK u \in call_assigns_to : u[1] = e[4] /\ t[1] = e[3] /\ t[2] = u[2]
    BY <1>4
  <2>2. u[2] \in Variable
    BY ProgramAssumption
  <2>3. variable_in_func[u[2]] = instr_func[e[4]]
    BY <2>1, <2>2, LocalityAssumption DEF InFunction
  <2>4. QED
    BY <1>2, <2>1, <2>3 DEF LocatedInv, CallersReachable, Located, LocatedAt, Pending
<1>5. QED
  BY <1>3, <1>4, InterpAssignments

(* The receivers of destructors. *)
LEMMA AtExitLocated ==
  ASSUME IInv, NEW v \in AtExitFacts
  PROVE  Located(v)
<1>1. PICK d \in dtor_accepts_recv :
        /\ exit_context \in ContextsOf(d[3])
        /\ \E p \in func_param : p[1] = d[3] /\ v = <<d[1], d[2], exit_context, p[3]>>
  BY DEF AtExitFacts
<1>2. PICK p \in func_param : p[1] = d[3] /\ v = <<d[1], d[2], exit_context, p[3]>>
  BY <1>1
<1>3. p[3] \in Variable
  BY ProgramAssumption
<1>4. variable_in_func[p[3]] = d[3]
  BY <1>2, <1>3, LocalityAssumption DEF InFunction
<1>5. <<exit_context, d[3]>> \in reachable_context
  BY <1>1, ContextsReachable DEF IInv
<1>6. QED
  BY <1>2, <1>4, <1>5 DEF Located, LocatedAt, Pending

(* argv. *)
LEMMA ArgvLocated ==
  ASSUME ArgvIsLocated, NEW v \in ArgvFacts
  PROVE  Located(v)
<1>1. PICK a \in argv_var_points_to : v = <<nil, a[2], main_context, a[1]>>
  BY DEF ArgvFacts
<1>2. root_context("main") = main_context
  BY <1>1 DEF ArgvIsLocated, root_context
<1>3. <<"main", variable_in_func[a[1]]>> \in Roots
  BY LocalityAssumption
<1>4. <<main_context, variable_in_func[a[1]]>> \in RootFacts
  BY <1>2, <1>3 DEF RootFacts
<1>5. QED
  BY <1>1, <1>4 DEF Located, LocatedAt, Pending

(* A step that derives preserves the invariant. *)
LEMMA DerivesLocated == ArgvIsLocated /\ LocatedInv /\ Derives => LocatedInv'
<1> SUFFICES ASSUME ArgvIsLocated, LocatedInv, Derives PROVE LocatedInv'
  OBVIOUS
<1>1. IInv'
  BY DerivesPreserves DEF LocatedInv
<1>2. CallersReachable'
  <2>1. \A e \in callgraph_edge' : <<e[3], instr_func[e[4]]>> \in reachable_context
    BY EdgesGood DEF LocatedInv, IInv, CallersReachable, Derives, GoodEdge
  <2>2. QED
    BY <2>1 DEF CallersReachable, Derives
<1>3. Pending \subseteq Pending'
  <2>1. RootFacts \subseteq RootFacts'
    BY DEF Derives, RootFacts, root_context, insensitive
  <2>2. CalleeFacts \subseteq CalleeFacts'
    BY DEF Derives, CalleeFacts
  <2>3. QED
    BY <2>1, <2>2 DEF Derives, Pending
<1>4. \A v \in var_points_to' : Located(v)
  <2>1. \A v \in AllVarFacts : Located(v)
    BY InstructionsSitesLocated, AssignLocated, InterpLocated, AtExitLocated, ArgvLocated
    DEF AllVarFacts, LocatedInv
  <2>2. var_points_to' \subseteq var_points_to \cup AllVarFacts
    BY DEF Derives, AllVarFacts
  <2>3. QED
    BY <2>1, <2>2 DEF LocatedInv, AllLocated
<1>5. AllLocated'
  BY <1>3, <1>4 DEF AllLocated, Located, LocatedAt
<1>6. QED
  BY <1>1, <1>2, <1>5 DEF LocatedInv

(* Nor does a step that changes nothing. *)
LEMMA StutterLocated == LocatedInv /\ UNCHANGED vars => LocatedInv'
<1> SUFFICES ASSUME LocatedInv, UNCHANGED vars PROVE LocatedInv'
  OBVIOUS
<1>1. IInv'
  BY StutterPreserves DEF LocatedInv
<1>2. Pending' = Pending
  BY DEF vars, callgraph, Pending, RootFacts, CalleeFacts, root_context, insensitive
<1>3. CallersReachable'
  BY DEF vars, callgraph, LocatedInv, CallersReachable
<1>4. AllLocated'
  BY <1>2 DEF vars, LocatedInv, AllLocated, Located, LocatedAt
<1>5. QED
  BY <1>1, <1>3, <1>4 DEF LocatedInv

(* assert_var_points_to_implies_reachable: if a variable that an            *)
(* instruction sets has a fact in a context, its function is reachable in   *)
(* that context.  In insensitive mode argv is the exception: see the run    *)
(* argv_insensitive.                                                        *)
THEOREM FactsAreReachable ==
  Spec /\ ArgvIsLocated => []VarPointsToImpliesReachable
<1>1. Init => LocatedInv
  BY InitIInv DEF Init, LocatedInv, CallersReachable, AllLocated
<1>2. [Derives]_vars /\ ArgvIsLocated => ArgvIsLocated'
  BY DEF ArgvIsLocated, insensitive, Derives, vars
<1>3. ArgvIsLocated /\ LocatedInv /\ [Derives]_vars => LocatedInv'
  BY DerivesLocated, StutterLocated
<1>4. LocatedInv => VarPointsToImpliesReachable
  BY DEF LocatedInv, AllLocated, Located, LocatedAt, Pending, VarPointsToImpliesReachable
<1>5. QED
  BY SpecDerives, <1>1, <1>2, <1>3, <1>4, PTL DEF DerivationSpec

-----------------------------------------------------------------------------
(* Without their contexts, the facts are those of an analysis without        *)
(* contexts: first what they are derived from, then rule by rule.           *)
StripEdge(e) == <<e[2], e[4]>>
Strip(fact) == <<fact[2], fact[4]>>

(* A function with a context is reached. *)
LEMMA FunctionReached ==
  ASSUME NEW func, NEW ctx \in ContextsOf(func)
  PROVE  func \in ReachableFunctions
  BY DEF ContextsOf, ReachableFunctions

(* The instruction of a site is one of a reached function. *)
LEMMA SiteReached ==
  ASSUME TypeOK, NEW instrs, NEW s \in Sites(instrs)
  PROVE  s[2] \in CF!Reachable(instrs)
<1>1. s[2] \in instrs /\ <<s[1], s[2].func>> \in reachable_context
  BY SitesReachable
<1>2. s[2].func \in ReachableFunctions
  BY <1>1 DEF ReachableFunctions
<1>3. QED
  BY <1>1, <1>2 DEF CF!Reachable

(* What an operand points to in a context it points to. *)
LEMMA ObjectStripped ==
  ASSUME NEW ctx, NEW operand, NEW o \in operand_points_to(ctx, operand)
  PROVE  o[2] \in CF!operand_points_to(operand)
<1>1. CASE \E v \in var_points_to : v[4] = operand /\ o = <<v[1], v[2]>>
  <2>1. PICK v \in var_points_to : v[4] = operand /\ o = <<v[1], v[2]>>
    BY <1>1
  <2>2. <<v[2], operand>> \in stripctx_var_points_to
    BY <2>1 DEF stripctx_var_points_to
  <2>3. v[2] \in { w[1] : w \in { u \in stripctx_var_points_to : u[2] = operand } }
    BY <2>2
  <2>4. QED
    BY <2>1, <2>3 DEF CF!operand_points_to
<1>2. CASE \E c \in constant_points_to :
             /\ c[1] = operand /\ o = <<nil, c[2]>>
             /\ \E f : <<c[1], f>> \in constant_in_func /\ ctx \in ContextsOf(f)
  BY <1>2, FunctionReached DEF CF!operand_points_to
<1>3. QED
  BY <1>1, <1>2 DEF operand_points_to

(* So it is with what memory points to, *)
LEMMA PointeeStripped ==
  ASSUME NEW base, NEW o \in Pointees(base), NEW objs, base[2] \in objs
  PROVE  o[2] \in CF!Pointees(objs)
<1>1. PICK p \in ptr_points_to : <<p[3], p[4]>> = base /\ o = <<p[1], p[2]>>
  BY DEF Pointees
<1>2. <<p[2], p[4]>> \in stripctx_ptr_points_to /\ p[4] \in objs
  BY <1>1 DEF stripctx_ptr_points_to
<1>3. QED
  BY <1>1, <1>2 DEF CF!Pointees

(* and with the functions that an operand points to. *)
LEMMA FunctionStripped ==
  ASSUME NEW ctx, NEW operand, NEW f \in FunctionsAt(operand_points_to(ctx, operand))
  PROVE  f \in CF!FunctionsAt(CF!operand_points_to(operand))
<1>1. PICK l \in func_by_location : \E o \in operand_points_to(ctx, operand) : o[2] = l[1] /\ f = l[2]
  BY DEF FunctionsAt
<1>2. l[1] \in CF!operand_points_to(operand)
  BY <1>1, ObjectStripped
<1>3. QED
  BY <1>1, <1>2 DEF CF!FunctionsAt

(* The functions that become reachable. *)
LEMMA FunctionsStripped ==
  ASSUME NEW r \in RootFacts \cup CalleeFacts
  PROVE  r[2] \in CF!FunctionFacts
<1>1. CASE r \in RootFacts
  BY <1>1 DEF RootFacts, CF!FunctionFacts
<1>2. CASE r \in CalleeFacts
  <2>1. PICK e \in callgraph_edge : r = <<e[1], e[2]>>
    BY <1>2 DEF CalleeFacts
  <2>2. StripEdge(e) \in stripctx_callgraph_edge /\ StripEdge(e)[1] = r[2]
    BY <2>1 DEF stripctx_callgraph_edge, StripEdge
  <2>3. QED
    BY <2>2 DEF CF!FunctionFacts
<1>3. QED
  BY <1>1, <1>2

(* Edges of the call graph. *)
LEMMA EdgesStripped ==
  ASSUME NEW e \in DirectEdges \cup IndirectEdges
  PROVE  StripEdge(e) \in CF!DirectEdges \cup CF!IndirectEdges
<1>1. CASE e \in DirectEdges
  <2> DEFINE Of(t) == UNION { EdgesFrom(t[1], ctx, {t[2]}) : ctx \in ContextsOf(instr_func[t[1]]) }
  <2>1. PICK t \in call_instr_fn_target : e \in Of(t)
    BY <1>1 DEF DirectEdges
  <2>2. PICK ctx \in ContextsOf(instr_func[t[1]]) : e \in EdgesFrom(t[1], ctx, {t[2]})
    BY <2>1
  <2>3. StripEdge(e) = <<t[2], t[1]>>
    BY <2>2 DEF EdgesFrom, StripEdge
  <2>4. instr_func[t[1]] \in ReachableFunctions
    BY FunctionReached
  <2>5. QED
    BY <2>3, <2>4 DEF CF!DirectEdges
<1>2. CASE e \in IndirectEdges
  <2> DEFINE Of(t) == UNION { EdgesFrom(t[1], ctx, IndirectCallees(t[1], ctx, t[2])) :
                              ctx \in ContextsOf(instr_func[t[1]]) }
             Stripped(t) == { <<f, t[1]>> : f \in CF!IndirectCallees(t[1], t[2]) }
  <2>1. PICK t \in func_operand : e \in Of(t)
    BY <1>2 DEF IndirectEdges
  <2>2. PICK ctx \in ContextsOf(instr_func[t[1]]) :
          e \in EdgesFrom(t[1], ctx, IndirectCallees(t[1], ctx, t[2]))
    BY <2>1
  <2>3. PICK f \in IndirectCallees(t[1], ctx, t[2]) : StripEdge(e) = <<f, t[1]>>
    BY <2>2 DEF EdgesFrom, StripEdge
  <2>4. StripEdge(e) \in Stripped(t)
    BY <2>3, FunctionStripped DEF IndirectCallees, CF!IndirectCallees
  <2>5. instr_func[t[1]] \in ReachableFunctions
    BY FunctionReached
  <2>6. t \in { u \in func_operand : instr_func[u[1]] \in ReachableFunctions }
    BY <2>5
  <2>7. QED
    BY <2>4, <2>6 DEF CF!IndirectEdges
<1>3. QED
  BY <1>1, <1>2

(* Calls of some functions. *)
LEMMA CallStripped ==
  ASSUME NEW funcs, NEW e \in CallsOf(funcs)
  PROVE  e[4] \in CF!CallsOf(funcs)
<1>1. StripEdge(e) \in stripctx_callgraph_edge /\ StripEdge(e)[1] \in funcs /\ StripEdge(e)[2] = e[4]
  BY DEF CallsOf, stripctx_callgraph_edge, StripEdge
<1>2. QED
  BY <1>1 DEF CF!CallsOf

(* Functions registered with atexit. *)
LEMMA RegisteredStripped ==
  ASSUME NEW f \in Registered
  PROVE  f \in CF!Registered
<1> DEFINE Of(e) == UNION { FunctionsAt(operand_points_to(e[3], a)) : a \in Args(actual_arg, e[4], 0) }
           Stripped(call) == UNION { CF!FunctionsAt(CF!operand_points_to(a)) :
                                     a \in CF!Args(CF!actual_arg, call, 0) }
<1>1. PICK e \in CallsOf(atexit) : f \in Of(e)
  BY DEF Registered
<1>2. PICK a \in Args(actual_arg, e[4], 0) : f \in FunctionsAt(operand_points_to(e[3], a))
  BY <1>1
<1>3. a \in CF!Args(CF!actual_arg, e[4], 0)
  BY DEF Args, actual_arg, CF!Args, CF!actual_arg
<1>4. f \in Stripped(e[4])
  BY <1>2, <1>3, FunctionStripped
<1>5. e[4] \in CF!CallsOf(atexit)
  BY CallStripped
<1>6. QED
  BY <1>4, <1>5 DEF CF!Registered

(* Destructors registered with __cxa_atexit, and their receivers. *)
LEMMA DestroyedStripped ==
  ASSUME NEW d \in dtor_accepts_recv
  PROVE  <<d[2], d[3]>> \in CF!Destroyed
<1> DEFINE Recv(e, a, o) ==
             { <<o[1], r[2], r[1]>> : r \in { q \in dtor_receiver :
                  /\ q[1] \in FunctionsAt(operand_points_to(e[3], a))
                  /\ <<q[2], o[2]>> \in alloc_aliases } }
           Objects(e) ==
             UNION { operand_points_to(e[3], b) : b \in Args(call_instr_arg, e[4], 1) }
           OfArg(e, a) == UNION { Recv(e, a, o) : o \in Objects(e) }
           OfEdge(e) == UNION { OfArg(e, a) : a \in Args(call_instr_arg, e[4], 0) }
<1>1. d \in UNION { OfEdge(e) : e \in CallsOf(cxa_atexit) }
  BY DEF dtor_accepts_recv
<1>2. PICK e \in CallsOf(cxa_atexit) : d \in OfEdge(e)
  BY <1>1
<1>3. PICK a \in Args(call_instr_arg, e[4], 0) : d \in OfArg(e, a)
  BY <1>2
<1>4. PICK o \in Objects(e) : d \in Recv(e, a, o)
  BY <1>3
<1>5. PICK b \in Args(call_instr_arg, e[4], 1) : o \in operand_points_to(e[3], b)
  BY <1>4
<1>6. PICK r \in dtor_receiver : /\ d = <<o[1], r[2], r[1]>> /\ <<r[2], o[2]>> \in alloc_aliases
                                 /\ r[1] \in FunctionsAt(operand_points_to(e[3], a))
  BY <1>4
<1>7. a \in CF!Args(call_instr_arg, e[4], 0) /\ b \in CF!Args(call_instr_arg, e[4], 1)
  BY DEF Args, CF!Args
<1>8. r[1] \in CF!FunctionsAt(CF!operand_points_to(a)) /\ o[2] \in CF!operand_points_to(b)
  BY <1>5, <1>6, FunctionStripped, ObjectStripped
<1>9. e[4] \in CF!CallsOf(cxa_atexit)
  BY CallStripped
<1>10. <<r[2], r[1]>> \in CF!Destroyed
  BY <1>6, <1>7, <1>8, <1>9 DEF CF!Destroyed
<1>11. QED
  BY <1>6, <1>10

-----------------------------------------------------------------------------
(* Facts about variables. *)
AllVarsStripped == CF!VarFacts \cup CF!LoadFacts

LEMMA VarFactsStripped ==
  ASSUME NEW objs, NEW ctx, NEW var, NEW allocs, \A o \in objs : o[2] \in allocs,
         NEW v \in VarFacts(objs, ctx, var)
  PROVE  Strip(v) \in allocs \X {var}
  BY DEF VarFacts, Strip

(* Variables that are given an allocation. *)
LEMMA GivenStripped ==
  ASSUME TypeOK, NEW v \in AllocatedFacts \cup ArgvFacts \cup IntToPtrFacts
  PROVE  Strip(v) \in AllVarsStripped
<1>1. CASE v \in AllocatedFacts
  <2>1. PICK s \in Sites(alloca_or_malloc) : v = <<s[1], s[2].alloc, s[1], s[2].to>>
    BY <1>1 DEF AllocatedFacts
  <2>2. s[2] \in CF!Reachable(alloca_or_malloc) /\ Strip(v) = <<s[2].alloc, s[2].to>>
    BY <2>1, SiteReached DEF Strip
  <2>3. QED
    BY <2>2 DEF AllVarsStripped, CF!VarFacts
<1>2. CASE v \in ArgvFacts
  BY <1>2 DEF ArgvFacts, Strip, AllVarsStripped, CF!VarFacts
<1>3. CASE v \in IntToPtrFacts
  <2>1. PICK s \in Sites(inttoptr_instr) : v = <<nil, unknown_location, s[1], s[2].to>>
    BY <1>3 DEF IntToPtrFacts
  <2>2. s[2] \in CF!Reachable(inttoptr_instr) /\ Strip(v) = <<unknown_location, s[2].to>>
    BY <2>1, SiteReached DEF Strip
  <2>3. QED
    BY <2>2 DEF AllVarsStripped, CF!VarFacts
<1>4. QED
  BY <1>1, <1>2, <1>3

(* A copy passes on what its operand points to. *)
LEMMA CopyStripped ==
  ASSUME NEW ctx, NEW toCtx, NEW var, NEW operand, <<var, operand>> \in CF!Copies,
         NEW v \in VarFacts(operand_points_to(ctx, operand), toCtx, var)
  PROVE  Strip(v) \in AllVarsStripped
<1>1. Strip(v) \in CF!operand_points_to(operand) \X {var}
  BY ObjectStripped, VarFactsStripped
<1>2. Strip(v) \in UNION { CF!operand_points_to(c[2]) \X {c[1]} : c \in CF!Copies }
  BY <1>1
<1>3. QED
  BY <1>2 DEF AllVarsStripped, CF!VarFacts

LEMMA AssignStripped ==
  ASSUME NEW v \in AssignFacts
  PROVE  Strip(v) \in AllVarsStripped
<1>1. PICK ctx \in KnownContexts, i \in { j \in assign_instr : reachable_func(j.func) } :
        v \in VarFacts(operand_points_to(ctx, i.value), ctx, i.to)
  BY DEF AssignFacts
<1>2. i.func \in ReachableFunctions
  BY FunctionReached DEF reachable_func
<1>3. <<i.to, i.value>> \in CF!Copies
  BY <1>2 DEF CF!Copies, CF!Assigned, CF!Reachable
<1>4. QED
  BY <1>1, <1>3, CopyStripped

LEMMA InterpStripped ==
  ASSUME NEW v \in InterpFacts
  PROVE  Strip(v) \in AllVarsStripped
<1>1. PICK e \in callgraph_edge : \E t \in interp_assignment(e) :
        v \in VarFacts(operand_points_to(t[3], t[4]), t[1], t[2])
  BY DEF InterpFacts
<1>2. PICK t \in interp_assignment(e) :
        v \in VarFacts(operand_points_to(t[3], t[4]), t[1], t[2])
  BY <1>1
<1>3. <<e[2], e[4]>> \in stripctx_callgraph_edge
  BY DEF stripctx_callgraph_edge
<1>4. <<t[2], t[4]>> \in CF!Copies
  <2>1. CASE t \in Passed(e)
    <3>1. PICK p \in func_param, a \in actual_arg :
            /\ p[1] = e[2] /\ a[1] = e[4] /\ a[2] = p[2]
            /\ t = <<e[1], p[3], e[3], a[3]>>
      BY <2>1 DEF Passed
    <3>2. a \in { b \in CF!actual_arg : b[2] = p[2] /\ <<p[1], b[1]>> \in stripctx_callgraph_edge }
      BY <1>3, <3>1 DEF actual_arg, CF!actual_arg
    <3>3. <<t[2], t[4]>> = <<p[3], a[3]>>
      BY <3>1
    <3>4. <<t[2], t[4]>> \in CF!Passed(p)
      BY <3>2, <3>3 DEF CF!Passed
    <3>5. QED
      BY <3>4 DEF CF!Copies
  <2>2. CASE t \in Returned(e)
    <3>1. PICK u \in call_assigns_to, r \in func_returns_value :
            u[1] = e[4] /\ r[1] = e[2] /\ t = <<e[3], u[2], e[1], r[2]>>
      BY <2>2 DEF Returned
    <3>2. r \in { q \in func_returns_value : <<q[1], u[1]>> \in stripctx_callgraph_edge }
      BY <1>3, <3>1
    <3>3. <<t[2], t[4]>> = <<u[2], r[2]>>
      BY <3>1
    <3>4. <<t[2], t[4]>> \in CF!Returned(u)
      BY <3>2, <3>3 DEF CF!Returned
    <3>5. QED
      BY <3>4 DEF CF!Copies
  <2>3. QED
    BY <2>1, <2>2 DEF interp_assignment
<1>5. QED
  BY <1>2, <1>4, CopyStripped

LEMMA LoadStripped ==
  ASSUME TypeOK, NEW v \in LoadFacts \cup LoadMatchFacts
  PROVE  Strip(v) \in AllVarsStripped
<1> DEFINE From(s) == CF!operand_points_to(s[2].address)
           Bases(s) == From(s) \cup { m[1] : m \in { n \in alloc_matches : n[2] \in From(s) } }
<1>1. PICK s \in Sites(load_instr) :
        \/ v \in VarFacts(Loaded(s[1], s[2].address), s[1], s[2].to)
        \/ v \in VarFacts(LoadedMatching(s[1], s[2].address), s[1], s[2].to)
  BY DEF LoadFacts, LoadMatchFacts
<1>2. \A o \in Loaded(s[1], s[2].address) : o[2] \in CF!Pointees(Bases(s))
  <2>1. SUFFICES ASSUME NEW q \in operand_points_to(s[1], s[2].address), NEW o \in Pointees(q)
                 PROVE  o[2] \in CF!Pointees(Bases(s))
    BY DEF Loaded
  <2>2. q[2] \in Bases(s)
    BY ObjectStripped
  <2>3. QED
    BY <2>2, PointeeStripped
<1>3. \A o \in LoadedMatching(s[1], s[2].address) : o[2] \in CF!Pointees(Bases(s))
  <2> DEFINE Matching(o) ==
               UNION { Pointees(<<o[1], m[1]>>) : m \in { n \in alloc_matches : n[2] = o[2] } }
  <2>1. SUFFICES ASSUME NEW q \in operand_points_to(s[1], s[2].address), NEW o \in Matching(q)
                 PROVE  o[2] \in CF!Pointees(Bases(s))
    BY DEF LoadedMatching
  <2>2. PICK m \in alloc_matches : m[2] = q[2] /\ o \in Pointees(<<q[1], m[1]>>)
    OBVIOUS
  <2>3. m[1] \in Bases(s)
    BY <2>2, ObjectStripped
  <2>4. QED
    BY <2>2, <2>3, PointeeStripped
<1>4. PICK o \in Loaded(s[1], s[2].address) \cup LoadedMatching(s[1], s[2].address) :
        Strip(v) = <<o[2], s[2].to>>
  BY <1>1 DEF VarFacts, Strip
<1>5. s[2] \in CF!Reachable(load_instr)
  BY SiteReached
<1>6. Strip(v) \in CF!Loaded(From(s)) \X {s[2].to}
  BY <1>2, <1>3, <1>4 DEF CF!Loaded
<1>7. Strip(v) \in CF!LoadFacts
  BY <1>5, <1>6 DEF CF!LoadFacts
<1>8. QED
  BY <1>7 DEF AllVarsStripped

LEMMA AtExitStripped ==
  ASSUME NEW v \in AtExitFacts
  PROVE  Strip(v) \in AllVarsStripped
<1>1. PICK d \in dtor_accepts_recv : \E p \in func_param :
        p[1] = d[3] /\ p[2] = 0 /\ v = <<d[1], d[2], exit_context, p[3]>>
  BY DEF AtExitFacts
<1>2. PICK p \in func_param : p[1] = d[3] /\ p[2] = 0 /\ v = <<d[1], d[2], exit_context, p[3]>>
  BY <1>1
<1>3. p \in { q \in func_param : q[1] = <<d[2], d[3]>>[2] /\ q[2] = 0 }
  BY <1>2
<1>4. Strip(v) = <<<<d[2], d[3]>>[1], p[3]>>
  BY <1>2 DEF Strip
<1>5. Strip(v) \in CF!Receives(<<d[2], d[3]>>)
  BY <1>3, <1>4 DEF CF!Receives
<1>6. <<d[2], d[3]>> \in CF!Destroyed
  BY DestroyedStripped
<1>7. QED
  BY <1>5, <1>6 DEF AllVarsStripped, CF!VarFacts

LEMMA VarsStripped ==
  ASSUME TypeOK, NEW v \in AllVarFacts
  PROVE  Strip(v) \in AllVarsStripped
  BY GivenStripped, AssignStripped, InterpStripped, LoadStripped, AtExitStripped DEF AllVarFacts

-----------------------------------------------------------------------------
(* Facts about memory. *)
AllPtrsStripped == CF!PtrFacts \cup CF!SharedFacts

LEMMA InitialStripped ==
  ASSUME NEW p \in InitialFacts
  PROVE  Strip(p) \in AllPtrsStripped
  BY DEF InitialFacts, Strip, AllPtrsStripped, CF!PtrFacts

LEMMA StoreStripped ==
  ASSUME TypeOK, NEW p \in StoreFacts
  PROVE  Strip(p) \in AllPtrsStripped
<1>1. PICK s \in Sites(store_instr) :
        p \in PtrFacts(operand_points_to(s[1], s[2].value),
                       { o \in operand_points_to(s[1], s[2].address) :
                           o[2] \in ptr_compatible_allocation })
  BY DEF StoreFacts
<1>2. PICK b \in operand_points_to(s[1], s[2].address) :
        /\ b[2] \in ptr_compatible_allocation
        /\ \E o \in operand_points_to(s[1], s[2].value) : p = <<o[1], o[2], b[1], b[2]>>
  BY <1>1 DEF PtrFacts
<1>3. PICK o \in operand_points_to(s[1], s[2].value) : p = <<o[1], o[2], b[1], b[2]>>
  BY <1>2
<1>4. s[2] \in CF!Reachable(store_instr)
  BY SiteReached
<1>5. Strip(p) \in CF!operand_points_to(s[2].value)
                     \X (CF!operand_points_to(s[2].address) \cap ptr_compatible_allocation)
  BY <1>2, <1>3, ObjectStripped DEF Strip
<1>6. Strip(p) \in CF!Stored(s[2])
  BY <1>5 DEF CF!Stored
<1>7. QED
  BY <1>4, <1>6 DEF AllPtrsStripped, CF!PtrFacts

LEMMA SharedStripped ==
  ASSUME NEW p \in AliasBaseFacts \cup AliasTargetFacts \cup MatchFacts
  PROVE  Strip(p) \in AllPtrsStripped
<1>1. PICK q \in ptr_points_to : Strip(p) \in CF!Renamed(Strip(q)) \cup CF!Retargeted(Strip(q))
  <2>1. CASE p \in AliasBaseFacts
    BY <2>1 DEF AliasBaseFacts, Strip, CF!Renamed, CF!Retargeted
  <2>2. CASE p \in AliasTargetFacts
    BY <2>2 DEF AliasTargetFacts, Strip, CF!Renamed, CF!Retargeted
  <2>3. CASE p \in MatchFacts
    BY <2>3 DEF MatchFacts, Strip, CF!Renamed, CF!Retargeted
  <2>4. QED
    BY <2>1, <2>2, <2>3
<1>2. Strip(q) \in stripctx_ptr_points_to
  BY DEF stripctx_ptr_points_to, Strip
<1>3. Strip(p) \in CF!SharedFacts
  BY <1>1, <1>2 DEF CF!SharedFacts
<1>4. QED
  BY <1>3 DEF AllPtrsStripped

LEMMA PtrsStripped ==
  ASSUME TypeOK, NEW p \in AllPtrFacts
  PROVE  Strip(p) \in AllPtrsStripped
  BY InitialStripped, StoreStripped, SharedStripped DEF AllPtrFacts

-----------------------------------------------------------------------------
(* A step of the analysis is a step of the analysis without contexts. *)
LEMMA DerivesStripped == TypeOK /\ Derives => CF!Derives
<1> SUFFICES ASSUME TypeOK, Derives PROVE CF!Derives
  OBVIOUS
<1>1. CF!Adds(ReachableFunctions, ReachableFunctions', CF!FunctionFacts)
  BY FunctionsStripped DEF Derives, ReachableFunctions, CF!Adds
<1>2. CF!Adds(stripctx_callgraph_edge, stripctx_callgraph_edge', CF!DirectEdges \cup CF!IndirectEdges)
  BY EdgesStripped DEF Derives, stripctx_callgraph_edge, StripEdge, CF!Adds
<1>3. CF!Adds(called_at_exit, called_at_exit', CF!Registered \cup { d[2] : d \in CF!Destroyed })
  <2>1. \A d \in dtor_accepts_recv : d[3] \in { x[2] : x \in CF!Destroyed }
    <3>1. ASSUME NEW d \in dtor_accepts_recv PROVE d[3] \in { x[2] : x \in CF!Destroyed }
      <4>1. <<d[2], d[3]>> \in CF!Destroyed /\ <<d[2], d[3]>>[2] = d[3]
        BY DestroyedStripped
      <4>2. QED
        BY <4>1
    <3>2. QED
      BY <3>1
  <2>2. QED
    BY <2>1, RegisteredStripped DEF Derives, CF!Adds
<1>4. CF!Adds(stripctx_var_points_to, stripctx_var_points_to', AllVarsStripped)
  <2>1. var_points_to \subseteq var_points_to' /\ var_points_to' \subseteq var_points_to \cup AllVarFacts
    BY DEF Derives, AllVarFacts
  <2>2. QED
    BY <2>1, VarsStripped DEF stripctx_var_points_to, Strip, CF!Adds
<1>5. CF!Adds(stripctx_ptr_points_to, stripctx_ptr_points_to', AllPtrsStripped)
  <2>1. ptr_points_to \subseteq ptr_points_to' /\ ptr_points_to' \subseteq ptr_points_to \cup AllPtrFacts
    BY DEF Derives, AllPtrFacts
  <2>2. QED
    BY <2>1, PtrsStripped DEF stripctx_ptr_points_to, Strip, CF!Adds
<1>6. QED
  BY <1>1, <1>2, <1>3, <1>4, <1>5 DEF CF!Derives, AllVarsStripped, AllPtrsStripped

(* The analysis implements an analysis without contexts: whatever the        *)
(* contexts, a function, an edge or a points-to fact is derived in one only  *)
(* if it follows from the instructions and the call graph alone.            *)
THEOREM ContextsOnlyAddPrecision == Spec => ImplementsContextFree
<1>1. Init => CF!Init
  BY DEF Init, CF!Init, ReachableFunctions, stripctx_callgraph_edge, stripctx_var_points_to,
         stripctx_ptr_points_to
<1>2. UNCHANGED vars => UNCHANGED CF!vars
  BY DEF vars, callgraph, CF!vars, ReachableFunctions, stripctx_callgraph_edge,
         stripctx_var_points_to, stripctx_ptr_points_to
<1>3. IInv /\ [Derives]_vars => [CF!Derives]_(CF!vars)
  BY <1>2, DerivesStripped DEF IInv
<1>4. QED
  BY Invariance, SpecDerives, <1>1, <1>3, PTL DEF DerivationSpec, ImplementsContextFree, CF!Spec

-----------------------------------------------------------------------------
(***************************************************************************)
(* Soundness, for every program: once the rules are exhausted, no          *)
(* execution of whatever length and depth does what the analysis does not  *)
(* know of.                                                                *)
(***************************************************************************)
(* The contexts that argv and the receivers of destructors are given are    *)
(* those of a context-sensitive analysis.                                   *)
RootContextsInUse ==
  ~ insensitive \/ (argv_var_points_to = {} /\ cxa_atexit = {})

(* Each frame is known, and so is each call that is under way. *)
StackCovered(s) ==
  /\ \A n \in 1 .. Len(s) : FrameCovered(s[n])
  /\ \A n \in 1 .. Len(s) - 1 :
       <<s[n].ctx, s[n].func, s[n + 1].ctx, s[n].call>> \in callgraph_edge

(* A function that is to run at exit is known, and the object it is given.  *)
ExitCovered(exit_call) ==
  /\ exit_call[1] \in called_at_exit
  /\ \A b \in exit_call[2] :
       <<b[2].ctx, b[2].alloc, root_context("exit"), b[1]>> \in var_points_to

MachineCovered(s, m, x) ==
  /\ s \in Seq(Frame) /\ StackCovered(s)
  /\ m \subseteq Location \X Location /\ \A cell \in m : CellCovered(cell)
  /\ x \subseteq Function \X Bindings /\ \A exit_call \in x : ExitCovered(exit_call)

(* The inductive invariant. *)
ExecutionInv ==
  /\ IInv
  /\ analysed \in BOOLEAN /\ objects \in Nat
  /\ ~ analysed => MachineInit
  /\ analysed => Fixpoint /\ MachineCovered(stack, memory, exit_calls)

-----------------------------------------------------------------------------
(* Leaving a frame. *)
LEMMA TailCovered ==
  ASSUME NEW s \in Seq(Frame), s # << >>, StackCovered(s)
  PROVE  Tail(s) \in Seq(Frame) /\ StackCovered(Tail(s))
<1> DEFINE t == Tail(s)
<1>1. /\ t \in Seq(Frame) /\ Len(t) = Len(s) - 1
      /\ \A n \in 1 .. Len(t) : t[n] = s[n + 1]
  BY HeadTailProperties
<1>2. Len(s) \in Nat /\ Len(t) \in Nat
  BY <1>1, LenProperties
<1> HIDE DEF t
<1>3. \A n \in 1 .. Len(t) : FrameCovered(t[n])
  BY <1>1, <1>2 DEF StackCovered
<1>4. ASSUME NEW n \in 1 .. Len(t) - 1
      PROVE  <<t[n].ctx, t[n].func, t[n + 1].ctx, t[n].call>> \in callgraph_edge
  <2>1. /\ n \in 1 .. Len(t) /\ n + 1 \in 1 .. Len(t)
        /\ n + 1 \in 1 .. Len(s) - 1
    BY <1>1, <1>2
  <2>2. t[n] = s[n + 1] /\ t[n + 1] = s[(n + 1) + 1]
    BY <1>1, <2>1
  <2>3. QED
    BY <2>1, <2>2 DEF StackCovered
<1>5. QED
  BY <1>1, <1>3, <1>4 DEF StackCovered, t

(* Entering a frame. *)
LEMMA ConsCovered ==
  ASSUME NEW s \in Seq(Frame), StackCovered(s), NEW f \in Frame, FrameCovered(f),
         s # << >> => <<f.ctx, f.func, s[1].ctx, f.call>> \in callgraph_edge
  PROVE  <<f>> \o s \in Seq(Frame) /\ StackCovered(<<f>> \o s)
<1> DEFINE t == <<f>> \o s
<1>1. <<f>> \in Seq(Frame) /\ Len(<<f>>) = 1 /\ <<f>>[1] = f
  OBVIOUS
<1>2. /\ t \in Seq(Frame) /\ Len(t) = 1 + Len(s)
      /\ \A n \in 1 .. 1 + Len(s) : t[n] = IF n <= 1 THEN f ELSE s[n - 1]
  BY <1>1, ConcatProperties
<1>3. Len(s) \in Nat /\ (Len(s) # 0 => s # << >>)
  BY LenProperties, EmptySeq
<1> HIDE DEF t
<1>4. ASSUME NEW n \in 1 .. Len(t) PROVE FrameCovered(t[n])
  <2>1. CASE n = 1
    BY <1>2, <1>3, <2>1
  <2>2. CASE n # 1
    <3>1. n - 1 \in 1 .. Len(s) /\ t[n] = s[n - 1]
      BY <1>2, <1>3, <2>2
    <3>2. QED
      BY <3>1 DEF StackCovered
  <2>3. QED
    BY <2>1, <2>2
<1>5. ASSUME NEW n \in 1 .. Len(t) - 1
      PROVE  <<t[n].ctx, t[n].func, t[n + 1].ctx, t[n].call>> \in callgraph_edge
  <2>1. CASE n = 1
    <3>1. t[n] = f /\ t[n + 1] = s[1] /\ s # << >>
      BY <1>2, <1>3, <2>1
    <3>2. QED
      BY <3>1
  <2>2. CASE n # 1
    <3> DEFINE m == n - 1
    <3>1. m \in 1 .. Len(s) - 1 /\ t[n] = s[m] /\ t[n + 1] = s[m + 1]
      BY <1>2, <1>3, <2>2
    <3>2. QED
      BY <3>1 DEF StackCovered
  <2>3. QED
    BY <2>1, <2>2
<1>6. QED
  BY <1>2, <1>4, <1>5 DEF StackCovered, t

(* Setting a variable of the innermost frame. *)
LEMMA AssignedCovered ==
  ASSUME NEW s \in Seq(Frame), s # << >>, StackCovered(s),
         NEW var \in Variable, NEW loc \in Location,
         <<loc.ctx, loc.alloc, s[1].ctx, var>> \in var_points_to
  PROVE  LET t == <<[s[1] EXCEPT !.env = Assigned(s[1].env, var, loc)]>> \o Tail(s)
         IN  t \in Seq(Frame) /\ StackCovered(t)
<1> DEFINE r == Tail(s)
           f == [s[1] EXCEPT !.env = Assigned(s[1].env, var, loc)]
<1>1. /\ r \in Seq(Frame) /\ Len(r) = Len(s) - 1
      /\ \A n \in 1 .. Len(r) : r[n] = s[n + 1]
  BY HeadTailProperties
<1>2. Len(s) \in Nat \ {0} /\ Len(r) \in Nat /\ (r # << >> => Len(r) # 0)
  BY <1>1, LenProperties, EmptySeq
<1>3. s[1] \in Frame /\ FrameCovered(s[1])
  BY <1>2, ElementOfSeq DEF StackCovered
<1>4. Assigned(s[1].env, var, loc) \in Bindings
  BY <1>3 DEF Assigned, Frame, Bindings
<1>5. f \in Frame /\ f.ctx = s[1].ctx /\ f.func = s[1].func /\ f.call = s[1].call
      /\ f.env = Assigned(s[1].env, var, loc)
  BY <1>3, <1>4 DEF Frame
<1>6. FrameCovered(f)
  BY <1>3, <1>5 DEF FrameCovered, Assigned
<1>7. StackCovered(r)
  BY TailCovered
<1> HIDE DEF f, r
<1>8. r # << >> => <<f.ctx, f.func, r[1].ctx, f.call>> \in callgraph_edge
  <2>1. SUFFICES ASSUME r # << >> PROVE <<f.ctx, f.func, r[1].ctx, f.call>> \in callgraph_edge
    OBVIOUS
  <2>2. 1 \in 1 .. Len(s) - 1 /\ r[1] = s[1 + 1]
    BY <1>1, <1>2, <2>1
  <2>3. QED
    BY <1>5, <2>2 DEF StackCovered
<1>9. QED
  BY <1>1, <1>5, <1>6, <1>7, <1>8, ConsCovered DEF f, r

(* A location of an execution, and the object that stands for it. *)
ObjectOf(loc) == <<loc.ctx, loc.alloc>>

(* The values of operands are among what the analysis lets them point to. *)
LEMMA ValuesCovered ==
  ASSUME NEW f \in Frame, FrameCovered(f), NEW operand, NEW loc \in ValuesOf(f, operand)
  PROVE  loc \in Location /\ ObjectOf(loc) \in operand_points_to(f.ctx, operand)
<1>1. CASE \E b \in f.env : b[1] = operand /\ b[2] = loc
  <2>1. PICK b \in f.env : b[1] = operand /\ b[2] = loc
    BY <1>1
  <2>2. loc \in Location
    BY <2>1 DEF Frame, Bindings
  <2>3. <<loc.ctx, loc.alloc, f.ctx, operand>> \in var_points_to
    BY <2>1 DEF FrameCovered
  <2>4. QED
    BY <2>2, <2>3 DEF operand_points_to, ObjectOf
<1>2. CASE \E c \in constant_points_to :
             c[1] = operand /\ <<c[1], f.func>> \in constant_in_func /\ loc = Static(c[2])
  <2>1. PICK c \in constant_points_to :
             c[1] = operand /\ <<c[1], f.func>> \in constant_in_func /\ loc = Static(c[2])
    BY <1>2
  <2>2. c[2] \in Allocation
    BY ProgramAssumption
  <2>3. loc \in Location /\ loc.ctx = nil /\ loc.alloc = c[2]
    BY <2>1, <2>2, NilContext DEF Static, Location
  <2>4. f.ctx \in ContextsOf(f.func) /\ f.func \in Function
    BY DEF FrameCovered, ContextsOf, Frame
  <2>5. QED
    BY <2>1, <2>3, <2>4 DEF operand_points_to, ObjectOf
<1>3. QED
  BY <1>1, <1>2 DEF ValuesOf

-----------------------------------------------------------------------------
(* What every step of a machine starts from. *)
Ready ==
  /\ IInv /\ Fixpoint /\ RootContextsInUse /\ objects \in Nat
  /\ MachineCovered(stack, memory, exit_calls)

(* At a fixpoint, what can be derived has been. *)
LEMMA FactsKnown ==
  ASSUME Fixpoint
  PROVE  /\ AllVarFacts \subseteq var_points_to
         /\ AllPtrFacts \subseteq ptr_points_to
         /\ RootFacts \subseteq reachable_context /\ CalleeFacts \subseteq reachable_context
  BY DEF Fixpoint, AllVarFacts, AllPtrFacts

(* The innermost frame. *)
LEMMA TopCovered ==
  ASSUME Ready, stack # << >>
  PROVE  /\ stack \in Seq(Frame) /\ StackCovered(stack)
         /\ top = stack[1] /\ top \in Frame /\ FrameCovered(top)
         /\ top.ctx \in ContextsOf(top.func) /\ top.ctx \in Context
<1>1. stack \in Seq(Frame) /\ StackCovered(stack)
  BY DEF Ready, MachineCovered
<1>2. Len(stack) \in Nat \ {0}
  BY <1>1, LenProperties, EmptySeq
<1>3. top = stack[1] /\ stack[1] \in Frame /\ FrameCovered(stack[1])
  BY <1>1, <1>2, ElementOfSeq DEF top, StackCovered
<1>4. top.ctx \in ContextsOf(top.func) /\ top.ctx \in Context
  BY <1>3 DEF FrameCovered, ContextsOf, Frame
<1>5. QED
  BY <1>1, <1>3, <1>4

(* An instruction of the innermost frame is a site. *)
LEMMA RunningSite ==
  ASSUME Ready, NEW instrs, NEW i \in instrs, Running(i.func)
  PROVE  <<top.ctx, i>> \in Sites(instrs)
<1>1. top.ctx \in ContextsOf(i.func)
  BY TopCovered DEF Running
<1>2. QED
  BY <1>1 DEF Sites

(* Setting a variable of the innermost frame to what the analysis knows. *)
LEMMA SetCovered ==
  ASSUME Ready, stack # << >>, NEW var \in Variable, NEW loc \in Location,
         <<loc.ctx, loc.alloc, top.ctx, var>> \in var_points_to,
         stack' = <<[top EXCEPT !.env = Assigned(top.env, var, loc)]>> \o Tail(stack),
         UNCHANGED <<memory, exit_calls>>
  PROVE  MachineCovered(stack', memory', exit_calls')
<1>1. stack' \in Seq(Frame) /\ StackCovered(stack')
  BY TopCovered, AssignedCovered
<1>2. QED
  BY <1>1 DEF Ready, MachineCovered

(* A new object. *)
LEMMA AllocateCovered ==
  ASSUME Ready, NEW i \in alloca_or_malloc, Allocate(i)
  PROVE  MachineCovered(stack', memory', exit_calls') /\ objects' \in Nat
<1> DEFINE loc == [alloc |-> i.alloc, ctx |-> top.ctx, id |-> objects + 1]
<1>1. i.alloc \in Allocation /\ i.to \in Variable
  BY ProgramAssumption
<1>2. stack # << >> /\ objects' = objects + 1
  BY DEF Allocate, Running
<1>3. loc \in Location /\ loc.ctx = top.ctx /\ loc.alloc = i.alloc
  BY <1>1, <1>2, TopCovered DEF Location, Ready
<1>4. <<top.ctx, i.alloc, top.ctx, i.to>> \in var_points_to
  <2>1. <<top.ctx, i>> \in Sites(alloca_or_malloc)
    BY RunningSite DEF Allocate
  <2>2. <<top.ctx, i.alloc, top.ctx, i.to>> \in AllocatedFacts
    BY <2>1 DEF AllocatedFacts
  <2>3. QED
    BY <2>2, FactsKnown DEF AllVarFacts, Ready
<1>5. /\ stack' = <<[top EXCEPT !.env = Assigned(top.env, i.to, loc)]>> \o Tail(stack)
      /\ UNCHANGED <<memory, exit_calls>>
  BY DEF Allocate
<1> HIDE DEF loc
<1>6. MachineCovered(stack', memory', exit_calls')
  BY <1>1, <1>2, <1>3, <1>4, <1>5, SetCovered
<1>7. QED
  BY <1>2, <1>6 DEF Ready

(* A copy. *)
LEMMA AssignCovered ==
  ASSUME Ready, NEW i \in assign_instr, Assign(i)
  PROVE  MachineCovered(stack', memory', exit_calls') /\ objects' \in Nat
<1>1. PICK loc \in ValuesOf(top, i.value) : Set(i.to, loc)
  BY DEF Assign
<1>2. stack # << >> /\ Running(i.func) /\ i.to \in Variable
  BY ProgramAssumption DEF Assign, Running
<1>3. loc \in Location /\ ObjectOf(loc) \in operand_points_to(top.ctx, i.value)
  BY <1>2, TopCovered, ValuesCovered
<1>4. <<loc.ctx, loc.alloc, top.ctx, i.to>> \in var_points_to
  <2>1. i.func = top.func /\ top.ctx \in ContextsOf(i.func)
    BY <1>2, TopCovered DEF Running
  <2>2. top.ctx \in KnownContexts /\ reachable_func(i.func)
    BY <2>1 DEF KnownContexts, reachable_func, ContextsOf
  <2>3. <<loc.ctx, loc.alloc, top.ctx, i.to>>
          \in VarFacts(operand_points_to(top.ctx, i.value), top.ctx, i.to)
    BY <1>3 DEF VarFacts, ObjectOf
  <2>4. <<loc.ctx, loc.alloc, top.ctx, i.to>> \in AssignFacts
    BY <2>2, <2>3 DEF AssignFacts
  <2>5. QED
    BY <2>4, FactsKnown DEF AllVarFacts, Ready
<1>5. QED
  BY <1>1, <1>2, <1>3, <1>4, SetCovered DEF Assign, Set, Ready

(* A load, through whatever alias of the place that was stored to. *)
LEMMA LoadCovered ==
  ASSUME Ready, NEW i \in load_instr, Load(i)
  PROVE  MachineCovered(stack', memory', exit_calls') /\ objects' \in Nat
<1>1. PICK base \in ValuesOf(top, i.address) :
        \E cell \in memory : SamePlace(cell[1], base) /\ Set(i.to, cell[2])
  BY DEF Load
<1>2. PICK cell \in memory : SamePlace(cell[1], base) /\ Set(i.to, cell[2])
  BY <1>1
<1>3. stack # << >> /\ Running(i.func) /\ i.to \in Variable
  BY ProgramAssumption DEF Load, Running
<1>4. base \in Location /\ ObjectOf(base) \in operand_points_to(top.ctx, i.address)
  BY <1>3, TopCovered, ValuesCovered
<1>5. cell[1] \in Location /\ cell[2] \in Location /\ CellCovered(cell)
  BY DEF Ready, MachineCovered
<1> DEFINE fact == <<cell[2].ctx, cell[2].alloc, base.ctx, base.alloc>>
<1>6. fact \in ptr_points_to
  <2>1. /\ cell[1].ctx = base.ctx /\ <<base.alloc, cell[1].alloc>> \in alloc_aliases
    <3>1. cell[1].alloc \in Allocation /\ base.alloc \in Allocation
      BY <1>4, <1>5 DEF Location
    <3>2. QED
      BY <1>2, <3>1, AliasAssumption DEF SamePlace
  <2>2. <<cell[2].ctx, cell[2].alloc, cell[1].ctx, cell[1].alloc>> \in ptr_points_to
    BY <1>5 DEF CellCovered
  <2>3. fact \in AliasBaseFacts
    BY <2>1, <2>2 DEF AliasBaseFacts
  <2>4. QED
    BY <2>3, FactsKnown DEF AllPtrFacts, Ready
<1>7. <<cell[2].ctx, cell[2].alloc, top.ctx, i.to>> \in var_points_to
  <2>1. <<cell[2].ctx, cell[2].alloc>> \in Pointees(ObjectOf(base))
    BY <1>6 DEF Pointees, ObjectOf
  <2>2. <<cell[2].ctx, cell[2].alloc>> \in Loaded(top.ctx, i.address)
    BY <1>4, <2>1 DEF Loaded
  <2>3. <<cell[2].ctx, cell[2].alloc, top.ctx, i.to>>
          \in VarFacts(Loaded(top.ctx, i.address), top.ctx, i.to)
    BY <2>2 DEF VarFacts
  <2>4. <<top.ctx, i>> \in Sites(load_instr)
    BY <1>3, RunningSite
  <2>5. <<cell[2].ctx, cell[2].alloc, top.ctx, i.to>> \in LoadFacts
    BY <2>3, <2>4 DEF LoadFacts
  <2>6. QED
    BY <2>5, FactsKnown DEF AllVarFacts, Ready
<1>8. QED
  BY <1>2, <1>3, <1>5, <1>7, SetCovered DEF Load, Set, Ready

(* A store. *)
LEMMA StoreCovered ==
  ASSUME Ready, NEW i \in store_instr, Store(i)
  PROVE  MachineCovered(stack', memory', exit_calls') /\ objects' \in Nat
<1>1. PICK base \in ValuesOf(top, i.address), loc \in ValuesOf(top, i.value) :
        /\ base.alloc \in ptr_compatible_allocation
        /\ memory' = { cell \in memory : ~ SamePlace(cell[1], base) } \cup {<<base, loc>>}
  BY DEF Store
<1>2. stack # << >> /\ Running(i.func)
  BY DEF Store, Running
<1>3. /\ base \in Location /\ ObjectOf(base) \in operand_points_to(top.ctx, i.address)
      /\ loc \in Location /\ ObjectOf(loc) \in operand_points_to(top.ctx, i.value)
  BY <1>2, TopCovered, ValuesCovered
<1>4. <<loc.ctx, loc.alloc, base.ctx, base.alloc>> \in ptr_points_to
  <2>1. <<top.ctx, i>> \in Sites(store_instr)
    BY <1>2, RunningSite
  <2> DEFINE fact == <<loc.ctx, loc.alloc, base.ctx, base.alloc>>
             Stored(s) ==
               PtrFacts(operand_points_to(s[1], s[2].value),
                        { o \in operand_points_to(s[1], s[2].address) :
                            o[2] \in ptr_compatible_allocation })
  <2>2. fact \in Stored(<<top.ctx, i>>)
    BY <1>1, <1>3 DEF PtrFacts, ObjectOf
  <2>3. fact \in StoreFacts
    <3>1. StoreFacts = UNION { Stored(s) : s \in Sites(store_instr) }
      BY DEF StoreFacts
    <3> HIDE DEF Stored
    <3>2. QED
      BY <2>1, <2>2, <3>1
  <2>4. QED
    BY <2>3, FactsKnown DEF AllPtrFacts, Ready
<1>5. memory' \subseteq Location \X Location /\ \A cell \in memory' : CellCovered(cell)
  <2>1. memory \subseteq Location \X Location /\ \A cell \in memory : CellCovered(cell)
    BY DEF Ready, MachineCovered
  <2>2. <<base, loc>> \in Location \X Location /\ CellCovered(<<base, loc>>)
    BY <1>3, <1>4 DEF CellCovered
  <2>3. memory' \subseteq memory \cup {<<base, loc>>}
    BY <1>1
  <2>4. QED
    BY <2>1, <2>2, <2>3
<1>6. QED
  BY <1>5 DEF Store, Ready, MachineCovered

-----------------------------------------------------------------------------
(* The first frame of a stack. *)
LEMMA EnterCovered ==
  ASSUME Ready, NEW func \in Function, NEW ctx \in Context, NEW env \in Bindings,
         Enter(func, ctx, env), <<ctx, func>> \in reachable_context,
         \A b \in env : <<b[2].ctx, b[2].alloc, ctx, b[1]>> \in var_points_to
  PROVE  MachineCovered(stack', memory', exit_calls') /\ objects' \in Nat
<1> DEFINE f == [func |-> func, ctx |-> ctx, call |-> "root", env |-> env]
<1>1. f \in Frame /\ FrameCovered(f)
  BY DEF Frame, FrameCovered
<1>2. /\ stack = << >> /\ stack' = <<f>>
      /\ UNCHANGED <<memory, objects, exit_calls>>
  BY DEF Enter
<1> HIDE DEF f
<1>3. /\ <<f>> \in Seq(Frame) /\ Len(<<f>>) = 1 /\ <<f>>[1] = f
  BY <1>1
<1>4. StackCovered(<<f>>)
  <2>1. \A n \in 1 .. Len(<<f>>) : n = 1
    BY <1>3
  <2>2. 1 .. Len(<<f>>) - 1 = {}
    BY <1>3
  <2>3. QED
    BY <1>1, <1>3, <2>1, <2>2 DEF StackCovered
<1>5. QED
  BY <1>2, <1>3, <1>4 DEF Ready, MachineCovered

(* The run-time system calls main, an initializer or an exported function.  *)
LEMMA EnterRootCovered ==
  ASSUME Ready, NEW root \in Roots, EnterRoot(root)
  PROVE  MachineCovered(stack', memory', exit_calls') /\ objects' \in Nat
<1> DEFINE ctx == root_context(root[1])
           env == IF root[1] = "main"
                  THEN { <<a[1], Static(a[2])>> : a \in argv_var_points_to } ELSE {}
<1>1. root[1] \in {"main", "startup", "library"} /\ root[2] \in Function
  BY ProgramAssumption
<1>2. ctx \in Context /\ <<ctx, root[2]>> \in reachable_context
  <2>1. <<ctx, root[2]>> \in RootFacts
    BY DEF RootFacts
  <2>2. QED
    BY <1>1, <2>1, RootContextType, FactsKnown DEF Ready
<1>3. ASSUME NEW b \in env
      PROVE  /\ b \in Variable \X Location
             /\ <<b[2].ctx, b[2].alloc, ctx, b[1]>> \in var_points_to
  <2>1. PICK a \in argv_var_points_to : b = <<a[1], Static(a[2])>> /\ root[1] = "main"
    BY <1>3
  <2>2. a[1] \in Variable /\ a[2] \in Allocation
    BY ProgramAssumption
  <2>3. /\ Static(a[2]) \in Location
        /\ Static(a[2]).ctx = nil /\ Static(a[2]).alloc = a[2]
    BY <2>2, NilContext DEF Static, Location
  <2>4. ctx = main_context
    BY <2>1 DEF Ready, RootContextsInUse, root_context
  <2>5. <<nil, a[2], main_context, a[1]>> \in var_points_to
    BY FactsKnown DEF ArgvFacts, AllVarFacts, Ready
  <2>6. QED
    BY <2>1, <2>2, <2>3, <2>4, <2>5
<1>4. env \in Bindings
  BY <1>3 DEF Bindings
<1>5. Enter(root[2], ctx, env)
  BY DEF EnterRoot
<1> HIDE DEF ctx, env
<1>6. QED
  BY <1>1, <1>2, <1>3, <1>4, <1>5, EnterCovered

(* The run-time system calls what was registered to run at exit. *)
LEMMA EnterAtExitCovered ==
  ASSUME Ready, NEW x \in exit_calls, EnterAtExit(x)
  PROVE  MachineCovered(stack', memory', exit_calls') /\ objects' \in Nat
<1>1. x[1] \in Function /\ x[2] \in Bindings /\ ExitCovered(x)
  BY DEF Ready, MachineCovered
<1>2. <<root_context("exit"), x[1]>> \in reachable_context
  <2>1. <<root_context("exit"), x[1]>> \in RootFacts
    BY <1>1 DEF ExitCovered, RootFacts
  <2>2. QED
    BY <2>1, FactsKnown DEF Ready
<1>3. root_context("exit") \in Context
  BY RootContextType
<1>4. QED
  BY <1>1, <1>2, <1>3, EnterCovered DEF EnterAtExit, ExitCovered

-----------------------------------------------------------------------------
(* A frame ends without a result. *)
LEMMA ReturnNothingCovered ==
  ASSUME Ready, ReturnNothing
  PROVE  MachineCovered(stack', memory', exit_calls') /\ objects' \in Nat
<1>1. stack' \in Seq(Frame) /\ StackCovered(stack')
  BY TopCovered, TailCovered DEF ReturnNothing
<1>2. QED
  BY <1>1 DEF ReturnNothing, Ready, MachineCovered

(* A frame ends with a result, which the caller's variable is set to. *)
LEMMA ReturnCovered ==
  ASSUME Ready, NEW r \in func_returns_value, Return(r)
  PROVE  MachineCovered(stack', memory', exit_calls') /\ objects' \in Nat
<1>1. PICK loc \in ValuesOf(top, r[2]), t \in call_assigns_to :
        /\ t[1] = top.call
        /\ stack' = <<[stack[2] EXCEPT !.env = Assigned(stack[2].env, t[2], loc)]>>
                    \o Tail(Tail(stack))
  BY DEF Return
<1>2. Len(stack) > 1 /\ stack # << >> /\ r[1] = top.func
  BY DEF Return, Running
<1> DEFINE s == Tail(stack)
<1>3. /\ s \in Seq(Frame) /\ StackCovered(s)
      /\ s # << >> /\ s[1] = stack[2]
  <2>1. s \in Seq(Frame) /\ StackCovered(s)
    BY <1>2, TopCovered, TailCovered
  <2>2. /\ Len(s) = Len(stack) - 1 /\ \A n \in 1 .. Len(s) : s[n] = stack[n + 1]
    BY <1>2, TopCovered, HeadTailProperties
  <2>3. Len(stack) \in Nat
    BY <1>2, TopCovered, LenProperties
  <2>4. s # << >>
    <3> HIDE DEF s
    <3>1. Len(s) # 0
      BY <1>2, <2>2, <2>3
    <3>2. QED
      BY <2>1, <3>1, EmptySeq
  <2>5. s[1] = stack[1 + 1]
    BY <1>2, <2>2, <2>3
  <2>6. QED
    BY <2>1, <2>4, <2>5
<1>4. t[2] \in Variable
  BY ProgramAssumption
<1>5. loc \in Location /\ ObjectOf(loc) \in operand_points_to(top.ctx, r[2])
  BY <1>2, TopCovered, ValuesCovered
<1> DEFINE e == <<top.ctx, top.func, stack[2].ctx, top.call>>
<1>6. e \in callgraph_edge
  <2>1. Len(stack) \in Nat /\ 1 \in 1 .. Len(stack) - 1
    BY <1>2, TopCovered, LenProperties
  <2>2. <<stack[1].ctx, stack[1].func, stack[1 + 1].ctx, stack[1].call>> \in callgraph_edge
    BY <1>2, <2>1, TopCovered DEF StackCovered
  <2>3. QED
    BY <1>2, <2>2, TopCovered
<1>7. <<loc.ctx, loc.alloc, s[1].ctx, t[2]>> \in var_points_to
  <2> DEFINE assignment == <<stack[2].ctx, t[2], top.ctx, r[2]>>
             fact == <<loc.ctx, loc.alloc, stack[2].ctx, t[2]>>
  <2>1. assignment \in Returned(e)
    BY <1>1, <1>2 DEF Returned
  <2>2. assignment \in interp_assignment(e)
    BY <2>1 DEF interp_assignment
  <2>3. fact \in VarFacts(operand_points_to(assignment[3], assignment[4]),
                          assignment[1], assignment[2])
    BY <1>5 DEF VarFacts, ObjectOf
  <2> HIDE DEF assignment, e
  <2>4. fact \in InterpFacts
    BY <1>6, <2>2, <2>3 DEF InterpFacts
  <2>5. fact \in var_points_to
    BY <2>4, FactsKnown DEF AllVarFacts, Ready
  <2>6. QED
    BY <1>3, <2>5
<1>8. stack' = <<[s[1] EXCEPT !.env = Assigned(s[1].env, t[2], loc)]>> \o Tail(s)
  BY <1>1, <1>3
<1> HIDE DEF s
<1>9. stack' \in Seq(Frame) /\ StackCovered(stack')
  BY <1>3, <1>4, <1>5, <1>7, <1>8, AssignedCovered
<1>10. QED
  BY <1>9 DEF Return, Ready, MachineCovered

-----------------------------------------------------------------------------
(* The functions that the values of an operand hold are known.              *)
LEMMA FunctionsCovered ==
  ASSUME NEW locs, NEW objs, \A loc \in locs : ObjectOf(loc) \in objs
  PROVE  FunctionsOf(locs) \subseteq FunctionsAt(objs)
<1>1. { <<loc.ctx, loc.alloc>> : loc \in locs } \subseteq objs
  BY DEF ObjectOf
<1>2. QED
  BY <1>1 DEF FunctionsOf, FunctionsAt

(* The values of an argument are among what it points to. *)
LEMMA ArgumentCovered ==
  ASSUME Ready, stack # << >>, NEW args, NEW call, NEW index,
         NEW loc \in ArgumentValues(args, call, index)
  PROVE  /\ loc \in Location
         /\ \E a \in Args(args, call, index) : ObjectOf(loc) \in operand_points_to(top.ctx, a)
<1>1. PICK a \in Args(args, call, index) : loc \in ValuesOf(top, a)
  BY DEF ArgumentValues
<1>2. QED
  BY <1>1, TopCovered, ValuesCovered

(* An argument that holds a function points to it. *)
LEMMA FunctionArgumentCovered ==
  ASSUME Ready, stack # << >>, NEW args, NEW call,
         NEW f \in FunctionsOf(ArgumentValues(args, call, 0))
  PROVE  \E a \in Args(args, call, 0) : f \in FunctionsAt(operand_points_to(top.ctx, a))
<1> DEFINE objs == UNION { operand_points_to(top.ctx, a) : a \in Args(args, call, 0) }
<1>1. \A loc \in ArgumentValues(args, call, 0) : ObjectOf(loc) \in objs
  BY ArgumentCovered
<1>2. f \in FunctionsAt(objs)
  BY <1>1, FunctionsCovered
<1>3. QED
  BY <1>2 DEF FunctionsAt

(* The parameters of a callee are bound to what the analysis has assigned.  *)
LEMMA ParametersCovered ==
  ASSUME Ready, stack # << >>, NEW call, NEW callee,
         <<Push(call, top.ctx), callee, top.ctx, call>> \in callgraph_edge,
         NEW b \in Arguments(call, callee)
  PROVE  /\ b \in Variable \X Location
         /\ <<b[2].ctx, b[2].alloc, Push(call, top.ctx), b[1]>> \in var_points_to
<1> DEFINE Values(p, a) == { <<p[3], loc>> : loc \in ValuesOf(top, a) }
           Of(p) == UNION { Values(p, a) : a \in Args(actual_arg, call, p[2]) }
           e == <<Push(call, top.ctx), callee, top.ctx, call>>
<1>1. PICK p \in { q \in func_param : q[1] = callee } : b \in Of(p)
  BY DEF Arguments
<1>2. PICK a \in Args(actual_arg, call, p[2]) : b \in Values(p, a)
  BY <1>1
<1>3. PICK loc \in ValuesOf(top, a) : b = <<p[3], loc>>
  BY <1>2
<1>4. loc \in Location /\ ObjectOf(loc) \in operand_points_to(top.ctx, a)
  BY TopCovered, ValuesCovered
<1>5. p[3] \in Variable
  BY ProgramAssumption
<1>6. <<e[1], p[3], e[3], a>> \in Passed(e)
  <2>1. PICK arg \in actual_arg : arg[1] = call /\ arg[2] = p[2] /\ arg[3] = a
    BY DEF Args
  <2>2. p \in func_param /\ p[1] = e[2] /\ arg[1] = e[4]
    BY <2>1
  <2> HIDE DEF e
  <2>3. QED
    BY <2>1, <2>2 DEF Passed
<1> DEFINE assignment == <<e[1], p[3], e[3], a>>
           fact == <<loc.ctx, loc.alloc, e[1], p[3]>>
<1>7. fact \in VarFacts(operand_points_to(assignment[3], assignment[4]),
                        assignment[1], assignment[2])
  BY <1>4 DEF VarFacts, ObjectOf
<1>8. assignment \in interp_assignment(e) /\ e \in callgraph_edge
  BY <1>6 DEF interp_assignment
<1>9. fact \in var_points_to
  <2> HIDE DEF assignment, e
  <2>1. fact \in InterpFacts
    BY <1>7, <1>8 DEF InterpFacts
  <2>2. QED
    BY <2>1, FactsKnown DEF AllVarFacts, Ready
<1>10. QED
  BY <1>3, <1>4, <1>5, <1>9

(* The handlers that a call of atexit registers. *)
LEMMA HandlersCovered ==
  ASSUME Ready, stack # << >>, NEW call, NEW callee \in atexit,
         <<Push(call, top.ctx), callee, top.ctx, call>> \in callgraph_edge,
         NEW x \in Handlers(call)
  PROVE  x \in Function \X Bindings /\ ExitCovered(x)
<1> DEFINE e == <<Push(call, top.ctx), callee, top.ctx, call>>
<1>1. PICK f \in FunctionsOf(ArgumentValues(actual_arg, call, 0)) : x = <<f, {}>>
  BY DEF Handlers
<1>2. PICK a \in Args(actual_arg, call, 0) : f \in FunctionsAt(operand_points_to(top.ctx, a))
  BY FunctionArgumentCovered
<1>3. f \in Function
  BY <1>2, ProgramAssumption DEF FunctionsAt
<1>4. f \in Registered
  <2> DEFINE Of(c) == UNION { FunctionsAt(operand_points_to(c[3], b)) : b \in Args(actual_arg, c[4], 0) }
  <2>1. e \in CallsOf(atexit) /\ e[3] = top.ctx /\ e[4] = call
    BY DEF CallsOf
  <2> HIDE DEF e
  <2>2. f \in Of(e)
    BY <1>2, <2>1
  <2>3. Registered = UNION { Of(c) : c \in CallsOf(atexit) }
    BY DEF Registered
  <2> HIDE DEF Of
  <2>4. QED
    BY <2>1, <2>2, <2>3
<1>5. f \in called_at_exit
  BY <1>4 DEF Ready, Fixpoint
<1>6. QED
  BY <1>1, <1>3, <1>5 DEF ExitCovered, Bindings

(* The destructors that a call of __cxa_atexit registers. *)
LEMMA DestructorsCovered ==
  ASSUME Ready, stack # << >>, NEW call, NEW callee \in cxa_atexit,
         <<Push(call, top.ctx), callee, top.ctx, call>> \in callgraph_edge,
         NEW x \in Destructors(call)
  PROVE  x \in Function \X Bindings /\ ExitCovered(x)
<1> DEFINE e == <<Push(call, top.ctx), callee, top.ctx, call>>
           Of(loc) ==
             { <<d[1], Receiver(d[1], [loc EXCEPT !.alloc = d[2]])>> : d \in { r \in dtor_receiver :
                 /\ r[1] \in FunctionsOf(ArgumentValues(call_instr_arg, call, 0))
                 /\ <<r[2], loc.alloc>> \in alloc_aliases } }
<1>1. PICK loc \in ArgumentValues(call_instr_arg, call, 1) : x \in Of(loc)
  BY DEF Destructors
<1>2. PICK d \in dtor_receiver :
        /\ x = <<d[1], Receiver(d[1], [loc EXCEPT !.alloc = d[2]])>>
        /\ d[1] \in FunctionsOf(ArgumentValues(call_instr_arg, call, 0))
        /\ <<d[2], loc.alloc>> \in alloc_aliases
  BY <1>1
<1>3. PICK a \in Args(call_instr_arg, call, 0) :
        d[1] \in FunctionsAt(operand_points_to(top.ctx, a))
  BY <1>2, FunctionArgumentCovered
<1>4. loc \in Location
  BY <1>1, ArgumentCovered
<1>5. PICK b \in Args(call_instr_arg, call, 1) : ObjectOf(loc) \in operand_points_to(top.ctx, b)
  BY <1>1, ArgumentCovered
<1>6. d[1] \in Function /\ d[2] \in Allocation
  BY ProgramAssumption
<1> DEFINE accepted == <<loc.ctx, d[2], d[1]>>
<1>7. accepted \in dtor_accepts_recv
  <2> DEFINE Recv(c, f, o) ==
               { <<o[1], r[2], r[1]>> : r \in { q \in dtor_receiver :
                    /\ q[1] \in FunctionsAt(operand_points_to(c[3], f))
                    /\ <<q[2], o[2]>> \in alloc_aliases } }
             Objects(c) ==
               UNION { operand_points_to(c[3], g) : g \in Args(call_instr_arg, c[4], 1) }
             OfArg(c, f) == UNION { Recv(c, f, o) : o \in Objects(c) }
             OfEdge(c) == UNION { OfArg(c, f) : f \in Args(call_instr_arg, c[4], 0) }
  <2>1. e \in CallsOf(cxa_atexit) /\ e[3] = top.ctx /\ e[4] = call
    BY DEF CallsOf
  <2> HIDE DEF e
  <2>2. ObjectOf(loc) \in Objects(e)
    BY <1>5, <2>1
  <2>3. accepted \in Recv(e, a, ObjectOf(loc))
    BY <1>2, <1>3, <2>1 DEF ObjectOf
  <2> HIDE DEF Recv, Objects, accepted
  <2>4. accepted \in OfArg(e, a)
    BY <2>2, <2>3
  <2> HIDE DEF OfArg
  <2>5. accepted \in OfEdge(e)
    BY <1>3, <2>1, <2>4
  <2>6. dtor_accepts_recv = UNION { OfEdge(c) : c \in CallsOf(cxa_atexit) }
    BY DEF dtor_accepts_recv, OfEdge, OfArg, Recv, Objects
  <2> HIDE DEF OfEdge
  <2>7. QED
    BY <2>1, <2>5, <2>6
<1>8. d[1] \in called_at_exit
  BY <1>7 DEF Ready, Fixpoint
<1>9. root_context("exit") = exit_context
  BY DEF Ready, RootContextsInUse, root_context
<1>10. exit_context \in ContextsOf(d[1])
  <2>1. <<exit_context, d[1]>> \in RootFacts
    BY <1>8, <1>9 DEF RootFacts
  <2>2. <<exit_context, d[1]>> \in reachable_context
    BY <2>1, FactsKnown DEF Ready
  <2>3. QED
    BY <2>2 DEF ContextsOf
<1> DEFINE receiver == [loc EXCEPT !.alloc = d[2]]
<1>11. receiver \in Location /\ receiver.ctx = loc.ctx /\ receiver.alloc = d[2]
  BY <1>4, <1>6 DEF Location
<1> HIDE DEF receiver
<1>12. ASSUME NEW c \in Receiver(d[1], receiver)
       PROVE  /\ c \in Variable \X Location
              /\ <<c[2].ctx, c[2].alloc, exit_context, c[1]>> \in var_points_to
  <2>1. PICK p \in func_param : p[1] = d[1] /\ p[2] = 0 /\ c = <<p[3], receiver>>
    BY DEF Receiver
  <2>2. p[3] \in Variable
    BY ProgramAssumption
  <2>3. <<loc.ctx, d[2], exit_context, p[3]>> \in AtExitFacts
    <3> DEFINE OfDtor(t) ==
                 { <<t[1], t[2], exit_context, q[3]>> :
                     q \in { u \in func_param : u[1] = t[3] /\ u[2] = 0 } }
    <3>1. <<loc.ctx, d[2], exit_context, p[3]>> \in OfDtor(accepted)
      BY <2>1
    <3>2. accepted \in { t \in dtor_accepts_recv : exit_context \in ContextsOf(t[3]) }
      BY <1>7, <1>10
    <3>3. AtExitFacts =
            UNION { OfDtor(t) : t \in { u \in dtor_accepts_recv : exit_context \in ContextsOf(u[3]) } }
      BY DEF AtExitFacts
    <3> HIDE DEF OfDtor, accepted
    <3>4. QED
      BY <3>1, <3>2, <3>3
  <2>4. <<loc.ctx, d[2], exit_context, p[3]>> \in var_points_to
    BY <2>3, FactsKnown DEF AllVarFacts, Ready
  <2>5. QED
    BY <1>11, <2>1, <2>2, <2>4
<1>13. x = <<d[1], Receiver(d[1], receiver)>>
  BY <1>2 DEF receiver
<1>14. QED
  BY <1>6, <1>8, <1>9, <1>12, <1>13 DEF ExitCovered, Bindings

-----------------------------------------------------------------------------
(* A call whose edge is known. *)
LEMMA CallCovered ==
  ASSUME Ready, NEW call \in CallBase, NEW callee \in Function, Call(call, callee),
         <<Push(call, top.ctx), callee, top.ctx, call>> \in callgraph_edge
  PROVE  MachineCovered(stack', memory', exit_calls') /\ objects' \in Nat
<1> DEFINE ctx == Push(call, top.ctx)
           env == Arguments(call, callee)
           f == [func |-> callee, ctx |-> ctx, call |-> call, env |-> env]
<1>1. stack # << >>
  BY DEF Call, Running
<1>2. ctx \in Context
  BY <1>1, TopCovered, PushContext DEF Ready, IInv, TypeOK
<1>3. /\ env \in Bindings
      /\ \A b \in env : <<b[2].ctx, b[2].alloc, ctx, b[1]>> \in var_points_to
  BY <1>1, ParametersCovered DEF Bindings
<1>4. <<ctx, callee>> \in reachable_context
  <2>1. <<ctx, callee>> \in CalleeFacts
    BY DEF CalleeFacts
  <2>2. QED
    BY <2>1, FactsKnown DEF Ready
<1> HIDE DEF ctx, env
<1>5. /\ f \in Frame /\ FrameCovered(f)
      /\ f.ctx = ctx /\ f.func = callee /\ f.call = call
  BY <1>2, <1>3, <1>4 DEF Frame, FrameCovered
<1>6. stack' = <<f>> \o stack /\ UNCHANGED <<memory, objects>>
  BY DEF Call, ctx, env
<1> HIDE DEF f
<1>7. <<f.ctx, f.func, stack[1].ctx, f.call>> \in callgraph_edge
  BY <1>1, <1>5, TopCovered DEF ctx
<1>8. stack' \in Seq(Frame) /\ StackCovered(stack')
  BY <1>1, <1>5, <1>6, <1>7, TopCovered, ConsCovered
<1>9. \A x \in exit_calls' : x \in Function \X Bindings /\ ExitCovered(x)
  <2>1. \A x \in exit_calls : x \in Function \X Bindings /\ ExitCovered(x)
    BY DEF Ready, MachineCovered
  <2>2. callee \in atexit =>
          \A x \in Handlers(call) : x \in Function \X Bindings /\ ExitCovered(x)
    BY <1>1, HandlersCovered
  <2>3. callee \in cxa_atexit =>
          \A x \in Destructors(call) : x \in Function \X Bindings /\ ExitCovered(x)
    BY <1>1, DestructorsCovered
  <2>4. exit_calls' = exit_calls
          \cup (IF callee \in atexit THEN Handlers(call) ELSE {})
          \cup (IF callee \in cxa_atexit THEN Destructors(call) ELSE {})
    BY DEF Call
  <2>5. QED
    BY <2>1, <2>2, <2>3, <2>4
<1>10. QED
  BY <1>6, <1>8, <1>9 DEF Ready, MachineCovered

(* A direct call. *)
LEMMA DirectCallCovered ==
  ASSUME Ready, NEW t \in call_instr_fn_target, DirectCall(t)
  PROVE  MachineCovered(stack', memory', exit_calls') /\ objects' \in Nat
<1> DEFINE e == <<Push(t[1], top.ctx), t[2], top.ctx, t[1]>>
           Of(u) == UNION { EdgesFrom(u[1], ctx, {u[2]}) : ctx \in ContextsOf(instr_func[u[1]]) }
<1>1. t[1] \in CallBase /\ t[2] \in Function
  BY ProgramAssumption
<1>2. top.ctx \in ContextsOf(instr_func[t[1]])
  BY TopCovered DEF DirectCall, Call, Running
<1>3. e \in EdgesFrom(t[1], top.ctx, {t[2]})
  BY DEF EdgesFrom
<1>4. e \in Of(t)
  BY <1>2, <1>3
<1>5. DirectEdges = UNION { Of(u) : u \in call_instr_fn_target }
  BY DEF DirectEdges
<1> HIDE DEF Of, e
<1>6. e \in callgraph_edge
  BY <1>4, <1>5 DEF Ready, Fixpoint
<1>7. QED
  BY <1>1, <1>6, CallCovered DEF DirectCall, e

(* An indirect call. *)
LEMMA IndirectCallCovered ==
  ASSUME Ready, NEW t \in func_operand, IndirectCall(t)
  PROVE  MachineCovered(stack', memory', exit_calls') /\ objects' \in Nat
<1>1. PICK callee \in FunctionsOf(ValuesOf(top, t[2])) :
        <<t[1], callee>> \in type_compatible /\ Call(t[1], callee)
  BY DEF IndirectCall
<1> DEFINE e == <<Push(t[1], top.ctx), callee, top.ctx, t[1]>>
           Of(u) == UNION { EdgesFrom(u[1], ctx, IndirectCallees(u[1], ctx, u[2])) :
                            ctx \in ContextsOf(instr_func[u[1]]) }
<1>2. stack # << >> /\ top.ctx \in ContextsOf(instr_func[t[1]])
  BY TopCovered DEF IndirectCall, Running
<1>3. callee \in IndirectCallees(t[1], top.ctx, t[2])
  <2>1. callee \in FunctionsAt(operand_points_to(top.ctx, t[2]))
    BY <1>2, TopCovered, ValuesCovered, FunctionsCovered
  <2>2. QED
    BY <1>1, <2>1 DEF IndirectCallees
<1>4. t[1] \in CallBase /\ callee \in Function
  BY <1>3, ProgramAssumption DEF IndirectCallees, FunctionsAt
<1>5. e \in EdgesFrom(t[1], top.ctx, IndirectCallees(t[1], top.ctx, t[2]))
  BY <1>3 DEF EdgesFrom
<1>6. e \in Of(t)
  BY <1>2, <1>5
<1>7. IndirectEdges = UNION { Of(u) : u \in func_operand }
  BY DEF IndirectEdges
<1> HIDE DEF Of, e
<1>8. e \in callgraph_edge
  BY <1>6, <1>7 DEF Ready, Fixpoint
<1>9. QED
  BY <1>1, <1>4, <1>8, CallCovered DEF e

-----------------------------------------------------------------------------
(* No step of an execution leaves what the analysis knows. *)
LEMMA ExecuteCovered ==
  ASSUME Ready, Execute
  PROVE  MachineCovered(stack', memory', exit_calls') /\ objects' \in Nat
<1>1. CASE \E root \in Roots : EnterRoot(root)
  BY <1>1, EnterRootCovered
<1>2. CASE \E exit_call \in exit_calls : EnterAtExit(exit_call)
  BY <1>2, EnterAtExitCovered
<1>3. CASE \E i \in alloca_or_malloc : Allocate(i)
  BY <1>3, AllocateCovered
<1>4. CASE \E i \in assign_instr : Assign(i)
  BY <1>4, AssignCovered
<1>5. CASE \E i \in load_instr : Load(i)
  BY <1>5, LoadCovered
<1>6. CASE \E i \in store_instr : Store(i)
  BY <1>6, StoreCovered
<1>7. CASE \E t \in call_instr_fn_target : DirectCall(t)
  BY <1>7, DirectCallCovered
<1>8. CASE \E t \in func_operand : IndirectCall(t)
  BY <1>8, IndirectCallCovered
<1>9. CASE ReturnNothing
  BY <1>9, ReturnNothingCovered
<1>10. CASE \E r \in func_returns_value : Return(r)
  BY <1>10, ReturnCovered
<1>11. QED
  BY <1>1, <1>2, <1>3, <1>4, <1>5, <1>6, <1>7, <1>8, <1>9, <1>10 DEF Execute

(* What a program starts with is known at the fixpoint. *)
LEMMA MachineInitCovered ==
  ASSUME Fixpoint, MachineInit
  PROVE  MachineCovered(stack, memory, exit_calls)
<1>1. stack \in Seq(Frame) /\ StackCovered(stack)
  <2>1. stack = << >> /\ Len(stack) = 0 /\ stack \in Seq(Frame)
    BY EmptySeq DEF MachineInit
  <2>2. 1 .. Len(stack) = {} /\ 1 .. Len(stack) - 1 = {}
    BY <2>1
  <2>3. QED
    BY <2>1, <2>2 DEF StackCovered
<1>2. ASSUME NEW x \in Allocation, NEW y \in Allocation,
             <<nil, y, nil, x>> \in InitialFacts
      PROVE  /\ <<Static(x), Static(y)>> \in Location \X Location
             /\ CellCovered(<<Static(x), Static(y)>>)
  <2>1. \A a \in Allocation : /\ Static(a) \in Location
                              /\ Static(a).ctx = nil /\ Static(a).alloc = a
    BY NilContext DEF Static, Location
  <2>2. <<nil, y, nil, x>> \in ptr_points_to
    BY <1>2, FactsKnown DEF AllPtrFacts
  <2>3. QED
    BY <2>1, <2>2 DEF CellCovered
<1>3. ASSUME NEW cell \in memory
      PROVE  cell \in Location \X Location /\ CellCovered(cell)
  <2>1. CASE \E c \in constant_ptr_points_to : cell = <<Static(c[2]), Static(c[1])>>
    <3>1. PICK c \in constant_ptr_points_to : cell = <<Static(c[2]), Static(c[1])>>
      BY <2>1
    <3>2. c[1] \in Allocation /\ c[2] \in Allocation /\ <<nil, c[1], nil, c[2]>> \in InitialFacts
      BY ProgramAssumption DEF InitialFacts
    <3>3. QED
      BY <1>2, <3>1, <3>2
  <2>2. CASE \E a \in argv_ptr_points_to : cell = <<Static(a[1]), Static(a[2])>>
    <3>1. PICK a \in argv_ptr_points_to : cell = <<Static(a[1]), Static(a[2])>>
      BY <2>2
    <3>2. a[1] \in Allocation /\ a[2] \in Allocation /\ <<nil, a[2], nil, a[1]>> \in InitialFacts
      BY ProgramAssumption DEF InitialFacts
    <3>3. QED
      BY <1>2, <3>1, <3>2
  <2>3. QED
    BY <2>1, <2>2 DEF MachineInit
<1>4. exit_calls = {}
  BY DEF MachineInit
<1>5. QED
  BY <1>1, <1>3, <1>4 DEF MachineCovered

(* Executions do not change what is known. *)
LEMMA KnowledgeStays ==
  ASSUME UNCHANGED vars
  PROVE  /\ Fixpoint => Fixpoint'
         /\ MachineCovered(stack', memory', exit_calls')
              => MachineCovered(stack, memory, exit_calls)'
<1>1. UNCHANGED <<options, reachable_context, callgraph_edge, called_at_exit, var_points_to,
                  ptr_points_to>>
  BY DEF vars, callgraph
<1>2. RootFacts' = RootFacts /\ CalleeFacts' = CalleeFacts
  BY <1>1 DEF RootFacts, CalleeFacts, root_context, insensitive
<1>3. DirectEdges' = DirectEdges /\ IndirectEdges' = IndirectEdges
  BY <1>1 DEF DirectEdges, IndirectEdges, EdgesFrom, IndirectCallees, FunctionsAt, ContextsOf,
     operand_points_to, Push, insensitive, drop_context_by_invoc, drop_context_item_by_invoc,
     context_item_by_invoc
<1>4. Registered' = Registered /\ dtor_accepts_recv' = dtor_accepts_recv
  BY <1>1 DEF Registered, dtor_accepts_recv, CallsOf, FunctionsAt, operand_points_to, ContextsOf
<1>5. AllVarFacts' = AllVarFacts
  <2>1. AllocatedFacts' = AllocatedFacts /\ IntToPtrFacts' = IntToPtrFacts /\ ArgvFacts' = ArgvFacts
    BY <1>1 DEF AllocatedFacts, IntToPtrFacts, ArgvFacts, Sites, ContextsOf
  <2>2. AssignFacts' = AssignFacts
    BY <1>1 DEF AssignFacts, KnownContexts, reachable_func, VarFacts, operand_points_to, ContextsOf
  <2>3. InterpFacts' = InterpFacts
    BY <1>1 DEF InterpFacts, VarFacts, operand_points_to, ContextsOf
  <2>4. LoadFacts' = LoadFacts /\ LoadMatchFacts' = LoadMatchFacts
    BY <1>1 DEF LoadFacts, LoadMatchFacts, Loaded, LoadedMatching, Pointees, VarFacts, Sites,
       operand_points_to, ContextsOf
  <2>5. AtExitFacts' = AtExitFacts
    BY <1>1, <1>4 DEF AtExitFacts, ContextsOf
  <2>6. QED
    BY <2>1, <2>2, <2>3, <2>4, <2>5 DEF AllVarFacts
<1>6. AllPtrFacts' = AllPtrFacts
  <2>1. InitialFacts' = InitialFacts
    BY DEF InitialFacts
  <2>2. StoreFacts' = StoreFacts
    BY <1>1 DEF StoreFacts, PtrFacts, Sites, operand_points_to, ContextsOf
  <2>3. /\ AliasBaseFacts' = AliasBaseFacts /\ AliasTargetFacts' = AliasTargetFacts
        /\ MatchFacts' = MatchFacts
    BY <1>1 DEF AliasBaseFacts, AliasTargetFacts, MatchFacts
  <2>4. QED
    BY <2>1, <2>2, <2>3 DEF AllPtrFacts
<1>7. Fixpoint => Fixpoint'
  BY <1>1, <1>2, <1>3, <1>4, <1>5, <1>6 DEF Fixpoint, AllVarFacts, AllPtrFacts
<1>8. MachineCovered(stack', memory', exit_calls') => MachineCovered(stack, memory, exit_calls)'
  BY <1>1 DEF MachineCovered, StackCovered, FrameCovered, CellCovered, ExitCovered,
     root_context, insensitive
<1>9. QED
  BY <1>7, <1>8

-----------------------------------------------------------------------------
(* The analysis starts without facts, the program with nothing done. *)
LEMMA ExecutionInitInv == ExecutionInit => ExecutionInv
<1> SUFFICES ASSUME ExecutionInit PROVE ExecutionInv
  OBVIOUS
<1>1. IInv /\ MachineInit /\ analysed = FALSE
  BY InitIInv DEF ExecutionInit
<1>2. objects \in Nat
  BY <1>1 DEF MachineInit
<1>3. QED
  BY <1>1, <1>2 DEF ExecutionInv

(* A step of the analysis, its end, and a step of the program. *)
LEMMA ExecutionNextInv ==
  ExecutionInv /\ RootContextsInUse /\ [ExecutionNext]_<<vars, analysed, machine>> => ExecutionInv'
<1> SUFFICES ASSUME ExecutionInv, RootContextsInUse, [ExecutionNext]_<<vars, analysed, machine>>
             PROVE  ExecutionInv'
  OBVIOUS
<1>1. CASE ~ analysed /\ Round /\ UNCHANGED <<analysed, machine>>
  <2>1. IInv'
    BY <1>1, RoundDerives, DerivesPreserves DEF ExecutionInv
  <2>2. UNCHANGED <<stack, memory, objects, exit_calls, analysed>>
    BY <1>1 DEF machine
  <2>3. QED
    BY <1>1, <2>1, <2>2 DEF ExecutionInv, MachineInit
<1>2. CASE ~ analysed /\ FinishAnalysis
  <2>1. Fixpoint /\ analysed' = TRUE /\ UNCHANGED vars
        /\ UNCHANGED <<stack, memory, objects, exit_calls>>
    BY <1>2 DEF FinishAnalysis, machine
  <2>2. IInv'
    BY <2>1, StutterPreserves DEF ExecutionInv
  <2>3. MachineCovered(stack, memory, exit_calls)
    BY <1>2, <2>1, MachineInitCovered DEF ExecutionInv
  <2>4. MachineCovered(stack', memory', exit_calls')
    BY <2>1, <2>3
  <2>5. Fixpoint' /\ MachineCovered(stack, memory, exit_calls)'
    BY <2>1, <2>4, KnowledgeStays
  <2>6. objects' \in Nat
    BY <2>1 DEF ExecutionInv
  <2>7. QED
    BY <2>1, <2>2, <2>5, <2>6 DEF ExecutionInv
<1>3. CASE analysed /\ Execute /\ UNCHANGED <<vars, analysed>>
  <2>1. IInv'
    BY <1>3, StutterPreserves DEF ExecutionInv
  <2>2. Ready
    BY <1>3 DEF ExecutionInv, Ready
  <2>3. MachineCovered(stack', memory', exit_calls') /\ objects' \in Nat
    BY <1>3, <2>2, ExecuteCovered
  <2>4. Fixpoint' /\ MachineCovered(stack, memory, exit_calls)'
    BY <1>3, <2>2, <2>3, KnowledgeStays DEF Ready
  <2>5. analysed' = TRUE
    BY <1>3 DEF ExecutionInv
  <2>6. QED
    BY <2>1, <2>3, <2>4, <2>5 DEF ExecutionInv
<1>4. CASE UNCHANGED <<vars, analysed, machine>>
  <2>1. UNCHANGED vars /\ UNCHANGED <<stack, memory, objects, exit_calls, analysed>>
    BY <1>4 DEF machine
  <2>2. IInv'
    BY <2>1, StutterPreserves DEF ExecutionInv
  <2>3. analysed => MachineCovered(stack', memory', exit_calls')
    BY <2>1 DEF ExecutionInv
  <2>4. analysed => Fixpoint' /\ MachineCovered(stack, memory, exit_calls)'
    BY <2>1, <2>3, KnowledgeStays DEF ExecutionInv
  <2>5. QED
    BY <2>1, <2>2, <2>4 DEF ExecutionInv, MachineInit
<1>5. QED
  BY <1>1, <1>2, <1>3, <1>4 DEF ExecutionNext

(* The options do not change. *)
LEMMA RootContextsStay ==
  ExecutionInv /\ RootContextsInUse /\ [ExecutionNext]_<<vars, analysed, machine>>
    => RootContextsInUse'
<1> SUFFICES ASSUME [ExecutionNext]_<<vars, analysed, machine>> PROVE options' = options
  BY DEF RootContextsInUse, insensitive
<1>1. QED
  BY DEF ExecutionNext, Round, FinishAnalysis, vars

(* The invariant holds in every execution. *)
LEMMA ExecutionInvariance == ExecutionSpec /\ RootContextsInUse => []ExecutionInv
  BY ExecutionInitInv, ExecutionNextInv, RootContextsStay, PTL DEF ExecutionSpec

(* The relations between frames, cells and objects are well formed. *)
THEOREM MachineTypeCorrect == ExecutionSpec /\ RootContextsInUse => []MachineTypeOK
<1>1. ExecutionInv => MachineTypeOK
  <2> SUFFICES ASSUME ExecutionInv PROVE MachineTypeOK
    OBVIOUS
  <2>1. CASE analysed
    BY <2>1 DEF ExecutionInv, MachineCovered, MachineTypeOK
  <2>2. CASE ~ analysed
    <3>1. stack = << >> /\ exit_calls = {}
      BY <2>2 DEF ExecutionInv, MachineInit
    <3>2. \A a \in Allocation : Static(a) \in Location
      BY NilContext DEF Static, Location
    <3>3. memory \subseteq Location \X Location
      BY <2>2, <3>2, ProgramAssumption DEF ExecutionInv, MachineInit
    <3>4. stack \in Seq(Frame)
      BY <3>1, EmptySeq
    <3>5. QED
      BY <3>1, <3>3, <3>4 DEF ExecutionInv, MachineTypeOK
  <2>3. QED
    BY <2>1, <2>2
<1>2. QED
  BY ExecutionInvariance, <1>1, PTL

(* The analysis is sound: for every program, context sensitivity and k, no  *)
(* execution, however long and deep, enters a function, binds a variable or *)
(* fills a memory cell in a way that has not been derived.  In insensitive  *)
(* mode, for programs that use neither argv nor __cxa_atexit.               *)
THEOREM Soundness == ExecutionSpec /\ RootContextsInUse => []Sound
<1>1. ExecutionInv => Sound
  BY DEF ExecutionInv, MachineCovered, StackCovered, Sound
<1>2. QED
  BY ExecutionInvariance, <1>1, PTL

-----------------------------------------------------------------------------
(* The result does not depend on the order in which rules are applied.     *)

(* The rules over other relations, given as a record.                      *)
On(r) ==
  INSTANCE PointsTo WITH
    options <- r.options,
    reachable_context <- r.reachable_context,
    callgraph_edge <- r.callgraph_edge,
    called_at_exit <- r.called_at_exit,
    var_points_to <- r.var_points_to,
    ptr_points_to <- r.ptr_points_to

Within(r) ==
  /\ options = r.options
  /\ reachable_context \subseteq r.reachable_context
  /\ callgraph_edge \subseteq r.callgraph_edge
  /\ called_at_exit \subseteq r.called_at_exit
  /\ var_points_to \subseteq r.var_points_to
  /\ ptr_points_to \subseteq r.ptr_points_to

(* What has been derived is in every set of relations that the rules leave  *)
(* as it is.                                                                *)
Least == \A r : r.options = options /\ On(r)!Fixpoint => Within(r)

(* Contexts and programs are the same.                                     *)
LEMMA SameContexts ==
  ASSUME NEW r, options = r.options
  PROVE  /\ On(r)!nil = nil /\ On(r)!main_context = main_context
         /\ On(r)!exit_context = exit_context
         /\ \A root : On(r)!root_context(root) = root_context(root)
         /\ \A call, ctx : On(r)!Push(call, ctx) = Push(call, ctx)
<1>1. /\ On(r)!nil = nil /\ On(r)!main_context = main_context
      /\ On(r)!startup_context = startup_context /\ On(r)!exit_context = exit_context
  BY DEF nil, main_context, startup_context, exit_context, Cons, main_item, startup_item,
     exit_item, On!nil, On!main_context, On!startup_context, On!exit_context, On!Cons,
     On!main_item, On!startup_item, On!exit_item
<1>2. \A root : On(r)!root_context(root) = root_context(root)
  BY <1>1 DEF root_context, On!root_context, insensitive, On!insensitive
<1>3. \A call, ctx : On(r)!Push(call, ctx) = Push(call, ctx)
  BY <1>1 DEF Push, On!Push, insensitive, On!insensitive, Cons, On!Cons,
     drop_context_by_invoc, On!drop_context_by_invoc, drop_context_item_by_invoc,
     On!drop_context_item_by_invoc, context_item_by_invoc, On!context_item_by_invoc
<1> QED BY <1>1, <1>2, <1>3

(* What the rules ask of the relations only grows with these.               *)
LEMMA ReadsMonotone ==
  ASSUME NEW r, Within(r)
  PROVE  /\ \A func : ContextsOf(func) \subseteq On(r)!ContextsOf(func)
         /\ \A func : reachable_func(func) => On(r)!reachable_func(func)
         /\ \A ctx, operand :
              operand_points_to(ctx, operand) \subseteq On(r)!operand_points_to(ctx, operand)
         /\ \A base : Pointees(base) \subseteq On(r)!Pointees(base)
         /\ KnownContexts \subseteq On(r)!KnownContexts
         /\ \A funcs : CallsOf(funcs) \subseteq On(r)!CallsOf(funcs)
<1>1. \A func : ContextsOf(func) \subseteq On(r)!ContextsOf(func)
  BY DEF Within, ContextsOf, On!ContextsOf
<1>2. \A func : reachable_func(func) => On(r)!reachable_func(func)
  BY <1>1 DEF reachable_func, On!reachable_func
<1>3. ASSUME NEW ctx, NEW operand
      PROVE  operand_points_to(ctx, operand) \subseteq On(r)!operand_points_to(ctx, operand)
  BY <1>1, SameContexts DEF Within, operand_points_to, On!operand_points_to
<1>4. \A base : Pointees(base) \subseteq On(r)!Pointees(base)
  BY DEF Within, Pointees, On!Pointees
<1>5. KnownContexts \subseteq On(r)!KnownContexts
  BY DEF Within, KnownContexts, On!KnownContexts
<1>6. \A funcs : CallsOf(funcs) \subseteq On(r)!CallsOf(funcs)
  BY DEF Within, CallsOf, On!CallsOf
<1> QED BY <1>1, <1>2, <1>3, <1>4, <1>5, <1>6

(* More contexts give instructions more places.                             *)
LEMMA SitesMonotone ==
  ASSUME NEW r, Within(r), NEW instrs
  PROVE  Sites(instrs) \subseteq On(r)!Sites(instrs)
<1>1. ASSUME NEW i \in instrs, NEW ctx \in ContextsOf(i.func)
      PROVE  <<ctx, i>> \in On(r)!Sites(instrs)
  <2>1. ctx \in On(r)!ContextsOf(i.func)
    BY ReadsMonotone
  <2> QED BY <2>1 DEF On!Sites
<1> QED BY <1>1 DEF Sites

(* The facts about objects, and what they do not depend on.                 *)
LEMMA FactsMonotone ==
  ASSUME NEW r, options = r.options, NEW objs, NEW more, objs \subseteq more
  PROVE  /\ \A ctx, var : VarFacts(objs, ctx, var) \subseteq On(r)!VarFacts(more, ctx, var)
         /\ \A bases, others : bases \subseteq others =>
              PtrFacts(objs, bases) \subseteq On(r)!PtrFacts(more, others)
         /\ FunctionsAt(objs) \subseteq On(r)!FunctionsAt(more)
         /\ \A call, ctx : EdgesFrom(call, ctx, objs) \subseteq On(r)!EdgesFrom(call, ctx, more)
<1>1. \A ctx, var : VarFacts(objs, ctx, var) \subseteq On(r)!VarFacts(more, ctx, var)
  BY DEF VarFacts, On!VarFacts
<1>2. ASSUME NEW bases, NEW others, bases \subseteq others
      PROVE  PtrFacts(objs, bases) \subseteq On(r)!PtrFacts(more, others)
  BY <1>2 DEF PtrFacts, On!PtrFacts
<1>3. FunctionsAt(objs) \subseteq On(r)!FunctionsAt(more)
  BY DEF FunctionsAt, On!FunctionsAt
<1>4. \A call, ctx : EdgesFrom(call, ctx, objs) \subseteq On(r)!EdgesFrom(call, ctx, more)
  BY SameContexts DEF Within, EdgesFrom, On!EdgesFrom
<1> QED BY <1>1, <1>2, <1>3, <1>4

(* The functions that are reachable, and the edges of the call graph.       *)
LEMMA CallGraphMonotone ==
  ASSUME NEW r, Within(r)
  PROVE  /\ RootFacts \cup CalleeFacts \subseteq On(r)!RootFacts \cup On(r)!CalleeFacts
         /\ DirectEdges \subseteq On(r)!DirectEdges
         /\ IndirectEdges \subseteq On(r)!IndirectEdges
<1>1. RootFacts \cup CalleeFacts \subseteq On(r)!RootFacts \cup On(r)!CalleeFacts
  BY SameContexts DEF Within, RootFacts, On!RootFacts, CalleeFacts, On!CalleeFacts
<1>2. ASSUME NEW t \in call_instr_fn_target, NEW ctx \in ContextsOf(instr_func[t[1]]),
             NEW e \in EdgesFrom(t[1], ctx, {t[2]})
      PROVE  e \in On(r)!DirectEdges
  <2>1. ctx \in On(r)!ContextsOf(instr_func[t[1]]) /\ e \in On(r)!EdgesFrom(t[1], ctx, {t[2]})
    BY ReadsMonotone, FactsMonotone DEF Within
  <2>2. e \in UNION { On(r)!EdgesFrom(t[1], c, {t[2]}) : c \in On(r)!ContextsOf(instr_func[t[1]]) }
    BY <2>1
  <2> QED BY <2>2 DEF On!DirectEdges
<1>3. ASSUME NEW t \in func_operand, NEW ctx \in ContextsOf(instr_func[t[1]]),
             NEW e \in EdgesFrom(t[1], ctx, IndirectCallees(t[1], ctx, t[2]))
      PROVE  e \in On(r)!IndirectEdges
  <2>1. /\ ctx \in On(r)!ContextsOf(instr_func[t[1]])
        /\ operand_points_to(ctx, t[2]) \subseteq On(r)!operand_points_to(ctx, t[2])
    BY ReadsMonotone
  <2>2. FunctionsAt(operand_points_to(ctx, t[2]))
          \subseteq On(r)!FunctionsAt(On(r)!operand_points_to(ctx, t[2]))
    BY <2>1, FactsMonotone DEF Within
  <2>3. IndirectCallees(t[1], ctx, t[2]) \subseteq On(r)!IndirectCallees(t[1], ctx, t[2])
    BY <2>2 DEF IndirectCallees, On!IndirectCallees
  <2>4. e \in On(r)!EdgesFrom(t[1], ctx, On(r)!IndirectCallees(t[1], ctx, t[2]))
    BY <2>3, FactsMonotone DEF Within
  <2> QED BY <2>1, <2>4 DEF On!IndirectEdges
<1>4. DirectEdges \subseteq On(r)!DirectEdges
  <2> DEFINE In(t) == UNION { EdgesFrom(t[1], ctx, {t[2]}) : ctx \in ContextsOf(instr_func[t[1]]) }
  <2>1. ASSUME NEW t \in call_instr_fn_target, NEW e \in In(t) PROVE e \in On(r)!DirectEdges
    BY <1>2
  <2> HIDE DEF In
  <2>2. UNION { In(t) : t \in call_instr_fn_target } \subseteq On(r)!DirectEdges
    BY <2>1
  <2> QED BY <2>2 DEF DirectEdges, In
<1>5. IndirectEdges \subseteq On(r)!IndirectEdges
  BY <1>3 DEF IndirectEdges
<1> QED BY <1>1, <1>4, <1>5

(* The functions called at exit, and the receivers of destructors.          *)
LEMMA AtExitMonotone ==
  ASSUME NEW r, Within(r)
  PROVE  /\ Registered \subseteq On(r)!Registered
         /\ dtor_accepts_recv \subseteq On(r)!dtor_accepts_recv
         /\ AtExitFacts \subseteq On(r)!AtExitFacts
<1>1. \A args, call, index : On(r)!Args(args, call, index) = Args(args, call, index)
  BY DEF Args, On!Args
<1>2. \A ctx, operand : FunctionsAt(operand_points_to(ctx, operand))
                          \subseteq On(r)!FunctionsAt(On(r)!operand_points_to(ctx, operand))
  BY ReadsMonotone, FactsMonotone DEF Within
<1>3. Registered \subseteq On(r)!Registered
  <2>1. ASSUME NEW e \in CallsOf(atexit), NEW a \in Args(actual_arg, e[4], 0),
               NEW f \in FunctionsAt(operand_points_to(e[3], a))
        PROVE  f \in On(r)!Registered
    <3>1. e \in On(r)!CallsOf(atexit) /\ a \in On(r)!Args(On(r)!actual_arg, e[4], 0)
      BY ReadsMonotone, <1>1 DEF actual_arg, On!actual_arg
    <3>2. f \in On(r)!FunctionsAt(On(r)!operand_points_to(e[3], a))
      BY <1>2
    <3> QED BY <3>1, <3>2 DEF On!Registered
  <2> QED BY <2>1 DEF Registered
<1>4. dtor_accepts_recv \subseteq On(r)!dtor_accepts_recv
  <2> DEFINE Accepts(o, a, e) ==
               { <<o[1], d[2], d[1]>> : d \in { q \in dtor_receiver :
                    /\ q[1] \in FunctionsAt(operand_points_to(e[3], a))
                    /\ <<q[2], o[2]>> \in alloc_aliases } }
             Objects(e) == UNION { operand_points_to(e[3], b) : b \in Args(call_instr_arg, e[4], 1) }
             OfArg(a, e) == UNION { Accepts(o, a, e) : o \in Objects(e) }
             OfCall(e) == UNION { OfArg(a, e) : a \in Args(call_instr_arg, e[4], 0) }
             MayAccept(o, a, e) ==
               { <<o[1], d[2], d[1]>> : d \in { q \in dtor_receiver :
                    /\ q[1] \in On(r)!FunctionsAt(On(r)!operand_points_to(e[3], a))
                    /\ <<q[2], o[2]>> \in alloc_aliases } }
             MayObjects(e) ==
               UNION { On(r)!operand_points_to(e[3], b) : b \in On(r)!Args(call_instr_arg, e[4], 1) }
             MayArg(a, e) == UNION { MayAccept(o, a, e) : o \in MayObjects(e) }
             MayCall(e) == UNION { MayArg(a, e) : a \in On(r)!Args(call_instr_arg, e[4], 0) }
  <2>1. \A o, a, e : Accepts(o, a, e) \subseteq MayAccept(o, a, e)
    BY <1>2
  <2>2. \A e : Objects(e) \subseteq MayObjects(e)
    BY <1>1, ReadsMonotone
  <2>3. \A a, e : OfArg(a, e) \subseteq MayArg(a, e)
    <3> HIDE DEF Accepts, MayAccept, Objects, MayObjects
    <3> QED BY <2>1, <2>2
  <2>4. \A e : OfCall(e) \subseteq MayCall(e)
    <3> HIDE DEF OfArg, MayArg
    <3> QED BY <1>1, <2>3
  <2>5. UNION { OfCall(e) : e \in CallsOf(cxa_atexit) }
          \subseteq UNION { MayCall(e) : e \in On(r)!CallsOf(cxa_atexit) }
    <3> HIDE DEF OfCall, MayCall
    <3> QED BY <2>4, ReadsMonotone
  <2> QED BY <2>5, Zenon DEF dtor_accepts_recv, On!dtor_accepts_recv
<1>5. ASSUME NEW d \in dtor_accepts_recv, exit_context \in ContextsOf(d[3]),
             NEW p \in func_param, p[1] = d[3], p[2] = 0
      PROVE  <<d[1], d[2], exit_context, p[3]>> \in On(r)!AtExitFacts
  <2>1. d \in On(r)!dtor_accepts_recv /\ On(r)!exit_context \in On(r)!ContextsOf(d[3])
    BY <1>4, <1>5, ReadsMonotone, SameContexts DEF Within
  <2> QED BY <1>5, <2>1, SameContexts DEF Within, On!AtExitFacts
<1>6. AtExitFacts \subseteq On(r)!AtExitFacts
  BY <1>5 DEF AtExitFacts
<1> QED BY <1>3, <1>4, <1>6

(* What instructions assign to variables.                                  *)
LEMMA InstructionsMonotone ==
  ASSUME NEW r, Within(r)
  PROVE  /\ AllocatedFacts \subseteq On(r)!AllocatedFacts
         /\ ArgvFacts \subseteq On(r)!ArgvFacts
         /\ IntToPtrFacts \subseteq On(r)!IntToPtrFacts
         /\ AssignFacts \subseteq On(r)!AssignFacts
         /\ InterpFacts \subseteq On(r)!InterpFacts
<1>1. AllocatedFacts \subseteq On(r)!AllocatedFacts
  BY SitesMonotone DEF AllocatedFacts, On!AllocatedFacts
<1>2. ArgvFacts \subseteq On(r)!ArgvFacts
  BY SameContexts DEF Within, ArgvFacts, On!ArgvFacts
<1>3. IntToPtrFacts \subseteq On(r)!IntToPtrFacts
  BY SameContexts, SitesMonotone DEF Within, IntToPtrFacts, On!IntToPtrFacts
<1>4. AssignFacts \subseteq On(r)!AssignFacts
  <2>1. ASSUME NEW ctx \in KnownContexts, NEW i \in assign_instr, reachable_func(i.func),
               NEW v \in VarFacts(operand_points_to(ctx, i.value), ctx, i.to)
        PROVE  v \in On(r)!AssignFacts
    <3>1. ctx \in On(r)!KnownContexts /\ On(r)!reachable_func(i.func)
      BY <2>1, ReadsMonotone
    <3>2. v \in On(r)!VarFacts(On(r)!operand_points_to(ctx, i.value), ctx, i.to)
      BY ReadsMonotone, FactsMonotone DEF Within
    <3> QED BY <3>1, <3>2 DEF On!AssignFacts
  <2> QED BY <2>1 DEF AssignFacts
<1>5. InterpFacts \subseteq On(r)!InterpFacts
  <2>1. \A e : On(r)!interp_assignment(e) = interp_assignment(e)
    BY DEF interp_assignment, On!interp_assignment, Passed, On!Passed, Returned, On!Returned,
       actual_arg, On!actual_arg
  <2>2. ASSUME NEW e \in callgraph_edge, NEW t \in interp_assignment(e),
               NEW v \in VarFacts(operand_points_to(t[3], t[4]), t[1], t[2])
        PROVE  v \in On(r)!InterpFacts
    <3>1. e \in r.callgraph_edge /\ t \in On(r)!interp_assignment(e)
      BY <2>1 DEF Within
    <3>2. v \in On(r)!VarFacts(On(r)!operand_points_to(t[3], t[4]), t[1], t[2])
      BY ReadsMonotone, FactsMonotone DEF Within
    <3>3. t \in UNION { On(r)!interp_assignment(f) : f \in r.callgraph_edge }
      BY <3>1
    <3> QED BY <3>2, <3>3 DEF On!InterpFacts
  <2> QED BY <2>2 DEF InterpFacts
<1> QED BY <1>1, <1>2, <1>3, <1>4, <1>5

(* What is loaded and stored.                                               *)
LEMMA LoadsMonotone ==
  ASSUME NEW r, Within(r)
  PROVE  /\ LoadFacts \subseteq On(r)!LoadFacts
         /\ LoadMatchFacts \subseteq On(r)!LoadMatchFacts
<1>1. ASSUME NEW ctx, NEW address
      PROVE  /\ Loaded(ctx, address) \subseteq On(r)!Loaded(ctx, address)
             /\ LoadedMatching(ctx, address) \subseteq On(r)!LoadedMatching(ctx, address)
  <2>1. Loaded(ctx, address) \subseteq On(r)!Loaded(ctx, address)
    BY ReadsMonotone DEF Loaded, On!Loaded
  <2> DEFINE From(o) ==
               UNION { Pointees(<<o[1], m[1]>>) : m \in { n \in alloc_matches : n[2] = o[2] } }
             MayFrom(o) ==
               UNION { On(r)!Pointees(<<o[1], m[1]>>) : m \in { n \in alloc_matches : n[2] = o[2] } }
  <2>2. \A o : From(o) \subseteq MayFrom(o)
    BY ReadsMonotone
  <2>3. UNION { From(o) : o \in operand_points_to(ctx, address) }
          \subseteq UNION { MayFrom(o) : o \in On(r)!operand_points_to(ctx, address) }
    <3> HIDE DEF From, MayFrom
    <3> QED BY <2>2, ReadsMonotone
  <2> QED BY <2>1, <2>3 DEF LoadedMatching, On!LoadedMatching
<1>2. ASSUME NEW s \in Sites(load_instr)
      PROVE  /\ VarFacts(Loaded(s[1], s[2].address), s[1], s[2].to) \subseteq On(r)!LoadFacts
             /\ VarFacts(LoadedMatching(s[1], s[2].address), s[1], s[2].to)
                  \subseteq On(r)!LoadMatchFacts
  <2>1. s \in On(r)!Sites(load_instr)
    BY SitesMonotone
  <2>2. VarFacts(Loaded(s[1], s[2].address), s[1], s[2].to)
          \subseteq On(r)!VarFacts(On(r)!Loaded(s[1], s[2].address), s[1], s[2].to)
    BY <1>1, FactsMonotone DEF Within
  <2>3. VarFacts(LoadedMatching(s[1], s[2].address), s[1], s[2].to)
          \subseteq On(r)!VarFacts(On(r)!LoadedMatching(s[1], s[2].address), s[1], s[2].to)
    BY <1>1, FactsMonotone DEF Within
  <2> QED BY <2>1, <2>2, <2>3 DEF On!LoadFacts, On!LoadMatchFacts
<1> QED BY <1>2 DEF LoadFacts, LoadMatchFacts

(* What is stored, and what has aliases and matches.                        *)
LEMMA StoresMonotone ==
  ASSUME NEW r, Within(r)
  PROVE  /\ InitialFacts \subseteq On(r)!InitialFacts
         /\ StoreFacts \subseteq On(r)!StoreFacts
         /\ AliasBaseFacts \subseteq On(r)!AliasBaseFacts
         /\ AliasTargetFacts \subseteq On(r)!AliasTargetFacts
         /\ MatchFacts \subseteq On(r)!MatchFacts
<1>1. InitialFacts \subseteq On(r)!InitialFacts
  BY SameContexts DEF Within, InitialFacts, On!InitialFacts
<1>2. StoreFacts \subseteq On(r)!StoreFacts
  <2>1. ASSUME NEW s \in Sites(store_instr)
        PROVE  PtrFacts(operand_points_to(s[1], s[2].value),
                        { o \in operand_points_to(s[1], s[2].address) :
                            o[2] \in ptr_compatible_allocation }) \subseteq On(r)!StoreFacts
    <3>1. s \in On(r)!Sites(store_instr)
      BY SitesMonotone
    <3>2. /\ operand_points_to(s[1], s[2].value) \subseteq On(r)!operand_points_to(s[1], s[2].value)
          /\ { o \in operand_points_to(s[1], s[2].address) : o[2] \in ptr_compatible_allocation }
               \subseteq { o \in On(r)!operand_points_to(s[1], s[2].address) :
                             o[2] \in ptr_compatible_allocation }
      BY ReadsMonotone
    <3>3. PtrFacts(operand_points_to(s[1], s[2].value),
                   { o \in operand_points_to(s[1], s[2].address) :
                       o[2] \in ptr_compatible_allocation })
            \subseteq On(r)!PtrFacts(On(r)!operand_points_to(s[1], s[2].value),
                                     { o \in On(r)!operand_points_to(s[1], s[2].address) :
                                         o[2] \in ptr_compatible_allocation })
      BY <3>2, FactsMonotone DEF Within
    <3> QED BY <3>1, <3>3 DEF On!StoreFacts
  <2> QED BY <2>1 DEF StoreFacts
<1>3. /\ AliasBaseFacts \subseteq On(r)!AliasBaseFacts
      /\ AliasTargetFacts \subseteq On(r)!AliasTargetFacts
      /\ MatchFacts \subseteq On(r)!MatchFacts
  BY DEF Within, AliasBaseFacts, On!AliasBaseFacts, AliasTargetFacts, On!AliasTargetFacts,
     MatchFacts, On!MatchFacts
<1> QED BY <1>1, <1>2, <1>3

(* A step that derives does not leave the fixpoints that it is within.      *)
LEMMA DerivesWithin ==
  ASSUME NEW r, Within(r), On(r)!Fixpoint, Derives
  PROVE  Within(r)'
<1>1. reachable_context' \subseteq r.reachable_context /\ callgraph_edge' \subseteq r.callgraph_edge
  BY CallGraphMonotone DEF Within, On!Fixpoint, Derives
<1>2. called_at_exit' \subseteq r.called_at_exit
  <2>1. Registered \cup {d[3] : d \in dtor_accepts_recv} \subseteq r.called_at_exit
    BY AtExitMonotone DEF On!Fixpoint
  <2> QED BY <2>1 DEF Within, Derives
<1>3. var_points_to' \subseteq r.var_points_to
  BY InstructionsMonotone, LoadsMonotone, AtExitMonotone DEF Within, On!Fixpoint, Derives
<1>4. ptr_points_to' \subseteq r.ptr_points_to
  BY StoresMonotone DEF Within, On!Fixpoint, Derives
<1> QED BY <1>1, <1>2, <1>3, <1>4 DEF Within, Derives

(* No step derives more than all fixpoints have.                           *)
LEMMA LeastStep == Least /\ [Derives]_vars => Least'
<1> SUFFICES ASSUME Least, [Derives]_vars, NEW r, r.options = options', On(r)!Fixpoint
             PROVE  Within(r)'
  BY DEF Least
<1>1. r.options = options
  BY DEF vars, Derives
<1>2. Within(r)
  BY <1>1 DEF Least
<1>3. CASE Derives
  BY <1>2, <1>3, DerivesWithin
<1>4. CASE UNCHANGED vars
  BY <1>2, <1>4 DEF Within, vars, callgraph
<1> QED BY <1>3, <1>4

(* However the rules are scheduled, nothing is derived that is not in every *)
(* fixpoint of theirs: what Souffle ends with is the least one.             *)
THEOREM LeastResult == DerivationSpec => []Least
<1>1. Init => Least
  BY DEF Init, Least, Within
<1> QED BY <1>1, LeastStep, PTL DEF DerivationSpec

(* So it is in the rounds that precede an execution.                        *)
THEOREM LeastInRounds == ExecutionSpec => []Least
<1>1. ExecutionInit => Least
  BY DEF ExecutionInit, Init, Least, Within
<1>2. [ExecutionNext]_<<vars, analysed, machine>> => [Derives]_vars
  BY RoundDerives DEF ExecutionNext, FinishAnalysis, vars
<1> QED BY <1>1, <1>2, LeastStep, PTL DEF ExecutionSpec

(* The relations, as the record that they are.                             *)
Relations ==
  [options |-> options, reachable_context |-> reachable_context,
   callgraph_edge |-> callgraph_edge, called_at_exit |-> called_at_exit,
   var_points_to |-> var_points_to, ptr_points_to |-> ptr_points_to]

(* The rules over the relations themselves are the rules.                   *)
LEMMA FixpointOfRelations == On(Relations)!Fixpoint <=> Fixpoint
<1>1. /\ On(Relations)!RootFacts = RootFacts
      /\ On(Relations)!CalleeFacts = CalleeFacts
  BY DEF Relations, RootFacts, CalleeFacts, root_context, main_context,
     startup_context, exit_context, main_item, startup_item, exit_item, nil, Cons,
     insensitive, On!RootFacts, On!CalleeFacts, On!root_context, On!main_context,
     On!startup_context, On!exit_context, On!main_item, On!startup_item,
     On!exit_item, On!nil, On!Cons, On!insensitive
<1>2. /\ On(Relations)!DirectEdges = DirectEdges
      /\ On(Relations)!IndirectEdges = IndirectEdges
  BY DEF Relations, DirectEdges, IndirectEdges, EdgesFrom, IndirectCallees,
     FunctionsAt, operand_points_to, ContextsOf, insensitive,
     drop_context_item_by_invoc, drop_context_by_invoc, context_item_by_invoc, Push,
     nil, Cons, On!DirectEdges, On!IndirectEdges, On!EdgesFrom, On!IndirectCallees,
     On!FunctionsAt, On!operand_points_to, On!ContextsOf, On!insensitive,
     On!drop_context_item_by_invoc, On!drop_context_by_invoc,
     On!context_item_by_invoc, On!Push, On!nil, On!Cons
<1>3. /\ On(Relations)!Registered = Registered
      /\ On(Relations)!dtor_accepts_recv = dtor_accepts_recv
      /\ On(Relations)!AtExitFacts = AtExitFacts
  BY DEF Relations, Registered, dtor_accepts_recv, AtExitFacts, FunctionsAt, Args,
     CallsOf, actual_arg, exit_context, exit_item, Cons, operand_points_to,
     ContextsOf, nil, On!Registered, On!dtor_accepts_recv, On!AtExitFacts,
     On!FunctionsAt, On!Args, On!CallsOf, On!actual_arg, On!exit_context,
     On!exit_item, On!Cons, On!operand_points_to, On!ContextsOf, On!nil
<1>4. /\ On(Relations)!AllocatedFacts = AllocatedFacts
      /\ On(Relations)!ArgvFacts = ArgvFacts
      /\ On(Relations)!IntToPtrFacts = IntToPtrFacts
  BY DEF Relations, AllocatedFacts, ArgvFacts, IntToPtrFacts, Sites, ContextsOf,
     main_context, main_item, Cons, nil, On!AllocatedFacts, On!ArgvFacts,
     On!IntToPtrFacts, On!Sites, On!ContextsOf, On!main_context, On!main_item,
     On!Cons, On!nil
<1>5. /\ On(Relations)!AssignFacts = AssignFacts
      /\ On(Relations)!InterpFacts = InterpFacts
  BY DEF Relations, AssignFacts, InterpFacts, VarFacts, KnownContexts,
     reachable_func, interp_assignment, Passed, Returned, actual_arg,
     operand_points_to, ContextsOf, nil, On!AssignFacts, On!InterpFacts, On!VarFacts,
     On!KnownContexts, On!reachable_func, On!interp_assignment, On!Passed,
     On!Returned, On!actual_arg, On!operand_points_to, On!ContextsOf, On!nil
<1>6. /\ On(Relations)!LoadFacts = LoadFacts
      /\ On(Relations)!LoadMatchFacts = LoadMatchFacts
  BY DEF Relations, LoadFacts, LoadMatchFacts, VarFacts, Sites, Loaded,
     LoadedMatching, Pointees, operand_points_to, ContextsOf, nil, On!LoadFacts,
     On!LoadMatchFacts, On!VarFacts, On!Sites, On!Loaded, On!LoadedMatching,
     On!Pointees, On!operand_points_to, On!ContextsOf, On!nil
<1>7. /\ On(Relations)!InitialFacts = InitialFacts
      /\ On(Relations)!StoreFacts = StoreFacts
      /\ On(Relations)!AliasBaseFacts = AliasBaseFacts
      /\ On(Relations)!AliasTargetFacts = AliasTargetFacts
      /\ On(Relations)!MatchFacts = MatchFacts
  BY DEF Relations, InitialFacts, StoreFacts, AliasBaseFacts, AliasTargetFacts,
     MatchFacts, PtrFacts, Sites, operand_points_to, ContextsOf, nil,
     On!InitialFacts, On!StoreFacts, On!AliasBaseFacts, On!AliasTargetFacts,
     On!MatchFacts, On!PtrFacts, On!Sites, On!operand_points_to, On!ContextsOf,
     On!nil
<1> QED
  BY <1>1, <1>2, <1>3, <1>4, <1>5, <1>6, <1>7 DEF Fixpoint, On!Fixpoint, Relations

(* The same of the relations of another evaluation.                         *)
LEMMA NextFixpointOfRelations == Fixpoint' => (On(Relations)!Fixpoint)'
  BY FixpointOfRelations, PTL

(* Two evaluations with the same options that have both come to their end   *)
(* have the same relations, whatever the schedule of either: the result of  *)
(* the analysis does not depend on the order in which Souffle evaluates the *)
(* rules.  The primed relations are those of the other evaluation.          *)
THEOREM OneResult ==
  ASSUME Least, Fixpoint, Least', Fixpoint', options' = options
  PROVE  UNCHANGED vars
<1>1. PICK r : r = Relations
  OBVIOUS
<1>2. PICK q : q = Relations'
  OBVIOUS
<1>3. On(r)!Fixpoint /\ r.options = options
  BY <1>1, FixpointOfRelations DEF Relations
<1>4. On(q)!Fixpoint /\ q.options = options
  <2>1. (On(Relations)!Fixpoint)'
    BY NextFixpointOfRelations
  <2> QED BY <2>1, <1>2 DEF Relations
<1>5. Within(r)' /\ Within(q)
  BY <1>3, <1>4 DEF Least
<1> QED BY <1>1, <1>2, <1>5 DEF Within, Relations, vars, callgraph
=============================================================================
