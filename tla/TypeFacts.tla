----------------------------- MODULE TypeFacts -----------------------------
(***************************************************************************)
(* How the fact generator records types: FactGenerator/src/Types.cpp, the  *)
(* depth-first TypeAccumulator it uses and the TypeVisitor.                *)
(*                                                                         *)
(* The generator has met a set of types while it processed a module.       *)
(* writeTypes first accumulates these types and the types they are made    *)
(* of, then describes every accumulated type.  Types may be recursive, and *)
(* both iterations follow the order of a hash table, so any order.         *)
(***************************************************************************)
EXTENDS Integers, Sequences, SequencesExt, FiniteSets

CONSTANTS
  Type,           \* the LLVM types, each under its printed form
  TypeID,         \* type -> its kind
  Elements,       \* type -> the types it is made of; a function's return type first
  NumElements,    \* array and fixed vector types -> their length
  Sized,          \* the types LLVM has a size for
  AllocSize, StoreSize,  \* sized type -> its sizes in the module's data layout
  FieldOffset,    \* struct type -> getElementOffset of each field
  Recorded        \* the sets of types a module may leave recorded

Simple == {"void", "label", "metadata"}
FloatingPoint == {"half", "float", "double", "x86_fp80", "fp128", "ppc_fp128"}
Unhandled == {"x86_mmx", "token", "bfloat", "x86_amx"}
Kinds == Simple \cup FloatingPoint \cup Unhandled \cup
         {"integer", "function", "struct", "opaque_struct", "array", "pointer",
          "opaque_pointer", "fixed_vector", "scalable_vector"}

ASSUME TypeAssumption ==
  /\ TypeID \in [Type -> Kinds]
  /\ Elements \in [Type -> Seq(Type)]
  /\ Sized \subseteq Type
  /\ Recorded \subseteq SUBSET Type
  /\ \A t \in Type :
       /\ TypeID[t] \in {"opaque_struct", "opaque_pointer"} => Elements[t] = <<>>
       /\ TypeID[t] \in {"array", "fixed_vector", "scalable_vector", "function"} =>
            Elements[t] # <<>>

-----------------------------------------------------------------------------
(* TypeAccumulator.                                                        *)

IsPrimitiveType(t) == TypeID[t] \in Simple \cup FloatingPoint \cup {"x86_mmx"}

Composite == {"array", "pointer", "struct", "fixed_vector", "scalable_vector", "function"}

(* Definitions named with "Slip" are not part of the model: each is a      *)
(* plausible mistake in the definition that follows it.                    *)
ComponentsFunctionSlip(t) ==   \* only the result of a function
  IF TypeID[t] = "function" THEN <<Elements[t][1]>>
  ELSE IF TypeID[t] \in Composite THEN Elements[t] ELSE <<>>

(* The types visitType goes on to from t.  Opaque structs and opaque       *)
(* pointers have no elements to go to; any other kind is reported as       *)
(* unrecognized.                                                           *)
Components(t) ==
  IF IsPrimitiveType(t) \/ TypeID[t] = "integer" \/ TypeID[t] \notin Composite
  THEN <<>>
  ELSE Elements[t]

-----------------------------------------------------------------------------
(* TypeVisitor.  A fact is <<group, name, type, ...>>.  Names of structs,  *)
(* address spaces, variadicity and offsets in bits are left out.           *)

VisitPointerType(t) ==
  {<<"ptr_type", "id", t>>} \cup
  {<<"ptr_type", "component_type", t, Elements[t][i]>> : i \in DOMAIN Elements[t]}

VisitArrayType(t) ==
  { <<"array_type", "id", t>>, <<"array_type", "component_type", t, Elements[t][1]>>,
    <<"array_type", "size", t, NumElements[t]>> }

VisitStructType(t) ==
  {<<"struct_type", "id", t>>} \cup
  IF TypeID[t] = "opaque_struct"
  THEN {<<"struct_type", "opaque", t>>}
  ELSE {<<"struct_type", "field_type", t, i - 1, Elements[t][i]>> : i \in DOMAIN Elements[t]}
       \cup {<<"struct_type", "field_offset", t, i - 1, FieldOffset[t][i]>> :
               i \in DOMAIN Elements[t]}
       \cup {<<"struct_type", "nfields", t, Len(Elements[t])>>}

VisitFunctionType(t) ==
  { <<"func_type", "id", t>>, <<"func_type", "return_type", t, Elements[t][1]>>,
    <<"func_type", "nparams", t, Len(Elements[t]) - 1>> }
  \cup {<<"func_type", "param_type", t, i - 2, Elements[t][i]>> :
          i \in 2..Len(Elements[t])}

VisitVectorType(t) ==
  { <<"vector_type", "id", t>>, <<"vector_type", "component_type", t, Elements[t][1]>> }
  \cup IF TypeID[t] = "fixed_vector" THEN {<<"vector_type", "size", t, NumElements[t]>>} ELSE {}

(* The kinds in Unhandled are reported and get no entity.                  *)
VisitType(t) ==
  (IF t \in Sized
   THEN {<<"type", "alloc_size", t, AllocSize[t]>>, <<"type", "store_size", t, StoreSize[t]>>}
   ELSE {})
  \cup CASE TypeID[t] \in Simple -> {<<"primitive_type", "id", t>>}
         [] TypeID[t] \in FloatingPoint -> {<<"fp_type", "id", t>>}
         [] TypeID[t] = "integer" -> {<<"integer_type", "id", t>>}
         [] TypeID[t] = "function" -> VisitFunctionType(t)
         [] TypeID[t] \in {"struct", "opaque_struct"} -> VisitStructType(t)
         [] TypeID[t] = "array" -> VisitArrayType(t)
         [] TypeID[t] \in {"pointer", "opaque_pointer"} -> VisitPointerType(t)
         [] TypeID[t] \in {"fixed_vector", "scalable_vector"} -> VisitVectorType(t)
         [] OTHER -> {}

(* What writeTypes writes for every module.                                *)
BasicTypes == {<<"primitive_type", "id", t>> : t \in {"void", "label", "metadata", "x86mmx"}}

-----------------------------------------------------------------------------
(* writeTypes.  stack holds the calls of TypeAccumulator::visitType that   *)
(* are still to be made by the recursion, the next one first.              *)

VARIABLES types,        \* the generator's recorded types
          unvisited,    \* those the first loop has not come to
          stack, accumulated,
          unwritten,    \* the accumulated types the second loop has not come to
          phase, facts

vars == <<types, unvisited, stack, accumulated, unwritten, phase, facts>>

Init ==
  /\ types \in Recorded
  /\ unvisited = types
  /\ stack = <<>> /\ accumulated = {} /\ unwritten = {}
  /\ phase = "accumulate"
  /\ facts = BasicTypes

NextRecordedSlip ==   \* the loop does not advance
  /\ phase = "accumulate" /\ stack = <<>>
  /\ \E t \in unvisited : stack' = <<t>>
  /\ UNCHANGED <<types, unvisited, accumulated, unwritten, phase, facts>>

NextRecorded ==
  /\ phase = "accumulate" /\ stack = <<>>
  /\ \E t \in unvisited :
       /\ unvisited' = unvisited \ {t}
       /\ stack' = <<t>>
  /\ UNCHANGED <<types, accumulated, unwritten, phase, facts>>

AccumulateSlip ==   \* a recorded type taken for one that is visited
  /\ phase = "accumulate" /\ stack # <<>>
  /\ stack' = (IF Head(stack) \in types THEN <<>> ELSE Components(Head(stack)))
              \o Tail(stack)
  /\ accumulated' = accumulated \cup {Head(stack)}
  /\ UNCHANGED <<types, unvisited, unwritten, phase, facts>>

(* visitType returns at once for a type it knows, and before anything else *)
(* notes the type: this is what ends the recursion for recursive types.    *)
Accumulate ==
  /\ phase = "accumulate" /\ stack # <<>>
  /\ stack' = (IF Head(stack) \in accumulated THEN <<>> ELSE Components(Head(stack)))
              \o Tail(stack)
  /\ accumulated' = accumulated \cup {Head(stack)}
  /\ UNCHANGED <<types, unvisited, unwritten, phase, facts>>

StartWriting ==
  /\ phase = "accumulate" /\ stack = <<>> /\ unvisited = {}
  /\ phase' = "write"
  /\ unwritten' = accumulated
  /\ UNCHANGED <<types, unvisited, stack, accumulated, facts>>

Write ==
  /\ phase = "write"
  /\ \E t \in unwritten :
       /\ facts' = facts \cup VisitType(t)
       /\ unwritten' = unwritten \ {t}
  /\ UNCHANGED <<types, unvisited, stack, accumulated, phase>>

Next == NextRecorded \/ Accumulate \/ StartWriting \/ Write

Spec == Init /\ [][Next]_vars
FairSpec == Spec /\ WF_vars(Next)

Written == phase = "write" /\ unwritten = {}

-----------------------------------------------------------------------------
(* What the analysis reads off these facts: datalog/schema/type.dl.        *)

BuiltinSizesSlip ==   \* float and double exchanged
  { <<"i1", 1>>, <<"i8", 1>>, <<"i32", 4>>, <<"i64", 8>>, <<"double", 4>>,
    <<"float", 8>>, <<"half", 2>>, <<"fp128", 16>>, <<"x86_fp80", 10>>,
    <<"ppc_fp128", 16>> }

BuiltinSizes ==
  { <<"i1", 1>>, <<"i8", 1>>, <<"i32", 4>>, <<"i64", 8>>, <<"double", 8>>,
    <<"float", 4>>, <<"half", 2>>, <<"fp128", 16>>, <<"x86_fp80", 10>>,
    <<"ppc_fp128", 16>> }

type_has_size ==
  BuiltinSizes \cup
  {<<f[3], f[4]>> : f \in {g \in facts : g[1] = "type" /\ g[2] = "alloc_size"}}

(* The types with an entity.                                               *)
type == {b[1] : b \in BuiltinSizes} \cup {f[3] : f \in {g \in facts : g[2] = "id"}}

Of(group, name) == {f[3] : f \in {g \in facts : g[1] = group /\ g[2] = name}}

-----------------------------------------------------------------------------
(* Properties.                                                             *)

(* The variables have their types.                                         *)
TypeOK ==
  /\ types \in Recorded
  /\ unvisited \subseteq types
  /\ stack \in Seq(Type)
  /\ accumulated \subseteq Type
  /\ unwritten \subseteq accumulated
  /\ phase \in {"accumulate", "write"}

(* Sets of types that contain what their members are made of.              *)
Closed(S) == \A t \in S : Range(Components(t)) \subseteq S

(* The recursion visits the types contained in the recorded ones, however  *)
(* deep, and no others ("Find types contained in the types encountered so  *)
(* far, but not referenced directly"): what is accumulated is the least    *)
(* closed set of types that contains the recorded ones.                    *)
AccumulatesContained ==
  phase = "write" =>
    /\ types \subseteq accumulated /\ Closed(accumulated)
    /\ \A S \in SUBSET accumulated : types \subseteq S /\ Closed(S) => S = accumulated

(* Every type a fact names as a component, field, parameter or result has  *)
(* an entity once all is written, unless it is of a kind the visitor only  *)
(* reports.                                                                *)
ComponentsDescribed ==
  Written =>
    /\ \A f \in facts :
         /\ f[2] \in {"component_type", "return_type"} => f[4] \in type \/ TypeID[f[4]] \in Unhandled
         /\ f[2] \in {"field_type", "param_type"} => f[5] \in type \/ TypeID[f[5]] \in Unhandled

(* assert_type_has_size and assert_type_unique_size: every type but         *)
(* functions, opaque structs and the four named ones has a size, and only  *)
(* one, although the data layout and constants of the schema both give     *)
(* sizes; except long double, for which these are 16 and 10.               *)
TypesHaveOneSize ==
  Written =>
    \A t \in type \ (Of("func_type", "id") \cup Of("struct_type", "opaque")
                      \cup {"void", "label", "metadata", "x86mmx"}) :
      /\ \E s \in type_has_size : s[1] = t
      /\ t # "x86_fp80" => \A s, r \in type_has_size : s[1] = t /\ r[1] = t => s = r

(* What this asks of LLVM and of the module.  LLVM prints a type without   *)
(* structure by its name; all have sizes but functions, opaque structs and *)
(* structs and arrays of these, of which the module has none; and the data *)
(* layout pads none of the basic types.                                    *)
UnpaddedSize ==
  [ i1 |-> 1, i8 |-> 1, i32 |-> 4, i64 |-> 8, double |-> 8, float |-> 4, half |-> 2,
    fp128 |-> 16, ppc_fp128 |-> 16 ]

SizesAsExpected ==
  /\ \A t \in Type : TypeID[t] \in Simple => t = TypeID[t]
  /\ \A t \in Type \ Sized :
       TypeID[t] \in Simple \cup Unhandled \cup {"function", "opaque_struct"}
  /\ \A t \in Sized \cap DOMAIN UnpaddedSize : AllocSize[t] = UnpaddedSize[t]

(* writeTypes ends, also for types that contain themselves.                *)
Finishes == <>Written
=============================================================================
