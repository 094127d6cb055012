-------------------------- MODULE TypeFactsProofs --------------------------
(***************************************************************************)
(* For every type graph, however recursive, and whatever the order of the  *)
(* two loops, the types accumulated by writeTypes are the recorded types   *)
(* and those contained in them, and nothing else.                          *)
(***************************************************************************)
EXTENDS TypeFacts, TLAPS

-----------------------------------------------------------------------------
(* Ranges of sequences.                                                    *)

(* Concatenation joins the ranges.                                         *)
LEMMA RangeOfConcatenation ==
  ASSUME NEW T, NEW s \in Seq(T), NEW r \in Seq(T)
  PROVE  Range(s \o r) = Range(s) \cup Range(r)
<1>1. Range(s \o r) \subseteq Range(s) \cup Range(r)
  <2> SUFFICES ASSUME NEW i \in DOMAIN (s \o r)
               PROVE  (s \o r)[i] \in Range(s) \cup Range(r)
    BY DEF Range
  <2>1. CASE i <= Len(s)
    BY <2>1 DEF Range
  <2>2. CASE i > Len(s)
    <3>1. i - Len(s) \in DOMAIN r /\ (s \o r)[i] = r[i - Len(s)]
      BY <2>2
    <3> QED BY <3>1 DEF Range
  <2> QED BY <2>1, <2>2
<1>2. Range(s) \subseteq Range(s \o r)
  <2> SUFFICES ASSUME NEW i \in DOMAIN s PROVE s[i] \in Range(s \o r)
    BY DEF Range
  <2>1. i \in DOMAIN (s \o r) /\ (s \o r)[i] = s[i]
    OBVIOUS
  <2> QED BY <2>1 DEF Range
<1>3. Range(r) \subseteq Range(s \o r)
  <2> SUFFICES ASSUME NEW i \in DOMAIN r PROVE r[i] \in Range(s \o r)
    BY DEF Range
  <2>1. Len(s) + i \in DOMAIN (s \o r) /\ (s \o r)[Len(s) + i] = r[i]
    OBVIOUS
  <2> QED BY <2>1 DEF Range
<1> QED BY <1>1, <1>2, <1>3

(* A non-empty sequence has its head and the elements of its tail.         *)
LEMMA RangeOfHeadAndTail ==
  ASSUME NEW T, NEW s \in Seq(T), s # <<>>
  PROVE  /\ Head(s) \in T /\ Tail(s) \in Seq(T)
         /\ Range(s) = {Head(s)} \cup Range(Tail(s))
<1>1. Head(s) \in T /\ Tail(s) \in Seq(T) /\ Head(s) = s[1] /\ 1 \in DOMAIN s
  OBVIOUS
<1>2. Range(s) \subseteq {Head(s)} \cup Range(Tail(s))
  <2> SUFFICES ASSUME NEW i \in DOMAIN s, i # 1 PROVE s[i] \in Range(Tail(s))
    BY <1>1 DEF Range
  <2>1. i - 1 \in DOMAIN Tail(s) /\ Tail(s)[i - 1] = s[i]
    OBVIOUS
  <2> QED BY <2>1 DEF Range
<1>3. Range(Tail(s)) \subseteq Range(s)
  <2> SUFFICES ASSUME NEW i \in DOMAIN Tail(s) PROVE Tail(s)[i] \in Range(s)
    BY DEF Range
  <2>1. i + 1 \in DOMAIN s /\ Tail(s)[i] = s[i + 1]
    OBVIOUS
  <2> QED BY <2>1 DEF Range
<1> QED BY <1>1, <1>2, <1>3 DEF Range

(* The empty sequence has nothing in it.                                   *)
LEMMA RangeOfEmpty == Range(<<>>) = {}
BY DEF Range

(* A sequence of one element has that element in it.                       *)
LEMMA RangeOfShort ==
  ASSUME NEW t
  PROVE  Range(<<t>>) = {t}
BY DEF Range

(* The components of a type are a sequence of types.                       *)
LEMMA ComponentsType == \A t \in Type : Components(t) \in Seq(Type)
BY TypeAssumption DEF Components

-----------------------------------------------------------------------------
(* The inductive invariant: what is missing from the accumulated types is  *)
(* on the stack of calls still to be made, and nothing on it or in them    *)
(* was not asked for.                                                      *)

Asked == \A S \in SUBSET Type :
           types \subseteq S /\ Closed(S) => accumulated \subseteq S /\ Range(stack) \subseteq S

IInv ==
  /\ TypeOK
  /\ types \ unvisited \subseteq accumulated \cup Range(stack)
  /\ \A t \in accumulated : Range(Components(t)) \subseteq accumulated \cup Range(stack)
  /\ Asked
  /\ phase = "write" => stack = <<>> /\ unvisited = {}

LEMMA InitIInv == Init => IInv
<1> SUFFICES ASSUME Init PROVE IInv
  OBVIOUS
<1>1. TypeOK
  BY TypeAssumption DEF Init, TypeOK
<1>2. Asked
  BY RangeOfEmpty DEF Init, Asked
<1> QED BY <1>1, <1>2 DEF Init, IInv

LEMMA NextIInv == IInv /\ [Next]_vars => IInv'
<1> SUFFICES ASSUME IInv, [Next]_vars PROVE IInv'
  OBVIOUS
<1>a. types \subseteq Type
  BY TypeAssumption DEF IInv, TypeOK
<1>1. CASE NextRecorded
  <2>1. PICK t \in unvisited : unvisited' = unvisited \ {t} /\ stack' = <<t>>
    BY <1>1 DEF NextRecorded
  <2>2. UNCHANGED <<types, accumulated, unwritten, phase, facts>> /\ phase = "accumulate"
        /\ stack = <<>>
    BY <1>1 DEF NextRecorded
  <2>3. t \in types /\ t \in Type /\ Range(stack) = {} /\ Range(stack') = {t}
    BY <1>a, <2>1, <2>2, RangeOfEmpty, RangeOfShort DEF IInv, TypeOK
  <2>4. TypeOK'
    BY <2>1, <2>2, <2>3 DEF IInv, TypeOK
  <2>5. Asked'
    BY <2>2, <2>3 DEF IInv, Asked, Closed
  <2> QED BY <2>1, <2>2, <2>3, <2>4, <2>5 DEF IInv
<1>2. CASE Accumulate
  <2> DEFINE h == Head(stack)
             new == IF h \in accumulated THEN <<>> ELSE Components(h)
  <2>1. /\ phase = "accumulate" /\ stack # <<>>
        /\ stack' = new \o Tail(stack)
        /\ accumulated' = accumulated \cup {h}
        /\ UNCHANGED <<types, unvisited, unwritten, phase, facts>>
    BY <1>2 DEF Accumulate
  <2>2. /\ h \in Type /\ Tail(stack) \in Seq(Type)
        /\ Range(stack) = {h} \cup Range(Tail(stack))
    BY <2>1, RangeOfHeadAndTail DEF IInv, TypeOK
  <2>3. new \in Seq(Type) /\ Range(new) \subseteq Range(Components(h))
    <3>1. <<>> \in Seq(Type) /\ Range(<<>>) = {}
      BY RangeOfEmpty
    <3>2. Components(h) \in Seq(Type)
      BY <2>2, ComponentsType
    <3>3. new = <<>> \/ new = Components(h)
      OBVIOUS
    <3> HIDE DEF new
    <3> QED BY <3>1, <3>2, <3>3
  <2>4. stack' \in Seq(Type) /\ Range(stack') = Range(new) \cup Range(Tail(stack))
    <3>1. \A s, r \in Seq(Type) :
            s \o r \in Seq(Type) /\ Range(s \o r) = Range(s) \cup Range(r)
      BY RangeOfConcatenation
    <3> HIDE DEF new
    <3> QED BY <2>1, <2>2, <2>3, <3>1
  <2>5. TypeOK'
    BY <2>1, <2>2, <2>4 DEF IInv, TypeOK
  <2>6. types' \ unvisited' \subseteq accumulated' \cup Range(stack')
    BY <2>1, <2>2, <2>4 DEF IInv
  <2>7. \A t \in accumulated' :
          Range(Components(t)) \subseteq accumulated' \cup Range(stack')
    <3> SUFFICES ASSUME NEW t \in accumulated'
                 PROVE  Range(Components(t)) \subseteq accumulated' \cup Range(stack')
      OBVIOUS
    <3>1. CASE t \in accumulated
      BY <3>1, <2>1, <2>2, <2>4 DEF IInv
    <3>2. CASE t = h /\ h \notin accumulated
      BY <3>2, <2>4
    <3> QED BY <3>1, <3>2, <2>1
  <2>8. Asked'
    BY <2>1, <2>2, <2>3, <2>4 DEF IInv, Asked, Closed
  <2> QED BY <2>1, <2>5, <2>6, <2>7, <2>8 DEF IInv
<1>3. CASE StartWriting
  BY <1>3 DEF StartWriting, IInv, TypeOK, Asked, Closed
<1>4. CASE Write
  BY <1>4 DEF Write, IInv, TypeOK, Asked, Closed
<1>5. CASE UNCHANGED vars
  BY <1>5 DEF vars, IInv, TypeOK, Asked, Closed
<1> QED BY <1>1, <1>2, <1>3, <1>4, <1>5 DEF Next

-----------------------------------------------------------------------------
(* The variables of writeTypes always have their types.                    *)
THEOREM TypeCorrectness == Spec => []TypeOK
<1>1. IInv => TypeOK
  BY DEF IInv
<1> QED BY InitIInv, NextIInv, <1>1, PTL DEF Spec

(* writeTypes describes exactly the recorded types and the types contained *)
(* in them: TypeAccumulator misses none behind a type it has seen before   *)
(* and adds none (TypeAccumulator::visitType).                             *)
THEOREM Accumulation == Spec => []AccumulatesContained
<1>1. IInv => AccumulatesContained
  <2> SUFFICES ASSUME IInv, phase = "write" PROVE AccumulatesContained
    BY DEF AccumulatesContained
  <2>1. Range(stack) = {} /\ unvisited = {}
    BY RangeOfEmpty DEF IInv
  <2>2. types \subseteq accumulated /\ Closed(accumulated)
    BY <2>1 DEF IInv, Closed
  <2>3. ASSUME NEW S \in SUBSET accumulated, types \subseteq S, Closed(S)
        PROVE  S = accumulated
    BY <2>3 DEF IInv, Asked, TypeOK
  <2> QED BY <2>2, <2>3 DEF AccumulatesContained
<1> QED BY InitIInv, NextIInv, <1>1, PTL DEF Spec

-----------------------------------------------------------------------------
(* Facts of the type visitor.                                              *)

(* A type the visitor does more than report has an entity.                 *)
LEMMA VisitedHasEntity ==
  ASSUME NEW t \in Type, TypeID[t] \notin Unhandled
  PROVE  \E f \in VisitType(t) : f[2] = "id" /\ f[3] = t
<1>1. TypeID[t] \in Kinds
  BY TypeAssumption
<1>2. CASE TypeID[t] \in Simple
  <2>1. <<"primitive_type", "id", t>> \in VisitType(t)
    BY <1>2 DEF VisitType, Simple, FloatingPoint
  <2> QED BY <2>1
<1>3. CASE TypeID[t] \in FloatingPoint
  <2>1. <<"fp_type", "id", t>> \in VisitType(t)
    BY <1>3 DEF VisitType, Simple, FloatingPoint
  <2> QED BY <2>1
<1>4. CASE TypeID[t] = "integer"
  <2>1. <<"integer_type", "id", t>> \in VisitType(t)
    BY <1>4 DEF VisitType, Simple, FloatingPoint
  <2> QED BY <2>1
<1>5. CASE TypeID[t] = "function"
  <2>1. <<"func_type", "id", t>> \in VisitType(t)
    BY <1>5 DEF VisitType, VisitFunctionType, Simple, FloatingPoint
  <2> QED BY <2>1
<1>6. CASE TypeID[t] \in {"struct", "opaque_struct"}
  <2>1. <<"struct_type", "id", t>> \in VisitType(t)
    BY <1>6 DEF VisitType, VisitStructType, Simple, FloatingPoint
  <2> QED BY <2>1
<1>7. CASE TypeID[t] = "array"
  <2>1. <<"array_type", "id", t>> \in VisitType(t)
    BY <1>7 DEF VisitType, VisitArrayType, Simple, FloatingPoint
  <2> QED BY <2>1
<1>8. CASE TypeID[t] \in {"pointer", "opaque_pointer"}
  <2>1. <<"ptr_type", "id", t>> \in VisitType(t)
    BY <1>8 DEF VisitType, VisitPointerType, Simple, FloatingPoint
  <2> QED BY <2>1
<1>9. CASE TypeID[t] \in {"fixed_vector", "scalable_vector"}
  <2>1. <<"vector_type", "id", t>> \in VisitType(t)
    BY <1>9 DEF VisitType, VisitVectorType, Simple, FloatingPoint
  <2> QED BY <2>1
<1> QED
  BY <1>1, <1>2, <1>3, <1>4, <1>5, <1>6, <1>7, <1>8, <1>9 DEF Kinds

(* The facts of a type are about it, and what they name as its parts are   *)
(* the types the accumulator goes on to.                                   *)
LEMMA VisitedNames ==
  ASSUME NEW t \in Type, NEW f \in VisitType(t)
  PROVE  /\ f[3] = t
         /\ f[2] \in {"component_type", "return_type"} => f[4] \in Range(Components(t))
         /\ f[2] \in {"field_type", "param_type"} => f[5] \in Range(Components(t))
         /\ f[2] = "alloc_size" => f[1] = "type" /\ t \in Sized /\ f[4] = AllocSize[t]
<1>1. TypeID[t] \in Kinds /\ Elements[t] \in Seq(Type)
  BY TypeAssumption
<1>2. \A i \in DOMAIN Elements[t] : Elements[t][i] \in Range(Elements[t])
  BY DEF Range
<1>3. Elements[t] # <<>> => 1 \in DOMAIN Elements[t]
  BY <1>1
<1>4. CASE \/ f = <<"type", "alloc_size", t, AllocSize[t]>> /\ t \in Sized
           \/ f = <<"type", "store_size", t, StoreSize[t]>>
  BY <1>4
<1>5. CASE TypeID[t] \in Simple /\ f = <<"primitive_type", "id", t>>
  BY <1>5
<1>6. CASE TypeID[t] \in FloatingPoint /\ f = <<"fp_type", "id", t>>
  BY <1>6
<1>7. CASE TypeID[t] = "integer" /\ f = <<"integer_type", "id", t>>
  BY <1>7
<1>8. CASE TypeID[t] = "function" /\ f \in VisitFunctionType(t)
  <2>1. Components(t) = Elements[t] /\ Elements[t] # <<>>
    BY <1>8, TypeAssumption DEF Components, IsPrimitiveType, Composite, Simple, FloatingPoint
  <2>2. CASE f \in {<<"func_type", "id", t>>, <<"func_type", "nparams", t, Len(Elements[t]) - 1>>}
    BY <2>2
  <2>3. CASE f = <<"func_type", "return_type", t, Elements[t][1]>>
    BY <2>1, <2>3, <1>2, <1>3
  <2>4. CASE \E i \in 2..Len(Elements[t]) : f = <<"func_type", "param_type", t, i - 2, Elements[t][i]>>
    <3>1. PICK i \in 2..Len(Elements[t]) : f = <<"func_type", "param_type", t, i - 2, Elements[t][i]>>
      BY <2>4
    <3>2. i \in DOMAIN Elements[t]
      BY <1>1
    <3> QED BY <2>1, <3>1, <3>2, <1>2
  <2> QED BY <1>8, <2>2, <2>3, <2>4 DEF VisitFunctionType
<1>9. CASE TypeID[t] \in {"struct", "opaque_struct"} /\ f \in VisitStructType(t)
  <2>1. CASE f = <<"struct_type", "id", t>> \/ f = <<"struct_type", "opaque", t>>
    BY <2>1
  <2>2. CASE f = <<"struct_type", "nfields", t, Len(Elements[t])>>
    BY <2>2
  <2>3. CASE \E i \in DOMAIN Elements[t] : f = <<"struct_type", "field_offset", t, i - 1, FieldOffset[t][i]>>
    BY <2>3
  <2>4. CASE /\ TypeID[t] = "struct"
             /\ \E i \in DOMAIN Elements[t] : f = <<"struct_type", "field_type", t, i - 1, Elements[t][i]>>
    <3>1. Components(t) = Elements[t]
      BY <2>4, TypeAssumption DEF Components, IsPrimitiveType, Composite, Simple, FloatingPoint
    <3> QED BY <2>4, <3>1, <1>2
  <2> QED BY <1>9, <2>1, <2>2, <2>3, <2>4 DEF VisitStructType
<1>10. CASE TypeID[t] = "array" /\ f \in VisitArrayType(t)
  <2>1. Components(t) = Elements[t] /\ Elements[t] # <<>>
    BY <1>10, TypeAssumption DEF Components, IsPrimitiveType, Composite, Simple, FloatingPoint
  <2> QED BY <1>2, <1>3, <1>10, <2>1 DEF VisitArrayType
<1>11. CASE TypeID[t] \in {"pointer", "opaque_pointer"} /\ f \in VisitPointerType(t)
  <2>1. CASE f = <<"ptr_type", "id", t>>
    BY <2>1
  <2>2. CASE \E i \in DOMAIN Elements[t] : f = <<"ptr_type", "component_type", t, Elements[t][i]>>
    <3>1. PICK i \in DOMAIN Elements[t] : f = <<"ptr_type", "component_type", t, Elements[t][i]>>
      BY <2>2
    <3>2. TypeID[t] # "opaque_pointer"
      BY TypeAssumption
    <3>3. Components(t) = Elements[t]
      BY <1>11, <3>2 DEF Components, IsPrimitiveType, Composite, Simple, FloatingPoint
    <3> QED BY <3>1, <3>3, <1>2
  <2> QED BY <1>11, <2>1, <2>2 DEF VisitPointerType
<1>12. CASE TypeID[t] \in {"fixed_vector", "scalable_vector"} /\ f \in VisitVectorType(t)
  <2>1. Components(t) = Elements[t] /\ Elements[t] # <<>>
    BY <1>12, TypeAssumption DEF Components, IsPrimitiveType, Composite, Simple, FloatingPoint
  <2>2. CASE f \in {<<"vector_type", "id", t>>, <<"vector_type", "size", t, NumElements[t]>>}
    BY <2>2
  <2>3. CASE f = <<"vector_type", "component_type", t, Elements[t][1]>>
    BY <2>1, <2>3, <1>2, <1>3
  <2> QED BY <1>12, <2>2, <2>3 DEF VisitVectorType
<1> QED
  BY <1>1, <1>4, <1>5, <1>6, <1>7, <1>8, <1>9, <1>10, <1>11, <1>12
  DEF VisitType, Kinds, Simple, FloatingPoint, Unhandled

-----------------------------------------------------------------------------
(* The facts are those of the types that were written.                     *)

FactsOfWritten ==
  facts = BasicTypes \cup
          IF phase = "write" THEN UNION {VisitType(t) : t \in accumulated \ unwritten} ELSE {}

LEMMA InitFacts == Init => FactsOfWritten
BY DEF Init, FactsOfWritten

LEMMA NextFacts == IInv /\ FactsOfWritten /\ [Next]_vars => FactsOfWritten'
<1> SUFFICES ASSUME IInv, FactsOfWritten, [Next]_vars PROVE FactsOfWritten'
  OBVIOUS
<1>1. CASE NextRecorded \/ Accumulate
  BY <1>1 DEF NextRecorded, Accumulate, FactsOfWritten
<1>2. CASE StartWriting
  BY <1>2 DEF StartWriting, FactsOfWritten
<1>3. CASE Write
  <2>1. PICK t \in unwritten : facts' = facts \cup VisitType(t) /\ unwritten' = unwritten \ {t}
    BY <1>3 DEF Write
  <2>2. phase = "write" /\ UNCHANGED <<types, unvisited, stack, accumulated, phase>>
    BY <1>3 DEF Write
  <2>3. accumulated \ unwritten' = (accumulated \ unwritten) \cup {t}
    BY <2>1 DEF IInv, TypeOK
  <2> QED BY <2>1, <2>2, <2>3 DEF FactsOfWritten
<1>4. CASE UNCHANGED vars
  BY <1>4 DEF vars, FactsOfWritten
<1> QED BY <1>1, <1>2, <1>3, <1>4 DEF Next

(* When all is written, a fact is one of BasicTypes or a fact of an        *)
(* accumulated type.                                                       *)
LEMMA WrittenFacts ==
  ASSUME IInv, FactsOfWritten, Written
  PROVE  /\ facts = BasicTypes \cup UNION {VisitType(t) : t \in accumulated}
         /\ accumulated \subseteq Type /\ Closed(accumulated)
<1>1. Range(stack) = {}
  BY RangeOfEmpty DEF IInv, Written
<1> QED BY <1>1 DEF IInv, TypeOK, FactsOfWritten, Written, Closed

(* Every accumulated type has an entity or is only reported.               *)
LEMMA AccumulatedDescribed ==
  ASSUME IInv, FactsOfWritten, Written, NEW t \in accumulated
  PROVE  t \in type \/ TypeID[t] \in Unhandled
<1> SUFFICES ASSUME TypeID[t] \notin Unhandled PROVE t \in type
  OBVIOUS
<1>1. t \in Type /\ VisitType(t) \subseteq facts
  BY WrittenFacts
<1>2. PICK f \in facts : f[2] = "id" /\ f[3] = t
  BY <1>1, VisitedHasEntity
<1> QED BY <1>2 DEF type

(* The references between the type facts are never dangling: a type that   *)
(* a component, field, parameter or result refers to is described as well, *)
(* for every type graph and in every order of the two loops.               *)
THEOREM References == Spec => []ComponentsDescribed
<1>1. IInv /\ FactsOfWritten => ComponentsDescribed
  <2> SUFFICES ASSUME IInv, FactsOfWritten, Written, NEW f \in facts
               PROVE  /\ f[2] \in {"component_type", "return_type"} =>
                           f[4] \in type \/ TypeID[f[4]] \in Unhandled
                      /\ f[2] \in {"field_type", "param_type"} =>
                           f[5] \in type \/ TypeID[f[5]] \in Unhandled
    BY DEF ComponentsDescribed
  <2>1. CASE f \in BasicTypes
    BY <2>1 DEF BasicTypes
  <2>2. CASE \E t \in accumulated : f \in VisitType(t)
    <3>1. PICK t \in accumulated : f \in VisitType(t)
      BY <2>2
    <3>2. t \in Type /\ Range(Components(t)) \subseteq accumulated
      BY WrittenFacts DEF Closed
    <3>3. /\ f[2] \in {"component_type", "return_type"} => f[4] \in accumulated
          /\ f[2] \in {"field_type", "param_type"} => f[5] \in accumulated
      BY <3>1, <3>2, VisitedNames
    <3> QED BY <3>3, AccumulatedDescribed
  <2> QED BY <2>1, <2>2, WrittenFacts
<1>2. IInv /\ FactsOfWritten /\ [Next]_vars => IInv' /\ FactsOfWritten'
  BY NextIInv, NextFacts
<1>3. Init => IInv /\ FactsOfWritten
  BY InitIInv, InitFacts
<1> QED BY <1>1, <1>2, <1>3, PTL DEF Spec

-----------------------------------------------------------------------------
(* Sizes.                                                                  *)

(* The constants of the schema give a type at most one size.               *)
LEMMA BuiltinSizesUnique ==
  ASSUME NEW s \in BuiltinSizes, NEW r \in BuiltinSizes, s[1] = r[1]
  PROVE  s = r
BY DEF BuiltinSizes

(* Without a size but with an entity are functions, opaque structs and the *)
(* types that have names of their own.                                     *)
LEMMA EntityWithoutSize ==
  ASSUME SizesAsExpected, NEW t \in Type \ Sized,
         NEW f \in VisitType(t), f[2] = "id"
  PROVE  \/ t \in {"void", "label", "metadata"}
         \/ <<"func_type", "id", t>> \in VisitType(t)
         \/ <<"struct_type", "opaque", t>> \in VisitType(t)
<1>1. CASE TypeID[t] \in Simple
  BY <1>1 DEF SizesAsExpected, Simple
<1>2. CASE TypeID[t] = "function"
  BY <1>2 DEF VisitType, VisitFunctionType, Simple, FloatingPoint
<1>3. CASE TypeID[t] = "opaque_struct"
  BY <1>3 DEF VisitType, VisitStructType, Simple, FloatingPoint
<1>4. CASE TypeID[t] \in Unhandled
  <2>1. VisitType(t) = {}
    BY <1>4 DEF VisitType, Unhandled, Simple, FloatingPoint
  <2> QED BY <2>1
<1> QED BY <1>1, <1>2, <1>3, <1>4 DEF SizesAsExpected

(* A size is a constant of the schema, or that of the data layout.         *)
LEMMA SizesAreOneOfTwo ==
  ASSUME IInv, FactsOfWritten, Written, NEW s \in type_has_size
  PROVE  s \in BuiltinSizes \/ (s[1] \in Sized /\ s = <<s[1], AllocSize[s[1]]>>)
<1> SUFFICES ASSUME s \notin BuiltinSizes PROVE s[1] \in Sized /\ s = <<s[1], AllocSize[s[1]]>>
  OBVIOUS
<1>1. PICK f \in facts : f[1] = "type" /\ f[2] = "alloc_size" /\ s = <<f[3], f[4]>>
  BY DEF type_has_size
<1>2. f \notin BasicTypes
  BY <1>1 DEF BasicTypes
<1>3. PICK t \in accumulated : f \in VisitType(t)
  BY <1>2, WrittenFacts
<1>4. t \in Type
  BY WrittenFacts
<1>5. f[3] = t /\ t \in Sized /\ f[4] = AllocSize[t]
  BY <1>1, <1>3, <1>4, VisitedNames
<1> QED BY <1>1, <1>5

(* assert_type_has_size and assert_type_unique_size cannot fail for any    *)
(* module whose types have the sizes that LLVM gives to all but functions  *)
(* and opaque structs, and whose data layout does not pad the types that   *)
(* the schema gives constant sizes (datalog/schema/type.dl).               *)
THEOREM Sizes ==
  ASSUME SizesAsExpected
  PROVE  Spec => []TypesHaveOneSize
<1>1. IInv /\ FactsOfWritten => TypesHaveOneSize
  <2> SUFFICES ASSUME IInv, FactsOfWritten, Written,
                      NEW t \in type \ (Of("func_type", "id") \cup Of("struct_type", "opaque")
                                         \cup {"void", "label", "metadata", "x86mmx"})
               PROVE  /\ \E s \in type_has_size : s[1] = t
                      /\ t # "x86_fp80" =>
                           \A s, r \in type_has_size : s[1] = t /\ r[1] = t => s = r
    BY DEF TypesHaveOneSize
  <2>1. \E s \in type_has_size : s[1] = t
    <3>1. CASE \E b \in BuiltinSizes : t = b[1]
      BY <3>1 DEF type_has_size
    <3>2. CASE \E f \in facts : f[2] = "id" /\ f[3] = t
      <4>1. PICK f \in facts : f[2] = "id" /\ f[3] = t
        BY <3>2
      <4>2. f \notin BasicTypes
        BY <4>1 DEF BasicTypes
      <4>3. PICK u \in accumulated : f \in VisitType(u)
        BY <4>2, WrittenFacts
      <4>4. u = t /\ t \in Type /\ VisitType(t) \subseteq facts
        BY <4>1, <4>3, WrittenFacts, VisitedNames
      <4>5. t \in Sized
        <5>1. <<"func_type", "id", t>> \notin facts /\ <<"struct_type", "opaque", t>> \notin facts
          BY DEF Of
        <5> QED BY <4>1, <4>3, <4>4, <5>1, EntityWithoutSize
      <4>6. <<"type", "alloc_size", t, AllocSize[t]>> \in facts
        BY <4>4, <4>5 DEF VisitType
      <4>7. <<t, AllocSize[t]>> \in type_has_size
        BY <4>6 DEF type_has_size
      <4> QED BY <4>7
    <3> QED BY <3>1, <3>2 DEF type
  <2>2. ASSUME t # "x86_fp80", NEW s \in type_has_size, NEW r \in type_has_size,
               s[1] = t, r[1] = t
        PROVE  s = r
    <3>1. ASSUME NEW b \in BuiltinSizes, b[1] = t, t \in Sized
          PROVE  b = <<t, AllocSize[t]>>
      <4>1. AllocSize[t] = b[2]
        BY <2>2, <3>1 DEF SizesAsExpected, BuiltinSizes, UnpaddedSize
      <4> QED BY <3>1, <4>1 DEF BuiltinSizes
    <3>2. CASE s \in BuiltinSizes /\ r \in BuiltinSizes
      BY <2>2, <3>2, BuiltinSizesUnique
    <3> QED BY <2>2, <3>1, <3>2, SizesAreOneOfTwo
  <2> QED BY <2>1, <2>2
<1>2. IInv /\ FactsOfWritten /\ [Next]_vars => IInv' /\ FactsOfWritten'
  BY NextIInv, NextFacts
<1>3. Init => IInv /\ FactsOfWritten
  BY InitIInv, InitFacts
<1> QED BY <1>1, <1>2, <1>3, PTL DEF Spec
=============================================================================
