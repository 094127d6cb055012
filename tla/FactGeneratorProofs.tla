------------------------ MODULE FactGeneratorProofs ------------------------
(***************************************************************************)
(* What holds of the fact generator for every program.                     *)
(***************************************************************************)
EXTENDS SchemaConstraints, SequenceTheorems, FiniteSetTheorems, TLAPS

-----------------------------------------------------------------------------
(* The requests of the visitor.                                            *)

(* No request is for a signature, and a fact with a type is only ever asked *)
(* for through recordType.                                                  *)
RequestKinds ==
  {"entity", "flag", "attribute", "ordinal", "type", "operand", "indexed", "gepindex", "source"}

Harmless(r) ==
  /\ r.what \in RequestKinds
  /\ r.pred[1] # "signature"
  /\ r.pred[2] \in TypeNames => r.what = "type"

Asks(s) == \E S : s \in Seq(S) /\ \A r \in S : Harmless(r)

(* Sequences of such requests one after the other. *)
LEMMA AsksConcat ==
  ASSUME NEW s, NEW t, Asks(s), Asks(t)
  PROVE  Asks(s \o t)
<1>1. PICK S : s \in Seq(S) /\ \A r \in S : Harmless(r)
  BY DEF Asks
<1>2. PICK T : t \in Seq(T) /\ \A r \in T : Harmless(r)
  BY DEF Asks
<1>3. s \in Seq(S \cup T) /\ t \in Seq(S \cup T)
  <2>1. /\ Len(s) \in Nat /\ s \in [1 .. Len(s) -> S]
        /\ Len(t) \in Nat /\ t \in [1 .. Len(t) -> T]
    BY <1>1, <1>2, LenProperties, SeqDef
  <2>2. s \in [1 .. Len(s) -> S \cup T] /\ t \in [1 .. Len(t) -> S \cup T]
    BY <2>1
  <2>3. QED
    BY <2>1, <2>2, SeqDef
<1>4. s \o t \in Seq(S \cup T)
  BY <1>3, ConcatProperties
<1>5. QED
  BY <1>1, <1>2, <1>4 DEF Asks

(* A few requests in a row, or none. *)
LEMMA AsksThese ==
  /\ Asks(<<>>)
  /\ \A a : Harmless(a) => Asks(<<a>>)
  /\ \A a, b : Harmless(a) /\ Harmless(b) => Asks(<<a, b>>)
  /\ \A a, b, c : Harmless(a) /\ Harmless(b) /\ Harmless(c) => Asks(<<a, b, c>>)
  /\ \A a, b, c, d : Harmless(a) /\ Harmless(b) /\ Harmless(c) /\ Harmless(d)
                      => Asks(<<a, b, c, d>>)
<1>1. <<>> \in Seq({})
  OBVIOUS
<1>2. \A a : <<a>> \in Seq({a})
  OBVIOUS
<1>3. \A a, b : <<a, b>> \in Seq({a, b})
  OBVIOUS
<1>4. \A a, b, c : <<a, b, c>> \in Seq({a, b, c})
  OBVIOUS
<1>5. \A a, b, c, d : <<a, b, c, d>> \in Seq({a, b, c, d})
  OBVIOUS
<1>6. Asks(<<>>)
  <2> DEFINE s == <<>>
             S == {}
  <2>1. s \in Seq(S) /\ \A r \in S : Harmless(r)
    BY <1>1
  <2> HIDE DEF s, S
  <2>2. Asks(s)
    BY <2>1 DEF Asks
  <2>3. QED
    BY <2>2 DEF s
<1>7. ASSUME NEW a, Harmless(a) PROVE Asks(<<a>>)
  <2> DEFINE s == <<a>>
             S == {a}
  <2>1. \A r \in S : Harmless(r)
    BY <1>7
  <2>2. s \in Seq(S)
    BY <1>2
  <2> HIDE DEF s, S
  <2>3. Asks(s)
    BY <2>1, <2>2 DEF Asks
  <2>4. QED
    BY <2>3 DEF s
<1>8. ASSUME NEW a, NEW b, Harmless(a), Harmless(b) PROVE Asks(<<a, b>>)
  <2> DEFINE s == <<a, b>>
             S == {a, b}
  <2>1. \A r \in S : Harmless(r)
    BY <1>8
  <2>2. s \in Seq(S)
    BY <1>3
  <2> HIDE DEF s, S
  <2>3. Asks(s)
    BY <2>1, <2>2 DEF Asks
  <2>4. QED
    BY <2>3 DEF s
<1>9. ASSUME NEW a, NEW b, NEW c, Harmless(a), Harmless(b), Harmless(c) PROVE Asks(<<a, b, c>>)
  <2> DEFINE s == <<a, b, c>>
             S == {a, b, c}
  <2>1. \A r \in S : Harmless(r)
    BY <1>9
  <2>2. s \in Seq(S)
    BY <1>4
  <2> HIDE DEF s, S
  <2>3. Asks(s)
    BY <2>1, <2>2 DEF Asks
  <2>4. QED
    BY <2>3 DEF s
<1>10. ASSUME NEW a, NEW b, NEW c, NEW d, Harmless(a), Harmless(b), Harmless(c), Harmless(d) PROVE Asks(<<a, b, c, d>>)
  <2> DEFINE s == <<a, b, c, d>>
             S == {a, b, c, d}
  <2>1. \A r \in S : Harmless(r)
    BY <1>10
  <2>2. s \in Seq(S)
    BY <1>5
  <2> HIDE DEF s, S
  <2>3. Asks(s)
    BY <2>1, <2>2 DEF Asks
  <2>4. QED
    BY <2>3 DEF s
<1>11. QED
  BY <1>6, <1>7, <1>8, <1>9, <1>10

(* A numbered family of requests. *)
LEMMA AsksFamily ==
  ASSUME NEW s, NEW n \in Int, DOMAIN s = 1 .. n, s = [i \in 1 .. n |-> s[i]],
         \A i \in 1 .. n : Harmless(s[i])
  PROVE  Asks(s)
<1> DEFINE S == {s[i] : i \in 1 .. n}
           m == IF n < 0 THEN 0 ELSE n
<1>1. m \in Nat /\ 1 .. n = 1 .. m
  OBVIOUS
<1>2. s \in [1 .. m -> S]
  BY <1>1
<1>3. s \in Seq(S)
  BY <1>1, <1>2, SeqDef
<1>4. QED
  BY <1>3 DEF Asks

(* Requests under a condition. *)
LEMMA AsksWhen ==
  ASSUME NEW c, NEW s, c => Asks(s)
  PROVE  Asks(When(c, s))
  BY AsksThese DEF When

-----------------------------------------------------------------------------
(* What all kinds of requests have in common. *)
LEMMA HarmlessRequests ==
  ASSUME NEW g, g # "signature", NEW n, NEW v, NEW i
  PROVE  /\ Harmless(Entity(g))
         /\ n \notin TypeNames => /\ Harmless(Flag(g, n))
                                 /\ Harmless(Attribute(g, n, v))
                                 /\ Harmless(Ordinal(g, n, i, v))
                                 /\ Harmless(Operand(g, n, v))
                                 /\ Harmless(IndexedOperand(g, n, i, v))
         /\ Harmless(TypeOf(g, n, v))
  BY DEF Harmless, RequestKinds, TypeNames, Entity, Flag, Attribute, Ordinal, Operand, IndexedOperand,
         TypeOf, Request

(* Families of operands. *)
LEMMA OperandsAsk ==
  ASSUME NEW g, g # "signature", NEW n, n \notin TypeNames, NEW seq, Len(seq) \in Nat
  PROVE  Asks(Operands(g, n, seq))
<1> DEFINE m == Len(seq)
           e(i) == IndexedOperand(g, n, i - 1, seq[i])
           s == [i \in 1 .. m |-> e(i)]
<1>1. \A i \in 1 .. m : Harmless(e(i))
  BY HarmlessRequests
<1>2. m \in Int
  OBVIOUS
<1> HIDE DEF e, m
<1>3. Asks(s)
  BY <1>1, <1>2, AsksFamily
<1>4. QED
  BY <1>3 DEF Operands, e, m

(* A list is a sequence of its elements. *)
LEMMA ListIsSeq ==
  ASSUME NEW l, IsList(l)
  PROVE  l \in Seq({l[i] : i \in DOMAIN l}) /\ Len(l) \in Nat /\ DOMAIN l = 1 .. Len(l)
<1> DEFINE n == Len(l)
           S == {l[i] : i \in DOMAIN l}
<1>1. n \in Nat /\ l = [i \in 1 .. n |-> l[i]]
  BY DEF IsList
<1>2. DOMAIN l = 1 .. n
  BY <1>1
<1>3. l \in [1 .. n -> S]
  BY <1>1, <1>2
<1>4. l \in Seq(S)
  BY <1>1, <1>3, SeqDef
<1>5. QED
  BY <1>1, <1>2, <1>4

(* The parts that several visitors share. *)
LEMMA SharedAsk ==
  ASSUME NEW I, I.op # "signature"
  PROVE  /\ Asks(WriteOptimizationInfo(I))
         /\ Asks(WriteAtomicInfo(I))
         /\ Asks(WriteAlignment(I))
         /\ Asks(WriteCallingConv(I))
         /\ Asks(WriteCondition(I))
<1>1. Asks(WriteAtomicInfo(I))
  BY HarmlessRequests, AsksThese, AsksConcat, AsksWhen DEF WriteAtomicInfo, TypeNames
<1>2. Asks(WriteAlignment(I))
  BY HarmlessRequests, AsksThese, AsksWhen DEF WriteAlignment, TypeNames
<1>3. Asks(WriteCallingConv(I))
  BY HarmlessRequests, AsksThese, AsksWhen DEF WriteCallingConv, TypeNames
<1>4. Asks(WriteCondition(I))
  BY HarmlessRequests, AsksThese DEF WriteCondition, TypeNames
<1>5. Asks(WriteOptimizationInfo(I))
  <2> DEFINE kept == IF "fast" \in I.attrs.flags
                     THEN {"fast"}
                     ELSE I.attrs.flags \cap {"nnan", "ninf", "nsz", "arcp", "acon", "apfn"}
             flags == kept \cup (I.attrs.flags \cap {"nuw", "nsw", "exact"})
             n == Cardinality(flags)
             e(i) == Attribute("instr", "flag", SetToSeq(flags)[i])
             F == {"fast"} \cup {"nnan"} \cup {"ninf"} \cup {"nsz"} \cup {"arcp"}
             all == F \cup {"acon"} \cup {"apfn"} \cup {"nuw"} \cup {"nsw"} \cup {"exact"}
             s == [i \in 1 .. n |-> e(i)]
  <2>1. IsFiniteSet(all)
    <3>1. \A S, x : IsFiniteSet(S) => IsFiniteSet(S \cup {x})
      BY FS_AddElement
    <3>2. IsFiniteSet({"fast"})
      BY FS_Singleton
    <3>3. IsFiniteSet({"fast"} \cup {"nnan"} \cup {"ninf"})
      BY <3>1, <3>2
    <3>4. IsFiniteSet(F)
      BY <3>1, <3>3
    <3> HIDE DEF F
    <3>5. IsFiniteSet(F \cup {"acon"} \cup {"apfn"} \cup {"nuw"})
      BY <3>1, <3>4
    <3>6. QED
      BY <3>1, <3>5
  <2>2. flags \in SUBSET all
    OBVIOUS
  <2>3. n \in Nat
    BY <2>1, <2>2, FS_Subset, FS_CardinalityType
  <2>4. \A i \in 1 .. n : Harmless(e(i))
    BY HarmlessRequests DEF TypeNames
  <2> HIDE DEF e, n
  <2>5. Asks(s)
    BY <2>3, <2>4, AsksFamily
  <2>6. QED
    BY <2>5 DEF WriteOptimizationInfo, e, n
<1>6. QED
  BY <1>1, <1>2, <1>3, <1>4, <1>5

(* The visitors of instructions whose facts are not numbered. *)
LEMMA PlainVisitorsAsk ==
  ASSUME NEW I, I.op # "signature"
  PROVE  /\ Asks(VisitCastInst(I))
         /\ Asks(VisitReturnInst(I))
         /\ Asks(VisitBranchInst(I))
         /\ Asks(VisitResumeInst(I))
         /\ Asks(VisitUnreachableInst(I))
         /\ Asks(VisitAllocaInst(I))
         /\ Asks(VisitLoadInst(I))
         /\ Asks(VisitVAArgInst(I))
         /\ Asks(VisitStoreInst(I))
         /\ Asks(VisitAtomicCmpXchgInst(I))
         /\ Asks(VisitAtomicRMWInst(I))
         /\ Asks(VisitFenceInst(I))
         /\ Asks(VisitExtractElementInst(I))
         /\ Asks(VisitInsertElementInst(I))
         /\ Asks(VisitShuffleVectorInst(I))
         /\ Asks(VisitSelectInst(I))
         /\ Asks(VisitCmpInst(I))
         /\ Asks(VisitUnaryInstruction(I))
         /\ Asks(VisitFreezeInst(I))
         /\ Asks(VisitBinaryInst(I))
<1>1. Asks(VisitCastInst(I))
  BY HarmlessRequests, AsksThese, AsksConcat, AsksWhen, SharedAsk
  DEF VisitCastInst, TypeNames
<1>2. Asks(VisitReturnInst(I))
  BY HarmlessRequests, AsksThese, AsksConcat, AsksWhen, SharedAsk
  DEF VisitReturnInst, TypeNames
<1>3. Asks(VisitBranchInst(I))
  BY HarmlessRequests, AsksThese, AsksConcat, AsksWhen, SharedAsk
  DEF VisitBranchInst, TypeNames
<1>4. Asks(VisitResumeInst(I))
  BY HarmlessRequests, AsksThese, AsksConcat, AsksWhen, SharedAsk
  DEF VisitResumeInst, TypeNames
<1>5. Asks(VisitUnreachableInst(I))
  BY HarmlessRequests, AsksThese, AsksConcat, AsksWhen, SharedAsk
  DEF VisitUnreachableInst, TypeNames
<1>6. Asks(VisitAllocaInst(I))
  BY HarmlessRequests, AsksThese, AsksConcat, AsksWhen, SharedAsk
  DEF VisitAllocaInst, TypeNames
<1>7. Asks(VisitLoadInst(I))
  BY HarmlessRequests, AsksThese, AsksConcat, AsksWhen, SharedAsk
  DEF VisitLoadInst, TypeNames
<1>8. Asks(VisitVAArgInst(I))
  BY HarmlessRequests, AsksThese, AsksConcat, AsksWhen, SharedAsk
  DEF VisitVAArgInst, TypeNames
<1>9. Asks(VisitStoreInst(I))
  BY HarmlessRequests, AsksThese, AsksConcat, AsksWhen, SharedAsk
  DEF VisitStoreInst, TypeNames
<1>10. Asks(VisitAtomicCmpXchgInst(I))
  BY HarmlessRequests, AsksThese, AsksConcat, AsksWhen, SharedAsk
  DEF VisitAtomicCmpXchgInst, WriteCmpXchgOrdering, TypeNames
<1>11. Asks(VisitAtomicRMWInst(I))
  BY HarmlessRequests, AsksThese, AsksConcat, AsksWhen, SharedAsk
  DEF VisitAtomicRMWInst, WriteAtomicRMWOp, TypeNames
<1>12. Asks(VisitFenceInst(I))
  BY HarmlessRequests, AsksThese, AsksConcat, AsksWhen, SharedAsk
  DEF VisitFenceInst, TypeNames
<1>13. Asks(VisitExtractElementInst(I))
  BY HarmlessRequests, AsksThese, AsksConcat, AsksWhen, SharedAsk
  DEF VisitExtractElementInst, TypeNames
<1>14. Asks(VisitInsertElementInst(I))
  BY HarmlessRequests, AsksThese, AsksConcat, AsksWhen, SharedAsk
  DEF VisitInsertElementInst, TypeNames
<1>15. Asks(VisitShuffleVectorInst(I))
  BY HarmlessRequests, AsksThese, AsksConcat, AsksWhen, SharedAsk
  DEF VisitShuffleVectorInst, TypeNames
<1>16. Asks(VisitSelectInst(I))
  BY HarmlessRequests, AsksThese, AsksConcat, AsksWhen, SharedAsk
  DEF VisitSelectInst, TypeNames
<1>17. Asks(VisitCmpInst(I))
  BY HarmlessRequests, AsksThese, AsksConcat, AsksWhen, SharedAsk
  DEF VisitCmpInst, TypeNames
<1>18. Asks(VisitUnaryInstruction(I))
  BY HarmlessRequests, AsksThese, AsksConcat, AsksWhen, SharedAsk
  DEF VisitUnaryInstruction, TypeNames
<1>19. Asks(VisitFreezeInst(I))
  BY HarmlessRequests, AsksThese, AsksConcat, AsksWhen, SharedAsk
  DEF VisitFreezeInst, TypeNames
<1>20. Asks(VisitBinaryInst(I))
  BY HarmlessRequests, AsksThese, AsksConcat, AsksWhen, SharedAsk
  DEF VisitBinaryInst, TypeNames
<1>21. QED
  BY <1>1, <1>2, <1>3, <1>4, <1>5, <1>6, <1>7, <1>8, <1>9, <1>10, <1>11, <1>12, <1>13, <1>14, <1>15, <1>16, <1>17, <1>18, <1>19, <1>20

(* The visitors that number operands. *)
LEMMA SwitchAsks ==
  ASSUME NEW I, IsList(I.ops)
  PROVE  Asks(VisitSwitchInst(I))
<1> DEFINE n == 2 * NumCases(I)
           e(k) == IndexedOperand("switch_", IF k % 2 = 1 THEN "case_value" ELSE "case_label",
                                  (k - 1) \div 2, Op(I, k + 1))
           s == [k \in 1 .. n |-> e(k)]
<1>1. n \in Int
  BY ListIsSeq DEF NumCases, NumOperands
<1>2. \A k \in 1 .. n : Harmless(e(k))
  BY HarmlessRequests DEF TypeNames
<1> HIDE DEF e, n
<1>3. Asks(s)
  BY <1>1, <1>2, AsksFamily
<1>4. Asks([k \in 1 .. 2 * NumCases(I) |->
              IndexedOperand("switch_", IF k % 2 = 1 THEN "case_value" ELSE "case_label",
                             (k - 1) \div 2, Op(I, k + 1))])
  BY <1>3 DEF e, n
<1>5. QED
  BY <1>4, HarmlessRequests, AsksThese, AsksConcat DEF VisitSwitchInst, TypeNames

LEMMA IndirectBrAsks ==
  ASSUME NEW I, IsList(I.ops), I.ops # <<>>
  PROVE  Asks(VisitIndirectBrInst(I))
<1>1. Len(Tail(I.ops)) \in Nat
  BY ListIsSeq, HeadTailProperties, LenProperties
<1>2. Asks(Operands("indirectbr", "label", Tail(I.ops)))
  BY <1>1, OperandsAsk DEF TypeNames
<1>3. QED
  BY <1>2, HarmlessRequests, AsksThese, AsksConcat DEF VisitIndirectBrInst, TypeNames

(* The arguments of a call. *)
LEMMA ArgumentsAsk ==
  ASSUME NEW I, IsList(I.ops), NEW g, g # "signature"
  PROVE  Asks(Operands(g, "arg", ArgOperands(I)))
<1> DEFINE n == NumOperands(I) - IF I.op = "invoke" THEN 3 ELSE 1
<1>1. n \in Int /\ \A i \in 1 .. n : I.ops[i] \in {I.ops[j] : j \in DOMAIN I.ops}
  BY ListIsSeq DEF NumOperands
<1>2. Len(SubSeq(I.ops, 1, n)) \in Nat
  BY <1>1, SubSeqProperties
<1>3. QED
  BY <1>2, OperandsAsk DEF ArgOperands, TypeNames

LEMMA CallsAsk ==
  ASSUME NEW I, IsList(I.ops)
  PROVE  Asks(VisitCallInst(I)) /\ Asks(VisitDbgDeclareInst(I))
         /\ (I.op # "signature" => Asks(VisitInvokeInst(I)))
<1>1. Asks(VisitCallInst(I))
  BY ArgumentsAsk, HarmlessRequests, AsksThese, AsksConcat, AsksWhen DEF VisitCallInst, TypeNames
<1>2. Harmless(Source(I.attrs.source, I.attrs.address))
  BY DEF Harmless, RequestKinds, Source, Request, TypeNames
<1>3. Asks(VisitDbgDeclareInst(I))
  BY <1>1, <1>2, AsksThese, AsksConcat, AsksWhen DEF VisitDbgDeclareInst
<1>4. ASSUME I.op # "signature" PROVE Asks(VisitInvokeInst(I))
  <2>1. Asks(<<Entity("invoke"), Operand("invoke", "func_operand", CalledOperand(I))>>)
    BY HarmlessRequests, AsksThese DEF TypeNames
  <2>2. Asks(<<Operand("invoke", "normal_label", NormalDest(I)),
               Operand("invoke", "exception_label", UnwindDest(I))>>)
    BY HarmlessRequests, AsksThese DEF TypeNames
  <2>3. QED
    BY <1>4, <2>1, <2>2, SharedAsk, ArgumentsAsk, AsksConcat DEF VisitInvokeInst
<1>5. QED
  BY <1>1, <1>3, <1>4

LEMMA GetElementPtrAsks ==
  ASSUME NEW I, IsList(I.ops)
  PROVE  Asks(VisitGetElementPtrInst(I))
<1> DEFINE n == NumOperands(I) - 1
           e(i) == IF Op(I, i).kind = "const"
                   THEN Request("gepindex", <<"getelementptr", "index">>, Op(I, i), i - 1)
                   ELSE IndexedOperand("getelementptr", "index", i - 1, Op(I, i))
           s == [i \in 1 .. n |-> e(i)]
<1>1. n \in Int
  BY ListIsSeq DEF NumOperands
<1>2. \A v, i : Harmless(Request("gepindex", <<"getelementptr", "index">>, v, i))
  BY DEF Harmless, RequestKinds, Request, TypeNames
<1>3. \A i \in 1 .. n : Harmless(e(i))
  BY <1>2, HarmlessRequests DEF TypeNames
<1> HIDE DEF e, n
<1>4. Asks(s)
  BY <1>1, <1>3, AsksFamily
<1>5. Asks([i \in 1 .. (NumOperands(I) - 1) |->
              IF Op(I, i).kind = "const"
              THEN Request("gepindex", <<"getelementptr", "index">>, Op(I, i), i - 1)
              ELSE IndexedOperand("getelementptr", "index", i - 1, Op(I, i))])
  BY <1>4 DEF e, n
<1>6. QED
  BY <1>5, HarmlessRequests, AsksThese, AsksConcat, AsksWhen DEF VisitGetElementPtrInst, TypeNames

LEMMA ConstantIndicesAsk ==
  ASSUME NEW I, I.op # "signature", IsList(I.attrs.indices)
  PROVE  Asks(VisitExtractValueInst(I)) /\ Asks(VisitInsertValueInst(I))
<1> DEFINE n == Len(I.attrs.indices)
           e(i) == Ordinal(I.op, "index", i - 1, I.attrs.indices[i])
           s == [i \in 1 .. n |-> e(i)]
<1>1. n \in Int
  BY ListIsSeq
<1>2. \A i \in 1 .. n : Harmless(e(i))
  BY HarmlessRequests DEF TypeNames
<1> HIDE DEF e, n
<1>3. Asks(s)
  BY <1>1, <1>2, AsksFamily
<1>4. Asks([i \in 1 .. Len(I.attrs.indices) |->
              Ordinal(I.op, "index", i - 1, I.attrs.indices[i])])
  BY <1>3 DEF e, n
<1>5. Asks(ConstantIndices(I))
  BY <1>4, HarmlessRequests, AsksThese, AsksConcat DEF ConstantIndices, TypeNames
<1>6. QED
  BY <1>5, HarmlessRequests, AsksThese, AsksConcat
  DEF VisitExtractValueInst, VisitInsertValueInst, TypeNames

LEMMA PhiAsks ==
  ASSUME NEW I, IsList(I.ops)
  PROVE  Asks(VisitPHINode(I))
<1> DEFINE n == 2 * NumOperands(I)
           e(k) == LET i == (k + 1) \div 2
                   IN IF k % 2 = 1
                      THEN IndexedOperand("phi", "pair_value", i - 1, I.ops[i])
                      ELSE IndexedOperand("phi", "pair_label", i - 1, I.attrs.incoming[i])
           s == [k \in 1 .. n |-> e(k)]
<1>1. n \in Int
  BY ListIsSeq DEF NumOperands
<1>2. \A k \in 1 .. n : Harmless(e(k))
  BY HarmlessRequests DEF TypeNames
<1> HIDE DEF e, n
<1>3. Asks(s)
  BY <1>1, <1>2, AsksFamily
<1>4. Asks([k \in 1 .. (2 * NumOperands(I)) |->
              LET i == (k + 1) \div 2
              IN IF k % 2 = 1
                 THEN IndexedOperand("phi", "pair_value", i - 1, I.ops[i])
                 ELSE IndexedOperand("phi", "pair_label", i - 1, I.attrs.incoming[i])])
  BY <1>3 DEF e, n
<1>5. QED
  BY <1>4, HarmlessRequests, AsksThese, AsksConcat DEF VisitPHINode, TypeNames

LEMMA LandingPadAsks ==
  ASSUME NEW I, IsList(I.ops)
  PROVE  Asks(VisitLandingPadInst(I))
<1> DEFINE n == NumOperands(I)
           e(i) == IndexedOperand("landingpad",
                     IF i - 1 \in I.attrs.filters THEN "filter_clause" ELSE "catch_clause",
                     i - 1, I.ops[i])
           s == [i \in 1 .. n |-> e(i)]
<1>1. n \in Int
  BY ListIsSeq DEF NumOperands
<1>2. \A i \in 1 .. n : Harmless(e(i))
  BY HarmlessRequests DEF TypeNames
<1> HIDE DEF e, n
<1>3. Asks(s)
  BY <1>1, <1>2, AsksFamily
<1>4. Asks([i \in 1 .. NumOperands(I) |->
              IndexedOperand("landingpad",
                IF i - 1 \in I.attrs.filters THEN "filter_clause" ELSE "catch_clause",
                i - 1, I.ops[i])])
  BY <1>3 DEF e, n
<1>5. QED
  BY <1>4, HarmlessRequests, AsksThese, AsksConcat, AsksWhen DEF VisitLandingPadInst, TypeNames

(* Whatever the instruction. *)
LEMMA VisitorAsks ==
  ASSUME NEW I, IsList(I.ops), I.op = "indirectbr" => I.ops # <<>>,
         I.op \in {"extractvalue", "insertvalue"} => IsList(I.attrs.indices)
  PROVE  Asks(Visit(I))
<1>1. CASE I.op = "signature"
  <2>1. Visit(I) = VisitUnaryInstruction(I)
    BY <1>1 DEF Visit, CastOps, BinaryOps
  <2>2. Asks(VisitUnaryInstruction(I))
    BY HarmlessRequests, AsksThese, AsksWhen DEF VisitUnaryInstruction, TypeNames
  <2>3. QED
    BY <2>1, <2>2
<1>2. CASE I.op # "signature"
  <2>1. /\ Asks(VisitSwitchInst(I)) /\ Asks(VisitPHINode(I)) /\ Asks(VisitLandingPadInst(I))
        /\ Asks(VisitGetElementPtrInst(I))
        /\ Asks(VisitCallInst(I)) /\ Asks(VisitDbgDeclareInst(I)) /\ Asks(VisitInvokeInst(I))
    BY <1>2, SwitchAsks, PhiAsks, LandingPadAsks, GetElementPtrAsks, CallsAsk
  <2>2. I.op = "indirectbr" => Asks(VisitIndirectBrInst(I))
    BY IndirectBrAsks
  <2>3. I.op \in {"extractvalue", "insertvalue"}
          => Asks(VisitExtractValueInst(I)) /\ Asks(VisitInsertValueInst(I))
    BY <1>2, ConstantIndicesAsk
  <2>4. QED
    BY <1>2, <2>1, <2>2, <2>3, PlainVisitorsAsk DEF Visit
<1>3. QED
  BY <1>1, <1>2

(* Each request that is made is harmless. *)
LEMMA RequestHarmless ==
  ASSUME NEW s, Asks(s), NEW n \in Nat \ {0}, n <= Len(s)
  PROVE  Harmless(s[n]) /\ n \in DOMAIN s
<1>1. PICK S : s \in Seq(S) /\ \A r \in S : Harmless(r)
  BY DEF Asks
<1>2. n \in 1 .. Len(s)
  BY <1>1, LenProperties
<1>3. QED
  BY <1>1, <1>2, LenProperties, ElementOfSeq

-----------------------------------------------------------------------------
(* What the operations do to the generator.                                *)

ManagerFields == {"contexts", "iFunctionCtx", "instrIndex", "constantIndex"}
IsManager(cm) == cm = [f \in ManagerFields |-> cm[f]]

GeneratorFields == {"cm", "facts", "variables", "types", "results", "issued", "constants"}
IsGenerator(g) == g = [f \in GeneratorFields |-> g[f]]

(* A fact that is no signature and mentions no other types than these. *)
Proper(f, types) ==
  /\ f[1][1] # "signature"
  /\ f[1][2] \in TypeNames => f[3] \in types \cup {"label"}

(* Facts and types are added and the walk stands where it stood. *)
Describes(g, h) ==
  /\ IsGenerator(h) /\ IsManager(h.cm)
  /\ h.cm.contexts = g.cm.contexts
  /\ h.cm.iFunctionCtx = g.cm.iFunctionCtx
  /\ h.cm.instrIndex = g.cm.instrIndex
  /\ g.facts \subseteq h.facts /\ g.types \subseteq h.types
  /\ \A f \in h.facts \ g.facts : Proper(f, h.types)

Ready(g) == IsGenerator(g) /\ IsManager(g.cm)

LEMMA DescribesTransitive ==
  ASSUME NEW g, NEW h, NEW k, Describes(g, h), Describes(h, k)
  PROVE  Describes(g, k)
<1>1. \A f : Proper(f, h.types) => Proper(f, k.types)
  BY DEF Describes, Proper
<1>2. QED
  BY <1>1 DEF Describes

LEMMA DescribesReady ==
  ASSUME NEW g, NEW h, Describes(g, h)
  PROVE  Ready(h)
  BY DEF Describes, Ready

(* Recording facts, types, variables, entities. *)
LEMMA WritingFacts ==
  ASSUME NEW g, Ready(g), NEW facts, \A f \in facts : Proper(f, g.types)
  PROVE  Describes(g, WriteFacts(g, facts))
  BY DEF Ready, IsGenerator, GeneratorFields, Describes, WriteFacts

LEMMA RecordingType ==
  ASSUME NEW g, Ready(g), NEW type
  PROVE  /\ Describes(g, RecordType(g, type))
         /\ type \in RecordType(g, type).types
  BY DEF Ready, IsGenerator, GeneratorFields, Describes, RecordType

LEMMA Issuing ==
  ASSUME NEW g, Ready(g), NEW ref, NEW entity
  PROVE  Describes(g, Issue(g, ref, entity))
  BY DEF Ready, IsGenerator, GeneratorFields, Describes, Issue

LEMMA RecordingVariable ==
  ASSUME NEW g, Ready(g), NEW ref, NEW type, NEW name
  PROVE  Describes(g, RecordVariable(g, ref, type, name))
  BY DEF Ready, IsGenerator, GeneratorFields, Describes, RecordVariable

LEMMA Saving ==
  ASSUME NEW g, Ready(g), NEW pairs
  PROVE  Describes(g, SaveAll(g, pairs))
  BY DEF Ready, IsGenerator, GeneratorFields, Describes, SaveAll

(* The parts of a fact. *)
LEMMA Headed ==
  ASSUME NEW x, NEW S, NEW t \in Seq(S)
  PROVE  /\ (<<x>> \o t)[1] = x
         /\ \A i \in 1 .. Len(t) : (<<x>> \o t)[i + 1] = t[i]
<1> DEFINE T == S \cup {x}
           h == <<x>>
<1>1. h \in Seq(T) /\ Len(h) = 1 /\ h[1] = x
  OBVIOUS
<1>2. t \in Seq(T) /\ Len(t) \in Nat
  BY SeqMonotonic, LenProperties
<1> HIDE DEF h, T
<1>3. \A i \in 1 .. Len(h) + Len(t) : (h \o t)[i] = IF i <= Len(h) THEN h[i] ELSE t[i - Len(h)]
  BY <1>1, <1>2, ConcatProperties
<1>4. (h \o t)[1] = x
  BY <1>1, <1>2, <1>3
<1>5. ASSUME NEW i \in 1 .. Len(t) PROVE (h \o t)[i + 1] = t[i]
  <2>1. i + 1 \in 1 .. Len(h) + Len(t) /\ ~(i + 1 <= Len(h)) /\ (i + 1) - Len(h) = i
    BY <1>1, <1>2
  <2>2. QED
    BY <2>1, <1>3
<1>6. QED
  BY <1>4, <1>5 DEF h

LEMMA FactParts ==
  ASSUME NEW group, NEW name
  PROVE  /\ \A a : Fact(group, name, <<a>>)[1] = <<group, name>>
         /\ \A a, b : Fact(group, name, <<a, b>>)[1] = <<group, name>>
         /\ \A a, b : Fact(group, name, <<a, b>>)[3] = b
         /\ \A a, b, c : Fact(group, name, <<a, b, c>>)[1] = <<group, name>>
<1>1. \A a : <<a>> \in Seq({a})
  OBVIOUS
<1>2. \A a, b : <<a, b>> \in Seq({a, b}) /\ 2 \in 1 .. Len(<<a, b>>) /\ <<a, b>>[2] = b
  OBVIOUS
<1>3. \A a, b, c : <<a, b, c>> \in Seq({a, b, c})
  OBVIOUS
<1>4. \A x, S : \A t \in Seq(S) : (<<x>> \o t)[1] = x
  BY Headed
<1>5. ASSUME NEW a PROVE Fact(group, name, <<a>>)[1] = <<group, name>>
  BY <1>1, <1>4 DEF Fact
<1>6. ASSUME NEW a, NEW b PROVE Fact(group, name, <<a, b>>)[1] = <<group, name>>
  BY <1>2, <1>4 DEF Fact
<1>7. ASSUME NEW a, NEW b PROVE Fact(group, name, <<a, b>>)[3] = b
  <2>1. \A i \in 1 .. Len(<<a, b>>) :
          (<< <<group, name>> >> \o <<a, b>>)[i + 1] = <<a, b>>[i]
    BY <1>2, Headed
  <2>2. (<< <<group, name>> >> \o <<a, b>>)[2 + 1] = b
    BY <2>1, <1>2
  <2>3. QED
    BY <2>2 DEF Fact
<1>8. ASSUME NEW a, NEW b, NEW c PROVE Fact(group, name, <<a, b, c>>)[1] = <<group, name>>
  BY <1>3, <1>4 DEF Fact
<1>9. QED
  BY <1>5, <1>6, <1>7, <1>8

LEMMA ProperFacts ==
  ASSUME NEW group, group # "signature", NEW name, NEW types
  PROVE  /\ name \notin TypeNames =>
              /\ \A a : Proper(Fact(group, name, <<a>>), types)
              /\ \A a, b : Proper(Fact(group, name, <<a, b>>), types)
              /\ \A a, b, c : Proper(Fact(group, name, <<a, b, c>>), types)
         /\ \A a, b : b \in types \cup {"label"} => Proper(Fact(group, name, <<a, b>>), types)
<1>1. <<group, name>>[1] = group /\ <<group, name>>[2] = name
  OBVIOUS
<1>2. \A f : f[1] = <<group, name>> /\ name \notin TypeNames => Proper(f, types)
  BY <1>1 DEF Proper
<1>3. \A f : f[1] = <<group, name>> /\ f[3] \in types \cup {"label"} => Proper(f, types)
  BY <1>1 DEF Proper
<1>4. /\ \A a : Fact(group, name, <<a>>)[1] = <<group, name>>
      /\ \A a, b : Fact(group, name, <<a, b>>)[1] = <<group, name>>
      /\ \A a, b : Fact(group, name, <<a, b>>)[3] = b
      /\ \A a, b, c : Fact(group, name, <<a, b, c>>)[1] = <<group, name>>
  BY FactParts
<1>5. ASSUME name \notin TypeNames
      PROVE  /\ \A a : Proper(Fact(group, name, <<a>>), types)
             /\ \A a, b : Proper(Fact(group, name, <<a, b>>), types)
             /\ \A a, b, c : Proper(Fact(group, name, <<a, b, c>>), types)
  BY <1>2, <1>4, <1>5
<1>6. ASSUME NEW a, NEW b, b \in types \cup {"label"}
      PROVE  Proper(Fact(group, name, <<a, b>>), types)
  BY <1>3, <1>4, <1>6
<1>7. QED
  BY <1>5, <1>6

LEMMA ProperOption ==
  ASSUME NEW option, NEW ref, NEW group, group # "signature",
         NEW name, name \notin TypeNames, NEW types
  PROVE  \A f \in FromOption(option, ref, group, name) : Proper(f, types)
  BY ProperFacts DEF FromOption

(* The facts of a constant. *)
LEMMA KindFactsProper ==
  ASSUME NEW c, NEW id, NEW types
  PROVE  \A f \in ConstantKindFacts(c, id) : Proper(f, types)
<1>1. \A g, n : g # "signature" /\ n \notin TypeNames =>
        /\ \A a : Proper(Fact(g, n, <<a>>), types)
        /\ \A a, b : Proper(Fact(g, n, <<a, b>>), types)
  BY ProperFacts
<1>2. QED
  BY <1>1 DEF ConstantKindFacts, Optional, TypeNames

LEMMA DescribeConstantProper ==
  ASSUME NEW c, NEW id, NEW function, NEW types, c.type \in types
  PROVE  \A f \in DescribeConstant(c, id, function) : Proper(f, types)
<1>1. \A g, n : g # "signature" /\ n \notin TypeNames =>
        /\ \A a : Proper(Fact(g, n, <<a>>), types)
        /\ \A a, b : Proper(Fact(g, n, <<a, b>>), types)
  BY ProperFacts
<1>2. \A a, b : b \in types => Proper(Fact("constant", "type", <<a, b>>), types)
  BY ProperFacts
<1>3. QED
  BY <1>1, <1>2, KindFactsProper DEF DescribeConstant, Optional, TypeNames

LEMMA RelateOperandsProper ==
  ASSUME NEW c, NEW id, NEW refs, NEW types
  PROVE  \A f \in RelateOperands(c, id, refs) : Proper(f, types)
<1>1. \A g, n : g # "signature" /\ n \notin TypeNames =>
        /\ \A a : Proper(Fact(g, n, <<a>>), types)
        /\ \A a, b : Proper(Fact(g, n, <<a, b>>), types)
        /\ \A a, b, d : Proper(Fact(g, n, <<a, b, d>>), types)
  BY ProperFacts
<1>2. \A f \in WriteConstantExpr(c, id, refs) : Proper(f, types)
  <2>1. ASSUME c.sort \in DOMAIN CastExpr PROVE Proper(<<CastExpr[c.sort], id, refs[1]>>, types)
    BY <2>1 DEF CastExpr, Proper, TypeNames
  <2>2. ASSUME c.sort \in DOMAIN CastExpr PROVE CastExpr[c.sort][1] # "signature"
    BY <2>2 DEF CastExpr
  <2>3. CASE c.sort \in DOMAIN CastExpr
    <3>1. WriteConstantExpr(c, id, refs) =
            {Fact("constant_expr", "id", <<id>>)}
            \cup {Fact(CastExpr[c.sort][1], "id", <<id>>), <<CastExpr[c.sort], id, refs[1]>>}
      BY <2>3 DEF WriteConstantExpr
    <3>2. Proper(Fact(CastExpr[c.sort][1], "id", <<id>>), types)
      BY <1>1, <2>2, <2>3 DEF TypeNames
    <3>3. Proper(Fact("constant_expr", "id", <<id>>), types)
      BY <1>1 DEF TypeNames
    <3>4. QED
      BY <3>1, <3>2, <3>3, <2>1, <2>3
  <2>4. CASE c.sort \notin DOMAIN CastExpr
    <3> DEFINE P == {Fact("gep_constant_expr", "base", <<id, refs[1]>>),
                     Fact("gep_constant_expr", "nindices", <<id, Len(refs) - 1>>),
                     Fact("gep_constant_expr", "id", <<id>>)}
               Q == {Fact("gep_constant_expr", "index", <<id, i - 2, refs[i]>>) : i \in 2 .. Len(refs)}
               R == {Fact("constant_expr", "id", <<id>>)}
    <3>1. \A f \in P : Proper(f, types)
      BY <1>1 DEF TypeNames
    <3>2. \A f \in Q : Proper(f, types)
      BY <1>1 DEF TypeNames
    <3>3. \A f \in R : Proper(f, types)
      BY <1>1 DEF TypeNames
    <3>4. WriteConstantExpr(c, id, refs) \in {R, R \cup {}, R \cup (P \cup Q)}
      BY <2>4 DEF WriteConstantExpr
    <3> HIDE DEF P, Q, R
    <3>5. QED
      BY <3>1, <3>2, <3>3, <3>4
  <2>5. QED
    BY <2>3, <2>4
<1>3. ASSUME c.sort \in DOMAIN Aggregates
      PROVE  \A f \in WriteConstantWithOperands(c, id, refs) : Proper(f, types)
  <2>1. Aggregates[c.sort] # "signature"
    BY <1>3 DEF Aggregates
  <2>2. QED
    BY <1>1, <2>1 DEF WriteConstantWithOperands, TypeNames
<1>4. QED
  BY <1>2, <1>3 DEF RelateOperands

(* A constant is described with its types, and nothing but the numbering   *)
(* of constants moves on.                                                  *)
LEMMA WritingConstant ==
  ASSUME NEW g, Ready(g), NEW c
  PROVE  Describes(g, WriteConstant(g, c).gen)
<1> DEFINE reached == Reached[c]
           calls == DOMAIN reached
           id(n) == ConstantRefmode(Mod, [g.cm EXCEPT !.constantIndex = @ + n - 1], reached[n])
           refs(n) == [i \in DOMAIN WrittenOperands(reached[n]) |->
                         id(n + OperandPlace(reached[n], i))]
           issued == {<<id(n), <<"const", g.constants + n>> >> : n \in calls}
           texts == {<< <<reached[n].text>>, <<"text", reached[n].text>> >> : n \in calls}
           types == {reached[n].type : n \in calls}
           facts == UNION {DescribeConstant(reached[n], id(n), FunctionContext(g.cm))
                           \cup RelateOperands(reached[n], id(n), refs(n)) : n \in calls}
           s == SaveAll(g, issued \cup texts)
           h == [s EXCEPT !.cm.constantIndex = @ + Len(reached),
                          !.constants = @ + Len(reached),
                          !.issued = @ \cup issued,
                          !.types = @ \cup types,
                          !.facts = @ \cup facts]
<1>1. \A f \in facts : Proper(f, types)
  <2>1. \A n \in calls : \A f \in DescribeConstant(reached[n], id(n), FunctionContext(g.cm)) :
          Proper(f, types)
    <3>1. \A n \in calls : reached[n].type \in types
      OBVIOUS
    <3> HIDE DEF types, id, reached
    <3>2. QED
      BY <3>1, DescribeConstantProper
  <2>2. \A n \in calls : \A f \in RelateOperands(reached[n], id(n), refs(n)) : Proper(f, types)
    <3> HIDE DEF types, id, reached, refs
    <3>1. QED
      BY RelateOperandsProper
  <2> HIDE DEF types, id, reached, refs
  <2>3. QED
    BY <2>1, <2>2
<1>2. Describes(g, s)
  BY Saving
<1>3. WriteConstant(g, c).gen = h
  BY DEF WriteConstant
<1> HIDE DEF facts, types, issued, reached
<1>4. Describes(s, h)
  <2>1. IsGenerator(s) /\ IsManager(s.cm)
    BY <1>2 DEF Describes
  <2> HIDE DEF s
  <2>2. /\ h.facts = s.facts \cup facts /\ h.types = s.types \cup types
        /\ h.cm = [s.cm EXCEPT !.constantIndex = @ + Len(reached)]
        /\ IsGenerator(h)
    <3> DEFINE k == Len(reached)
    <3> HIDE DEF k
    <3>1. QED
      BY <2>1 DEF IsGenerator, GeneratorFields
  <2>3. /\ IsManager(h.cm)
        /\ h.cm.contexts = s.cm.contexts
        /\ h.cm.iFunctionCtx = s.cm.iFunctionCtx
        /\ h.cm.instrIndex = s.cm.instrIndex
    BY <2>1, <2>2 DEF IsManager, ManagerFields
  <2> HIDE DEF h
  <2>4. \A f \in facts : Proper(f, h.types)
    BY <1>1, <2>2 DEF Proper
  <2>5. QED
    BY <2>2, <2>3, <2>4 DEF Describes
<1> HIDE DEF s, h
<1>5. QED
  BY <1>2, <1>3, <1>4, DescribesTransitive

-----------------------------------------------------------------------------
(* Carrying out a request.                                                 *)

LEMMA WritingAsm ==
  ASSUME NEW g, Ready(g), NEW v
  PROVE  Describes(g, WriteAsm(g, v).gen)
<1> DEFINE id == InlineAsmRefmode(g.cm)
           typed == RecordType(g, v.type)
           known == Issue(typed, id, <<"asm", Last(g.cm.contexts)>>)
           facts == {Fact("constant", "id", <<id>>), Fact("constant", "type", <<id, v.type>>),
                     Fact("constant", "value", <<id, "<asm>(" \o v.text \o ")">>),
                     Fact("inline_asm", "id", <<id>>),
                     Fact("inline_asm", "constraints", <<id, v.constraints>>),
                     Fact("inline_asm", "text", <<id, v.text>>)}
<1>1. Describes(g, typed) /\ v.type \in typed.types
  BY RecordingType
<1>2. Describes(typed, known) /\ known.types = typed.types
  BY <1>1, DescribesReady, Issuing DEF Issue, Describes, IsGenerator, GeneratorFields
<1>3. \A f \in facts : Proper(f, known.types)
  <2>1. \A g2, n : g2 # "signature" /\ n \notin TypeNames =>
          /\ \A a : Proper(Fact(g2, n, <<a>>), known.types)
          /\ \A a, b : Proper(Fact(g2, n, <<a, b>>), known.types)
    BY ProperFacts
  <2>2. Proper(Fact("constant", "type", <<id, v.type>>), known.types)
    BY <1>1, <1>2, ProperFacts
  <2> HIDE DEF known, id
  <2>3. QED
    BY <2>1, <2>2 DEF TypeNames
<1>4. WriteAsm(g, v).gen = WriteFacts(known, facts)
  BY DEF WriteAsm
<1> HIDE DEF known, facts, typed
<1>5. Describes(known, WriteFacts(known, facts))
  BY <1>2, <1>3, DescribesReady, WritingFacts
<1>6. QED
  BY <1>1, <1>2, <1>4, <1>5, DescribesTransitive

LEMMA NamingVariable ==
  ASSUME NEW g, Ready(g), NEW v, NEW ref
  PROVE  Describes(g, VariableAs(g, v, ref).gen)
<1> DEFINE known == Issue(g, ref, ValueEntity(at.function, v))
           named == RecordVariable(known, ref, TypeOfValue(v), VariableName(v))
<1>1. Describes(g, known)
  BY Issuing
<1>2. Ready(known)
  BY <1>1, DescribesReady
<1> HIDE DEF known
<1>3. Describes(known, named)
  BY <1>2, RecordingVariable
<1>4. VariableAs(g, v, ref).gen = named
  BY DEF VariableAs, known
<1> HIDE DEF named
<1>5. QED
  BY <1>1, <1>3, <1>4, DescribesTransitive

LEMMA RecordingValue ==
  ASSUME NEW g, Ready(g), NEW v
  PROVE  Describes(g, RecordValue(g, v).gen)
  BY WritingConstant, WritingAsm, NamingVariable DEF RecordValue, Variable

LEMMA WritingOperand ==
  ASSUME NEW operand, Ready(operand.gen), NEW iref, NEW r, Harmless(r), r.what # "type"
  PROVE  Describes(operand.gen, WriteOperand(operand, <<r.pred, iref>>, r))
<1> DEFINE tail == IF r.what = "operand" THEN <<operand.ref>> ELSE <<r.index, operand.ref>>
           first == <<r.pred, iref>> \o tail
           rest == Optional(r.what = "gepindex" /\ FitsIn16Bits(r.value.value),
                            Fact("constant", "to_integer",
                                 <<operand.ref, ToString(r.value.value)>>))
<1>1. first[1] = r.pred
  <2> DEFINE S == {r.pred, iref, operand.ref, r.index}
             h == <<r.pred, iref>>
  <2>1. h \in Seq(S) /\ Len(h) = 2 /\ h[1] = r.pred
    OBVIOUS
  <2>2. tail \in Seq(S) /\ Len(tail) \in Nat
    <3>1. <<operand.ref>> \in Seq(S) /\ <<r.index, operand.ref>> \in Seq(S)
      OBVIOUS
    <3> HIDE DEF S
    <3>2. QED
      BY <3>1, LenProperties
  <2> HIDE DEF S, h, tail
  <2>3. (h \o tail)[1] = h[1]
    <3>1. 1 \in 1 .. Len(h) + Len(tail) /\ 1 <= Len(h)
      BY <2>1, <2>2
    <3>2. QED
      BY <3>1, <2>1, <2>2, ConcatProperties
  <2>4. QED
    BY <2>1, <2>3 DEF h
<1> HIDE DEF first
<1>2. Proper(first, operand.gen.types)
  BY <1>1 DEF Proper, Harmless
<1>3. \A f \in rest : Proper(f, operand.gen.types)
  BY ProperFacts DEF Optional, TypeNames
<1>4. WriteOperand(operand, <<r.pred, iref>>, r) = WriteFacts(operand.gen, {first} \cup rest)
  BY DEF WriteOperand, first
<1> HIDE DEF rest
<1>5. QED
  BY <1>2, <1>3, <1>4, WritingFacts

LEMMA WritingSource ==
  ASSUME NEW g, Ready(g), NEW ref, NEW pos, NEW r, Harmless(r), r.what # "type"
  PROVE  Describes(g, WriteSource(g, ref, pos, r))
<1> DEFINE first == <<r.pred, ref, r.value>>
           rest == {Fact("variable", "pos", <<ref, pos[i][1], pos[i][2]>>) : i \in DOMAIN pos}
<1>1. Proper(first, g.types)
  BY DEF Proper, Harmless
<1>2. \A f \in rest : Proper(f, g.types)
  <2>1. "variable" # "signature" /\ "pos" \notin TypeNames
    BY DEF TypeNames
  <2>2. \A a, b, c : Proper(Fact("variable", "pos", <<a, b, c>>), g.types)
    BY <2>1, ProperFacts
  <2>3. QED
    BY <2>2
<1>3. WriteSource(g, ref, pos, r) = WriteFacts(g, {first} \cup rest)
  BY DEF WriteSource
<1> HIDE DEF first, rest
<1>4. QED
  BY <1>1, <1>2, <1>3, WritingFacts

LEMMA Executing ==
  ASSUME NEW g, Ready(g), NEW iref, NEW pos, NEW r, Harmless(r)
  PROVE  Describes(g, Execute(g, iref, pos, r))
<1>1. CASE r.what \in {"entity", "flag"}
  <2>1. Proper(<<r.pred, iref>>, g.types)
    BY <1>1 DEF Proper, Harmless
  <2>2. QED
    BY <1>1, <2>1, WritingFacts DEF Execute
<1>2. CASE r.what = "attribute"
  <2>1. Proper(<<r.pred, iref, r.value>>, g.types)
    BY <1>2 DEF Proper, Harmless
  <2>2. QED
    BY <1>2, <2>1, WritingFacts DEF Execute
<1>3. CASE r.what = "ordinal"
  <2>1. Proper(<<r.pred, iref, r.index, r.value>>, g.types)
    BY <1>3 DEF Proper, Harmless
  <2>2. QED
    BY <1>3, <2>1, WritingFacts DEF Execute
<1>4. CASE r.what = "type"
  <2> DEFINE typed == RecordType(g, r.value)
  <2>1. Describes(g, typed) /\ r.value \in typed.types
    BY RecordingType
  <2>2. Execute(g, iref, pos, r) = WriteFacts(typed, {<<r.pred, iref, r.value>>})
    BY <1>4 DEF Execute
  <2> HIDE DEF typed
  <2>3. Proper(<<r.pred, iref, r.value>>, typed.types)
    BY <2>1 DEF Proper, Harmless
  <2>4. Describes(typed, WriteFacts(typed, {<<r.pred, iref, r.value>>}))
    BY <2>1, <2>3, DescribesReady, WritingFacts
  <2>5. QED
    BY <2>1, <2>2, <2>4, DescribesTransitive
<1>5. CASE r.what \in {"operand", "indexed", "gepindex"}
  <2> DEFINE operand == RecordValue(g, r.value)
             written == WriteOperand(operand, <<r.pred, iref>>, r)
  <2>1. Describes(g, operand.gen)
    BY RecordingValue
  <2>2. Ready(operand.gen)
    BY <2>1, DescribesReady
  <2> HIDE DEF operand
  <2>3. Describes(operand.gen, written)
    BY <1>5, <2>2, WritingOperand
  <2>4. Execute(g, iref, pos, r) = written
    BY <1>5 DEF Execute, operand
  <2> HIDE DEF written
  <2>5. QED
    BY <2>1, <2>3, <2>4, DescribesTransitive
<1>6. CASE r.what = "source"
  <2>1. Execute(g, iref, pos, r) = WriteSource(g, ValueRefmode(Mod, g.cm, r.index), pos, r)
    BY <1>6 DEF Execute
  <2>2. QED
    BY <1>6, <2>1, WritingSource
<1>7. QED
  BY <1>1, <1>2, <1>3, <1>4, <1>5, <1>6 DEF Harmless, RequestKinds

-----------------------------------------------------------------------------
(* Globals, aliases, functions.                                            *)

LEMMA DescribingGlobal ==
  ASSUME NEW g, Ready(g), NEW gv, NEW id
  PROVE  Describes(g, DescribeGlobalVar(g, gv, id))
<1> DEFINE valueType == IF LlvmMajor > 14 THEN gv.type ELSE gv.valueType
           tls == ThreadLocalModeToString[gv.tls]
           known == Issue(g, id, GlobalEntity(gv.name))
           saved == Save(known, id, GlobalEntity(gv.name))
           pointer == RecordType(saved, gv.type)
           typed == RecordType(pointer, valueType)
           F1 == {Fact("global_var", "id", <<id>>), Fact("global_var", "name", <<id, "@" \o gv.name>>),
                  Fact("global_var", "demangled_name", <<id, gv.demangled>>),
                  Fact("global_var", "linkage", <<id, LinkageToString[gv.linkage]>>),
                  Fact("global_var", "visibility", <<id, VisibilityToString[gv.visibility]>>),
                  Fact("global_var", "flag", <<id, IF gv.constant THEN "constant" ELSE "global">>),
                  Fact("global_var", "type", <<id, valueType>>)}
           F2 == Optional(gv.init = <<>> /\ gv.linkage = "ExternalLinkage",
                          Fact("global_var", "linkage", <<id, "external">>))
           F3 == Optional(tls # "", Fact("global_var", "threadlocal_mode", <<id, tls>>))
           F4 == Optional(gv.externallyInitialized,
                          Fact("global_var", "flag", <<id, "externally_initialized">>))
           F5 == FromOption(gv.section, id, "global_var", "section")
           F6 == Optional(gv.align # 0, Fact("global_var", "aligned_to", <<id, gv.align>>))
<1>1. Describes(g, known)
  BY Issuing
<1> HIDE DEF known
<1>2. Describes(known, saved)
  BY <1>1, DescribesReady, Saving DEF Save
<1> HIDE DEF saved
<1>3. Describes(saved, pointer)
  BY <1>2, DescribesReady, RecordingType
<1> HIDE DEF pointer, valueType
<1>4. Describes(pointer, typed) /\ valueType \in typed.types
  BY <1>3, DescribesReady, RecordingType
<1>5. DescribeGlobalVar(g, gv, id)
        = WriteFacts(typed, F1 \cup F2 \cup F3 \cup F4 \cup F5 \cup F6)
  BY DEF DescribeGlobalVar, typed, pointer, saved, known, valueType
<1> HIDE DEF typed, tls
<1>6. \A n : n \notin TypeNames =>
        /\ \A a : Proper(Fact("global_var", n, <<a>>), typed.types)
        /\ \A a, b : Proper(Fact("global_var", n, <<a, b>>), typed.types)
  BY ProperFacts
<1>7. Proper(Fact("global_var", "type", <<id, valueType>>), typed.types)
  BY <1>4, ProperFacts
<1>8. \A f \in F1 : Proper(f, typed.types)
  BY <1>6, <1>7 DEF TypeNames
<1>9. \A f \in F2 \cup F3 \cup F4 \cup F6 : Proper(f, typed.types)
  BY <1>6 DEF TypeNames, Optional
<1>10. \A f \in F5 : Proper(f, typed.types)
  BY ProperOption DEF TypeNames
<1> HIDE DEF F1, F2, F3, F4, F5, F6
<1>11. Describes(typed, WriteFacts(typed, F1 \cup F2 \cup F3 \cup F4 \cup F5 \cup F6))
  BY <1>4, <1>8, <1>9, <1>10, DescribesReady, WritingFacts
<1>12. QED
  BY <1>1, <1>2, <1>3, <1>4, <1>5, <1>11, DescribesTransitive

LEMMA WritingGlobal ==
  ASSUME NEW g, Ready(g), NEW gv
  PROVE  Describes(g, WriteGlobalVar(g, gv))
<1> DEFINE id == GlobalValueRefmode(g.cm, gv.name)
           described == DescribeGlobalVar(g, gv, id)
           init == WriteConstant(described, gv.init[1])
           written == WriteInitializer(init, id)
<1>1. Describes(g, described) /\ Ready(described)
  BY DescribingGlobal, DescribesReady
<1>2. WriteGlobalVar(g, gv) = IF gv.init = <<>> THEN described ELSE written
  BY DEF WriteGlobalVar
<1> HIDE DEF described
<1>3. Describes(described, init.gen) /\ Ready(init.gen)
  BY <1>1, WritingConstant, DescribesReady
<1> HIDE DEF init
<1>4. Proper(Fact("global_var", "initializer", <<id, init.ref>>), init.gen.types)
  BY ProperFacts DEF TypeNames
<1>5. Describes(init.gen, written)
  BY <1>3, <1>4, WritingFacts DEF WriteInitializer
<1> HIDE DEF written
<1>6. QED
  BY <1>1, <1>2, <1>3, <1>5, DescribesTransitive

LEMMA WritingAlias ==
  ASSUME NEW g, Ready(g), NEW ga
  PROVE  Describes(g, WriteGlobalAlias(g, ga))
<1> DEFINE id == GlobalValueRefmode(g.cm, ga.name)
           known == Issue(g, id, GlobalEntity(ga.name))
           typed == RecordType(known, ga.type)
           aliasee == WriteConstant(typed, ga.aliasee)
           facts == {Fact("alias", "id", <<id>>), Fact("alias", "name", <<id, "@" \o ga.name>>),
                     Fact("alias", "visibility", <<id, VisibilityToString[ga.visibility]>>),
                     Fact("alias", "linkage", <<id, LinkageToString[ga.linkage]>>),
                     Fact("alias", "type", <<id, ga.type>>),
                     Fact("alias", "aliasee", <<id, aliasee.ref>>)}
<1>1. Describes(g, known)
  BY Issuing
<1> HIDE DEF known
<1>2. Describes(known, typed) /\ ga.type \in typed.types
  BY <1>1, DescribesReady, RecordingType
<1> HIDE DEF typed
<1>3. Describes(typed, aliasee.gen)
  BY <1>2, DescribesReady, WritingConstant
<1>4. WriteGlobalAlias(g, ga) = WriteFacts(aliasee.gen, facts)
  BY DEF WriteGlobalAlias, DescribeAlias, typed, known
<1> HIDE DEF aliasee, id
<1>5. \A f \in facts : Proper(f, aliasee.gen.types)
  <2>1. \A n : n \notin TypeNames =>
          /\ \A a : Proper(Fact("alias", n, <<a>>), aliasee.gen.types)
          /\ \A a, b : Proper(Fact("alias", n, <<a, b>>), aliasee.gen.types)
    BY ProperFacts
  <2>2. ga.type \in aliasee.gen.types
    BY <1>2, <1>3 DEF Describes
  <2>3. Proper(Fact("alias", "type", <<id, ga.type>>), aliasee.gen.types)
    BY <2>2, ProperFacts
  <2>4. QED
    BY <2>1, <2>3 DEF TypeNames
<1> HIDE DEF facts
<1>6. Describes(aliasee.gen, WriteFacts(aliasee.gen, facts))
  BY <1>3, <1>5, DescribesReady, WritingFacts
<1>7. QED
  BY <1>1, <1>2, <1>3, <1>4, <1>6, DescribesTransitive

LEMMA DescribingFunction ==
  ASSUME NEW pers, Ready(pers.gen), NEW funcref
  PROVE  Describes(pers.gen, DescribeFunction(pers, funcref))
<1> DEFINE typed == RecordType(pers.gen, Fun.type)
           F1 == {Fact("func", "ty", <<funcref, Fun.type>>),
                  Fact("func", "signature", <<funcref, Fun.demangled>>),
                  Fact("func", "linkage", <<funcref, LinkageToString[Fun.linkage]>>),
                  Fact("func", "visibility", <<funcref, VisibilityToString[Fun.visibility]>>),
                  Fact("func", "name", <<funcref, "@" \o Fun.name>>),
                  Fact("func", IF Fun.decl THEN "id_decl" ELSE "id_defn", <<funcref>>)}
           F2 == Optional(Fun.align # 0, Fact("func", "alignment", <<funcref, Fun.align>>))
           F3 == FromOption(Fun.gc, funcref, "func", "gc")
           F4 == Optional(Fun.pers # <<>>, Fact("func", "pers_fn", <<funcref, pers.ref>>))
           F5 == Optional(Fun.cc # "C",
                          Fact("func", "calling_conv", <<funcref, CallingConvString(Fun.cc)>>))
           F6 == Optional(Fun.unnamedAddr, Fact("func", "unnamed_addr", <<funcref>>))
           F7 == IF Fun.decl THEN {} ELSE FromOption(Fun.section, funcref, "func", "section")
<1>1. Describes(pers.gen, typed) /\ Fun.type \in typed.types
  BY RecordingType
<1>2. DescribeFunction(pers, funcref)
        = WriteFacts(typed, F1 \cup F2 \cup F3 \cup F4 \cup F5 \cup F6 \cup F7)
  BY DEF DescribeFunction
<1> HIDE DEF typed
<1>3. \A n : n \notin TypeNames =>
        /\ \A a : Proper(Fact("func", n, <<a>>), typed.types)
        /\ \A a, b : Proper(Fact("func", n, <<a, b>>), typed.types)
  BY ProperFacts
<1>4. Proper(Fact("func", "ty", <<funcref, Fun.type>>), typed.types)
  BY <1>1, ProperFacts
<1>5. \A f \in F1 : Proper(f, typed.types)
  BY <1>3, <1>4 DEF TypeNames
<1>6. \A f \in F2 \cup F4 \cup F5 \cup F6 : Proper(f, typed.types)
  BY <1>3 DEF TypeNames, Optional
<1>7. \A f \in F3 \cup F7 : Proper(f, typed.types)
  BY ProperOption DEF TypeNames
<1> HIDE DEF F1, F2, F3, F4, F5, F6, F7
<1>8. Describes(typed, WriteFacts(typed, F1 \cup F2 \cup F3 \cup F4 \cup F5 \cup F6 \cup F7))
  BY <1>1, <1>5, <1>6, <1>7, DescribesReady, WritingFacts
<1>9. QED
  BY <1>1, <1>2, <1>8, DescribesTransitive

LEMMA WritingFunction ==
  ASSUME NEW g, Ready(g), NEW funcref
  PROVE  Describes(g, WriteFunction(g, funcref))
<1>1. CASE Fun.pers = <<>>
  BY <1>1, DescribingFunction DEF WriteFunction
<1>2. CASE Fun.pers # <<>>
  <2> DEFINE pers == WriteConstant(g, Fun.pers[1])
             written == DescribeFunction(pers, funcref)
  <2>1. Describes(g, pers.gen) /\ Ready(pers.gen)
    BY WritingConstant, DescribesReady
  <2>2. WriteFunction(g, funcref) = written
    BY <1>2 DEF WriteFunction
  <2> HIDE DEF pers
  <2>3. Describes(pers.gen, written)
    BY <2>1, DescribingFunction
  <2> HIDE DEF written
  <2>4. QED
    BY <2>1, <2>2, <2>3, DescribesTransitive
<1>3. QED
  BY <1>1, <1>2

-----------------------------------------------------------------------------
(* The inductive invariant: where the walk stands, which contexts are on   *)
(* the stack there, and that the types of all facts are recorded.          *)

Stages ==
  {"module", "globals", "aliases", "function", "params", "signatures", "block", "instr",
   "visit", "done", "ParseException", "invalid_argument"}
InModule == {"globals", "aliases", "function", "params", "signatures", "block", "instr", "visit"}
InFunction == {"params", "signatures", "block", "instr", "visit"}
InBlock_ == {"instr", "visit"}

Counter == Nat \ {0}
Counters ==
  [item : Counter, function : Counter, param : Counter, block : Counter, instr : Counter,
   request : Counter]

Place ==
  /\ pc \in Stages
  /\ program \in DOMAIN Programs
  /\ module \in Counter
  /\ at \in Counters
  /\ pc \in InModule => module <= Len(Prog.modules)
  /\ pc \in InFunction => at.function <= Len(Mod.functions)
  /\ pc \in InBlock_ => at.block <= Len(Fun.blocks)
  /\ pc = "visit" => at.instr <= Len(Blk.instrs)

ModuleContext == Context("module", <<>>, Mod.path)
OfFunction == Context("function", <<at.function>>, Fun.name)
OfBlock == Context("block", <<at.function, at.block>>, Blk.name)
OfInstruction(prefix) == Context("instr", <<at.function, at.block, at.instr>>, prefix)

Stack ==
  /\ pc \in {"module", "done", "ParseException"} => gen.cm = <<>>
  /\ pc \in InModule => IsManager(gen.cm)
  /\ pc \in InModule \ InFunction => /\ gen.cm.contexts = <<ModuleContext>>
                                     /\ gen.cm.iFunctionCtx = NoFunction
  /\ pc \in InFunction => gen.cm.iFunctionCtx = 2
  /\ pc \in InFunction \ InBlock_ => gen.cm.contexts = <<ModuleContext, OfFunction>>
  /\ pc = "instr" => gen.cm.contexts = <<ModuleContext, OfFunction, OfBlock>>
  /\ pc = "visit" => \E p : gen.cm.contexts
                              = <<ModuleContext, OfFunction, OfBlock, OfInstruction(p)>>

HasTypes(g) == \A f \in g.facts : f[1][2] \in TypeNames => f[3] \in g.types \cup {"label"}

Inv == Place /\ IsGenerator(gen) /\ Stack /\ HasTypes(gen)

(* No signature is added. *)
Grows(g, h) ==
  /\ g.facts \subseteq h.facts
  /\ \A f \in h.facts \ g.facts : f[1][1] # "signature"

LEMMA TypesKept ==
  ASSUME NEW g, NEW h, Describes(g, h), HasTypes(g)
  PROVE  HasTypes(h)
  BY DEF Describes, HasTypes, Proper

LEMMA DescribingGrows ==
  ASSUME NEW g, NEW h, Describes(g, h)
  PROVE  Grows(g, h)
  BY DEF Describes, Grows, Proper

(* Leaving a scope. *)
LEMMA Popping ==
  ASSUME NEW cm, IsManager(cm)
  PROVE  /\ IsManager(PopContext(cm))
         /\ PopContext(cm).contexts = Front(cm.contexts)
         /\ PopContext(cm).iFunctionCtx =
              IF Last(cm.contexts).isFunction THEN NoFunction ELSE cm.iFunctionCtx
  BY DEF PopContext, IsManager, ManagerFields

(* A sequence is the tuple of its elements. *)
LEMMA TupleOfOne ==
  ASSUME NEW S, NEW s \in Seq(S), Len(s) = 1, NEW a,
         s[1] = a
  PROVE  s = <<a>>
<1> DEFINE t == <<a>>
           T == S \cup {a}
<1>1. t \in Seq(T) /\ Len(t) = 1 /\ \A i \in 1 .. 1 : t[i] = s[i]
  OBVIOUS
<1>2. s \in Seq(T)
  BY SeqMonotonic
<1> HIDE DEF t, T
<1>3. s = t
  BY <1>1, <1>2, SeqEqual
<1>4. QED
  BY <1>3 DEF t

LEMMA TupleOfTwo ==
  ASSUME NEW S, NEW s \in Seq(S), Len(s) = 2, NEW a, NEW b,
         s[1] = a, s[2] = b
  PROVE  s = <<a, b>>
<1> DEFINE t == <<a, b>>
           T == S \cup {a, b}
<1>1. t \in Seq(T) /\ Len(t) = 2 /\ \A i \in 1 .. 2 : t[i] = s[i]
  OBVIOUS
<1>2. s \in Seq(T)
  BY SeqMonotonic
<1> HIDE DEF t, T
<1>3. s = t
  BY <1>1, <1>2, SeqEqual
<1>4. QED
  BY <1>3 DEF t

LEMMA TupleOfThree ==
  ASSUME NEW S, NEW s \in Seq(S), Len(s) = 3, NEW a, NEW b, NEW c,
         s[1] = a, s[2] = b, s[3] = c
  PROVE  s = <<a, b, c>>
<1> DEFINE t == <<a, b, c>>
           T == S \cup {a, b, c}
<1>1. t \in Seq(T) /\ Len(t) = 3 /\ \A i \in 1 .. 3 : t[i] = s[i]
  OBVIOUS
<1>2. s \in Seq(T)
  BY SeqMonotonic
<1> HIDE DEF t, T
<1>3. s = t
  BY <1>1, <1>2, SeqEqual
<1>4. QED
  BY <1>3 DEF t

LEMMA TupleOfFour ==
  ASSUME NEW S, NEW s \in Seq(S), Len(s) = 4, NEW a, NEW b, NEW c, NEW d,
         s[1] = a, s[2] = b, s[3] = c, s[4] = d
  PROVE  s = <<a, b, c, d>>
<1> DEFINE t == <<a, b, c, d>>
           T == S \cup {a, b, c, d}
<1>1. t \in Seq(T) /\ Len(t) = 4 /\ \A i \in 1 .. 4 : t[i] = s[i]
  OBVIOUS
<1>2. s \in Seq(T)
  BY SeqMonotonic
<1> HIDE DEF t, T
<1>3. s = t
  BY <1>1, <1>2, SeqEqual
<1>4. QED
  BY <1>3 DEF t

LEMMA StackOfTwo ==
  \A a, b : /\ Append(<<a>>, b) = <<a, b>> /\ Len(<<a>>) = 1
           /\ Front(<<a, b>>) = <<a>> /\ Last(<<a, b>>) = b
<1> TAKE a, b
<1> DEFINE S == {a, b}
<1>1. Append(<<a>>, b) = <<a, b>>
  <2> DEFINE t == <<a>>
  <2>1. t \in Seq(S) /\ Len(t) = 1 /\ b \in S /\ t[1] = a
    OBVIOUS
  <2> HIDE DEF t, S
  <2> DEFINE u == Append(t, b)
  <2>2. /\ u \in Seq(S) /\ Len(u) = Len(t) + 1 /\ u[Len(t) + 1] = b
        /\ \A i \in 1 .. Len(t) : u[i] = t[i]
    <3>1. \A s \in Seq(S) : \A e \in S :
            /\ Append(s, e) \in Seq(S) /\ Len(Append(s, e)) = Len(s) + 1
            /\ Append(s, e)[Len(s) + 1] = e
            /\ \A i \in 1 .. Len(s) : Append(s, e)[i] = s[i]
      BY AppendProperties
    <3>2. QED
      BY <2>1, <3>1
  <2> HIDE DEF u
  <2>3. Len(u) = 2 /\ u[1] = a /\ u[2] = b
    BY <2>1, <2>2
  <2>4. u = <<a, b>>
    <3>1. \A s \in Seq(S) : Len(s) = 2 /\ s[1] = a /\ s[2] = b => s = <<a, b>>
      BY TupleOfTwo
    <3>2. QED
      BY <2>2, <2>3, <3>1
  <2>5. QED
    BY <2>4 DEF t, u
<1>2. Front(<<a, b>>) = <<a>>
  <2> DEFINE t == <<a, b>>
  <2>1. t \in Seq(S) /\ Len(t) = 2 /\ t[1] = a /\ t[2] = b
    OBVIOUS
  <2> HIDE DEF t, S
  <2>2. \A i \in 1 .. 1 : t[i] \in S
    <3>1. \A i \in 1 .. Len(t) : t[i] \in S
      BY <2>1, ElementOfSeq
    <3>2. QED
      BY <2>1, <3>1
  <2>3. /\ SubSeq(t, 1, 1) \in Seq(S) /\ Len(SubSeq(t, 1, 1)) = 1
        /\ \A i \in 1 .. 1 : SubSeq(t, 1, 1)[i] = t[i]
    BY <2>2, SubSeqProperties
  <2>4. SubSeq(t, 1, 1) = <<a>>
    <3> DEFINE u == SubSeq(t, 1, 1)
    <3>1. u \in Seq(S) /\ Len(u) = 1 /\ \A i \in 1 .. 1 : u[i] = t[i]
      BY <2>3
    <3> HIDE DEF u
    <3>2. u[1] = a
      BY <2>1, <3>1
    <3>3. u = <<a>>
      BY <3>1, <3>2, TupleOfOne
    <3>4. QED
      BY <3>3 DEF u
  <2>5. Front(t) = SubSeq(t, 1, 1)
    BY <2>1 DEF Front
  <2>6. QED
    BY <2>4, <2>5 DEF t
<1>3. Last(<<a, b>>) = b /\ Len(<<a>>) = 1
  BY DEF Last
<1>4. QED
  BY <1>1, <1>2, <1>3

LEMMA StackOfThree ==
  \A a, b, c : /\ Append(<<a, b>>, c) = <<a, b, c>>
           /\ Front(<<a, b, c>>) = <<a, b>> /\ Last(<<a, b, c>>) = c
<1> TAKE a, b, c
<1> DEFINE S == {a, b, c}
<1>1. Append(<<a, b>>, c) = <<a, b, c>>
  <2> DEFINE t == <<a, b>>
  <2>1. t \in Seq(S) /\ Len(t) = 2 /\ c \in S /\ t[1] = a /\ t[2] = b
    OBVIOUS
  <2> HIDE DEF t, S
  <2> DEFINE u == Append(t, c)
  <2>2. /\ u \in Seq(S) /\ Len(u) = Len(t) + 1 /\ u[Len(t) + 1] = c
        /\ \A i \in 1 .. Len(t) : u[i] = t[i]
    <3>1. \A s \in Seq(S) : \A e \in S :
            /\ Append(s, e) \in Seq(S) /\ Len(Append(s, e)) = Len(s) + 1
            /\ Append(s, e)[Len(s) + 1] = e
            /\ \A i \in 1 .. Len(s) : Append(s, e)[i] = s[i]
      BY AppendProperties
    <3>2. QED
      BY <2>1, <3>1
  <2> HIDE DEF u
  <2>3. Len(u) = 3 /\ u[1] = a /\ u[2] = b /\ u[3] = c
    BY <2>1, <2>2
  <2>4. u = <<a, b, c>>
    <3>1. \A s \in Seq(S) : Len(s) = 3 /\ s[1] = a /\ s[2] = b /\ s[3] = c => s = <<a, b, c>>
      BY TupleOfThree
    <3>2. QED
      BY <2>2, <2>3, <3>1
  <2>5. QED
    BY <2>4 DEF t, u
<1>2. Front(<<a, b, c>>) = <<a, b>>
  <2> DEFINE t == <<a, b, c>>
  <2>1. t \in Seq(S) /\ Len(t) = 3 /\ t[1] = a /\ t[2] = b /\ t[3] = c
    OBVIOUS
  <2> HIDE DEF t, S
  <2>2. \A i \in 1 .. 2 : t[i] \in S
    <3>1. \A i \in 1 .. Len(t) : t[i] \in S
      BY <2>1, ElementOfSeq
    <3>2. QED
      BY <2>1, <3>1
  <2>3. /\ SubSeq(t, 1, 2) \in Seq(S) /\ Len(SubSeq(t, 1, 2)) = 2
        /\ \A i \in 1 .. 2 : SubSeq(t, 1, 2)[i] = t[i]
    BY <2>2, SubSeqProperties
  <2>4. SubSeq(t, 1, 2) = <<a, b>>
    <3> DEFINE u == SubSeq(t, 1, 2)
    <3>1. u \in Seq(S) /\ Len(u) = 2 /\ \A i \in 1 .. 2 : u[i] = t[i]
      BY <2>3
    <3> HIDE DEF u
    <3>2. u[1] = a /\ u[2] = b
      BY <2>1, <3>1
    <3>3. u = <<a, b>>
      BY <3>1, <3>2, TupleOfTwo
    <3>4. QED
      BY <3>3 DEF u
  <2>5. Front(t) = SubSeq(t, 1, 2)
    BY <2>1 DEF Front
  <2>6. QED
    BY <2>4, <2>5 DEF t
<1>3. Last(<<a, b, c>>) = c
  BY DEF Last
<1>4. QED
  BY <1>1, <1>2, <1>3

LEMMA StackOfFour ==
  \A a, b, c, d : /\ Append(<<a, b, c>>, d) = <<a, b, c, d>>
           /\ Front(<<a, b, c, d>>) = <<a, b, c>> /\ Last(<<a, b, c, d>>) = d
<1> TAKE a, b, c, d
<1> DEFINE S == {a, b, c, d}
<1>1. Append(<<a, b, c>>, d) = <<a, b, c, d>>
  <2> DEFINE t == <<a, b, c>>
  <2>1. t \in Seq(S) /\ Len(t) = 3 /\ d \in S /\ t[1] = a /\ t[2] = b /\ t[3] = c
    OBVIOUS
  <2> HIDE DEF t, S
  <2> DEFINE u == Append(t, d)
  <2>2. /\ u \in Seq(S) /\ Len(u) = Len(t) + 1 /\ u[Len(t) + 1] = d
        /\ \A i \in 1 .. Len(t) : u[i] = t[i]
    <3>1. \A s \in Seq(S) : \A e \in S :
            /\ Append(s, e) \in Seq(S) /\ Len(Append(s, e)) = Len(s) + 1
            /\ Append(s, e)[Len(s) + 1] = e
            /\ \A i \in 1 .. Len(s) : Append(s, e)[i] = s[i]
      BY AppendProperties
    <3>2. QED
      BY <2>1, <3>1
  <2> HIDE DEF u
  <2>3. Len(u) = 4 /\ u[1] = a /\ u[2] = b /\ u[3] = c /\ u[4] = d
    BY <2>1, <2>2
  <2>4. u = <<a, b, c, d>>
    <3>1. \A s \in Seq(S) : Len(s) = 4 /\ s[1] = a /\ s[2] = b /\ s[3] = c /\ s[4] = d => s = <<a, b, c, d>>
      BY TupleOfFour
    <3>2. QED
      BY <2>2, <2>3, <3>1
  <2>5. QED
    BY <2>4 DEF t, u
<1>2. Front(<<a, b, c, d>>) = <<a, b, c>>
  <2> DEFINE t == <<a, b, c, d>>
  <2>1. t \in Seq(S) /\ Len(t) = 4 /\ t[1] = a /\ t[2] = b /\ t[3] = c /\ t[4] = d
    OBVIOUS
  <2> HIDE DEF t, S
  <2>2. \A i \in 1 .. 3 : t[i] \in S
    <3>1. \A i \in 1 .. Len(t) : t[i] \in S
      BY <2>1, ElementOfSeq
    <3>2. QED
      BY <2>1, <3>1
  <2>3. /\ SubSeq(t, 1, 3) \in Seq(S) /\ Len(SubSeq(t, 1, 3)) = 3
        /\ \A i \in 1 .. 3 : SubSeq(t, 1, 3)[i] = t[i]
    BY <2>2, SubSeqProperties
  <2>4. SubSeq(t, 1, 3) = <<a, b, c>>
    <3> DEFINE u == SubSeq(t, 1, 3)
    <3>1. u \in Seq(S) /\ Len(u) = 3 /\ \A i \in 1 .. 3 : u[i] = t[i]
      BY <2>3
    <3> HIDE DEF u
    <3>2. u[1] = a /\ u[2] = b /\ u[3] = c
      BY <2>1, <3>1
    <3>3. u = <<a, b, c>>
      BY <3>1, <3>2, TupleOfThree
    <3>4. QED
      BY <3>3 DEF u
  <2>5. Front(t) = SubSeq(t, 1, 3)
    BY <2>1 DEF Front
  <2>6. QED
    BY <2>4, <2>5 DEF t
<1>3. Last(<<a, b, c, d>>) = d
  BY DEF Last
<1>4. QED
  BY <1>1, <1>2, <1>3

(* And entering one. *)
LEMMA PushingFunction ==
  ASSUME IsManager(gen.cm)
  PROVE  LET new == PushContext(Mod, gen.cm, <<at.function>>)
         IN /\ IsManager(new)
            /\ new.contexts = Append(gen.cm.contexts, OfFunction)
            /\ new.iFunctionCtx = Len(gen.cm.contexts) + 1
<1> DEFINE f == at.function
           cm == gen.cm
           anchor == <<f>>
<1> HIDE DEF f, cm
<1>1. Len(anchor) = 1 /\ anchor[1] = f
  OBVIOUS
<1> HIDE DEF anchor
<1>2. PushContext(Mod, cm, anchor)
        = [cm EXCEPT !.contexts = Append(@, Context("function", anchor, Mod.functions[anchor[1]].name)),
                     !.instrIndex = 0,
                     !.iFunctionCtx = Len(cm.contexts) + 1]
  BY <1>1 DEF PushContext
<1>3. IsManager(cm)
  BY DEF cm
<1>4. LET new == PushContext(Mod, cm, anchor)
      IN /\ IsManager(new)
         /\ new.contexts = Append(cm.contexts, Context("function", anchor,
                                                       Mod.functions[anchor[1]].name))
         /\ new.iFunctionCtx = Len(cm.contexts) + 1
  BY <1>2, <1>3 DEF IsManager, ManagerFields
<1>5. QED
  BY <1>1, <1>4 DEF anchor, f, cm, OfFunction, Fun

LEMMA PushingBlock ==
  ASSUME IsManager(gen.cm)
  PROVE  LET new == PushContext(Mod, gen.cm, <<at.function, at.block>>)
         IN /\ IsManager(new)
            /\ new.contexts = Append(gen.cm.contexts, OfBlock)
            /\ new.iFunctionCtx = gen.cm.iFunctionCtx
<1> DEFINE f == at.function
           b == at.block
           cm == gen.cm
           new == PushContext(Mod, cm, <<f, b>>)
<1> HIDE DEF f, b, cm
<1>1. new = [cm EXCEPT !.contexts = Append(@, Context("block", <<f, b>>,
                                                     Mod.functions[f].blocks[b].name))]
  BY DEF PushContext
<1>2. IsManager(cm)
  BY DEF cm
<1> HIDE DEF new
<1>3. /\ IsManager(new)
      /\ new.contexts = Append(cm.contexts, Context("block", <<f, b>>,
                                                    Mod.functions[f].blocks[b].name))
      /\ new.iFunctionCtx = cm.iFunctionCtx
  BY <1>1, <1>2 DEF IsManager, ManagerFields
<1>4. QED
  BY <1>3 DEF new, f, b, cm, OfBlock, Blk, Fun

LEMMA PushingInstruction ==
  ASSUME IsManager(gen.cm)
  PROVE  LET new == PushContext(Mod, gen.cm, <<at.function, at.block, at.instr>>)
         IN /\ IsManager(new)
            /\ new.contexts = Append(gen.cm.contexts, OfInstruction(ToString(gen.cm.instrIndex)))
            /\ new.iFunctionCtx = gen.cm.iFunctionCtx
<1> DEFINE f == at.function
           b == at.block
           i == at.instr
           cm == gen.cm
           new == PushContext(Mod, cm, <<f, b, i>>)
<1> HIDE DEF f, b, i, cm
<1>1. new = [cm EXCEPT !.contexts = Append(@, Context("instr", <<f, b, i>>,
                                                     ToString(cm.instrIndex))),
                       !.instrIndex = @ + 1,
                       !.constantIndex = 0]
  BY DEF PushContext
<1>2. IsManager(cm)
  BY DEF cm
<1> HIDE DEF new
<1>3. /\ IsManager(new)
      /\ new.contexts = Append(cm.contexts, Context("instr", <<f, b, i>>,
                                                    ToString(cm.instrIndex)))
      /\ new.iFunctionCtx = cm.iFunctionCtx
  BY <1>1, <1>2 DEF IsManager, ManagerFields
<1>4. QED
  BY <1>3 DEF new, f, b, i, cm, OfInstruction

(* What the program is made of where the walk stands. *)
LEMMA PlaceExists ==
  ASSUME Place, pc \in InModule
  PROVE  /\ module \in DOMAIN Prog.modules /\ IsList(Mod.functions)
         /\ pc \in InFunction => /\ at.function \in DOMAIN Mod.functions
                                 /\ FunctionAssumption(Fun)
         /\ pc \in InBlock_ => at.block \in DOMAIN Fun.blocks /\ IsList(Blk.instrs)
         /\ pc = "visit" => at.instr \in DOMAIN Blk.instrs /\ InstructionAssumption(Fun, Ins)
<1>1. module \in DOMAIN Prog.modules /\ IsList(Mod.functions)
  BY ProgramsAssumption, ListIsSeq DEF Place, Prog, Mod, Counter
<1>2. ASSUME pc \in InFunction
      PROVE  at.function \in DOMAIN Mod.functions /\ FunctionAssumption(Fun)
  <2>1. at.function \in DOMAIN Mod.functions
    BY <1>1, <1>2, ListIsSeq DEF Place, Counters, Counter
  <2>2. QED
    BY <1>1, <2>1, ProgramsAssumption DEF Place, Fun, Mod, Prog
<1>3. ASSUME pc \in InBlock_
      PROVE  at.block \in DOMAIN Fun.blocks /\ IsList(Blk.instrs)
  <2>1. pc \in InFunction
    BY <1>3 DEF InBlock_, InFunction
  <2>2. at.block \in DOMAIN Fun.blocks
    BY <1>2, <1>3, <2>1, ListIsSeq DEF Place, Counters, Counter, FunctionAssumption
  <2>3. QED
    BY <1>2, <2>1, <2>2 DEF FunctionAssumption, Blk
<1>4. ASSUME pc = "visit"
      PROVE  at.instr \in DOMAIN Blk.instrs /\ InstructionAssumption(Fun, Ins)
  <2>1. pc \in InBlock_ /\ pc \in InFunction
    BY <1>4 DEF InBlock_, InFunction
  <2>2. at.instr \in DOMAIN Blk.instrs
    BY <1>3, <1>4, <2>1, ListIsSeq DEF Place, Counters, Counter
  <2>3. QED
    BY <1>2, <1>3, <2>1, <2>2 DEF FunctionAssumption, Blk, Ins
<1>5. QED
  BY <1>1, <1>2, <1>3, <1>4

LEMMA Described ==
  ASSUME NEW g, NEW h, Describes(g, h), HasTypes(g)
  PROVE  /\ IsGenerator(h) /\ HasTypes(h) /\ Grows(g, h) /\ IsManager(h.cm)
         /\ h.cm.contexts = g.cm.contexts /\ h.cm.iFunctionCtx = g.cm.iFunctionCtx
  BY TypesKept, DescribingGrows DEF Describes

LEMMA InvReady ==
  ASSUME Inv, pc \in InModule
  PROVE  Ready(gen)
  BY DEF Inv, Stack, Ready

(* The sets of stages are used as they stand. *)
LEMMA StageSets ==
  /\ InModule \subseteq Stages /\ InFunction \subseteq InModule /\ InBlock_ \subseteq InFunction
  /\ "visit" \in InBlock_ /\ "instr" \in InBlock_
  /\ InBlock_ \ {"instr"} = {"visit"}
  BY DEF Stages, InModule, InFunction, InBlock_

-----------------------------------------------------------------------------
(* The steps.                                                              *)

LEMMA InitInv ==
  ASSUME Init
  PROVE  Inv
<1>1. Place
  BY DEF Init, Place, Stages, Counters, Counter, Start, InModule, InFunction, InBlock_
<1>2. IsGenerator(gen) /\ gen.cm = <<>> /\ gen.facts = {}
  BY DEF Init, NewGenerator, IsGenerator, GeneratorFields
<1>3. Stack
  BY <1>2 DEF Init, Stack, InModule, InFunction, InBlock_
<1>4. QED
  BY <1>1, <1>2, <1>3 DEF Inv, HasTypes

LEMMA StepFinish ==
  ASSUME Inv, Finish \/ ParseFails
  PROVE  Inv' /\ Grows(gen, gen')
<1>1. pc = "module" /\ pc' \in {"done", "ParseException"}
      /\ UNCHANGED <<program, module, at, gen>>
  BY DEF Finish, ParseFails
<1>2. Place'
  BY <1>1 DEF Inv, Place, Stages, InModule, InFunction, InBlock_
<1>3. Stack'
  BY <1>1 DEF Inv, Stack, InModule, InFunction, InBlock_
<1>4. QED
  BY <1>1, <1>2, <1>3 DEF Inv, HasTypes, Grows

LEMMA StepEnterModule ==
  ASSUME Inv, EnterModule
  PROVE  Inv' /\ Grows(gen, gen')
<1>1. /\ pc = "module" /\ pc' \in {"globals", "invalid_argument"} /\ at' = Start
      /\ UNCHANGED <<program, module>> /\ module <= Len(Prog.modules)
      /\ gen' = [gen EXCEPT !.cm = NewContextManager(Mod)]
  <2>1. pc' \in {"globals", "invalid_argument"}
    <3>1. CASE Prog.signatures = <<>>
      BY <3>1 DEF EnterModule
    <3>2. CASE Prog.signatures # <<>>
      BY <3>2 DEF EnterModule
    <3>3. QED
      BY <3>1, <3>2
  <2>2. QED
    BY <2>1 DEF EnterModule
<1>2. Place'
  BY <1>1 DEF Inv, Place, Stages, InModule, InFunction, InBlock_, Prog, Start, Counters, Counter
<1>3. /\ IsGenerator(gen') /\ gen'.cm = NewContextManager(Mod)
      /\ gen'.facts = gen.facts /\ gen'.types = gen.types
  BY <1>1 DEF Inv, IsGenerator, GeneratorFields
<1>4. /\ IsManager(NewContextManager(Mod))
      /\ NewContextManager(Mod).contexts = <<ModuleContext>>
      /\ NewContextManager(Mod).iFunctionCtx = NoFunction
  BY DEF NewContextManager, IsManager, ManagerFields, ModuleContext
<1>5. ModuleContext' = ModuleContext
  BY <1>1 DEF ModuleContext, Mod, Prog
<1>6. Stack'
  BY <1>1, <1>3, <1>4, <1>5 DEF Stack, InModule, InFunction, InBlock_
<1>7. QED
  BY <1>2, <1>3, <1>6 DEF Inv, HasTypes, Grows

(* The steps outside functions that only describe. *)
LEMMA StepOutside ==
  ASSUME Inv, NextGlobal \/ NoMoreGlobals \/ NextAlias \/ WriteOptions
  PROVE  Inv' /\ Grows(gen, gen')
<1>1. /\ pc \in {"globals", "aliases"} /\ pc' \in {"globals", "aliases", "function"}
      /\ UNCHANGED <<program, module>>
      /\ at' \in {at, [at EXCEPT !.item = @ + 1], [at EXCEPT !.item = 1]}
  BY DEF NextGlobal, NoMoreGlobals, NextAlias, WriteOptions
<1>2. Ready(gen)
  BY <1>1, InvReady DEF InModule
<1>3. Describes(gen, gen')
  <2>1. CASE NextGlobal
    BY <1>2, <2>1, WritingGlobal DEF NextGlobal
  <2>2. CASE NoMoreGlobals
    BY <1>2, <2>2 DEF NoMoreGlobals, Describes, Ready
  <2>3. CASE NextAlias
    BY <1>2, <2>3, WritingAlias DEF NextAlias
  <2>4. CASE WriteOptions
    <3>1. Proper(Fact("user", "options", << <<"context_sensitivity">>, Prog.sensitivity >>), gen.types)
      BY ProperFacts DEF TypeNames
    <3>2. QED
      BY <1>2, <2>4, <3>1, WritingFacts DEF WriteOptions
  <2>5. QED
    BY <2>1, <2>2, <2>3, <2>4
<1>4. /\ IsGenerator(gen') /\ HasTypes(gen') /\ Grows(gen, gen') /\ IsManager(gen'.cm)
      /\ gen'.cm.contexts = gen.cm.contexts /\ gen'.cm.iFunctionCtx = gen.cm.iFunctionCtx
  BY <1>3, Described DEF Inv
<1>5. Place'
  <2>1. at' \in Counters
    BY <1>1 DEF Inv, Place, Counters, Counter
  <2>2. QED
    BY <1>1, <2>1 DEF Inv, Place, Stages, InModule, InFunction, InBlock_, Prog
<1>6. ModuleContext' = ModuleContext
  BY <1>1 DEF ModuleContext, Mod, Prog
<1>7. Stack'
  BY <1>1, <1>4, <1>6 DEF Inv, Stack, InModule, InFunction, InBlock_
<1>8. QED
  BY <1>4, <1>5, <1>7 DEF Inv

(* The facts of signatures. *)
LEMMA ArgumentLists ==
  ASSUME NEW type \in DOMAIN Arguments
  PROVE  Len(Arguments[type]) \in Nat /\ type \notin TypeNames
<1>1. \A s \in {<<>>, <<"int">>, <<"str">>, <<"int", "int">>, <<"int", "str">>, <<"str", "int">>} :
        Len(s) \in Nat
  OBVIOUS
<1>2. Arguments[type] \in {<<>>, <<"int">>, <<"str">>, <<"int", "int">>, <<"int", "str">>, <<"str", "int">>}
  BY DEF Arguments
<1>3. type \notin TypeNames
  BY DEF Arguments, TypeNames
<1>4. QED
  BY <1>1, <1>2, <1>3

LEMMA HeadOfTwo ==
  ASSUME NEW x, NEW y, NEW n \in Nat, NEW t, t = [i \in 1 .. n |-> t[i]]
  PROVE  (<<x, y>> \o t)[1] = x
<1> DEFINE S == {x, y} \cup {t[i] : i \in 1 .. n}
           h == <<x, y>>
<1>1. h \in Seq(S) /\ Len(h) = 2 /\ h[1] = x
  OBVIOUS
<1>2. t \in [1 .. n -> S]
  OBVIOUS
<1>3. t \in Seq(S) /\ Len(t) \in Nat
  BY <1>2, SeqDef, LenProperties
<1> HIDE DEF S, h
<1>4. \A i \in 1 .. Len(h) + Len(t) : (h \o t)[i] = IF i <= Len(h) THEN h[i] ELSE t[i - Len(h)]
  BY <1>1, <1>3, ConcatProperties
<1>5. 1 \in 1 .. Len(h) + Len(t) /\ 1 <= Len(h)
  BY <1>1, <1>3
<1>6. (h \o t)[1] = x
  BY <1>1, <1>4, <1>5
<1>7. QED
  BY <1>6 DEF h

IsSignature(f) == \E s \in DOMAIN Arguments : f[1] = <<"signature", s>>

LEMMA SignatureFacts ==
  ASSUME NEW type \in DOMAIN Arguments, NEW function, NEW value
  PROVE  \A f \in WritePtsSignature(type, function, value).produced : IsSignature(f)
<1> DEFINE expected == Arguments[type]
           n == Len(expected)
           extracted == [i \in 1 .. n |-> ExtractFromArray(value.items[i], expected[i])]
           t == [i \in 1 .. n |-> extracted[i][1]]
           fact == << <<"signature", type>>, "@" \o function >> \o t
<1>1. n \in Nat
  BY ArgumentLists
<1>2. WritePtsSignature(type, function, value).produced \in {{}, {fact}}
  BY DEF WritePtsSignature, Threw, Returned
<1> HIDE DEF n
<1>3. t = [i \in 1 .. n |-> t[i]]
  OBVIOUS
<1> HIDE DEF t
<1>4. fact[1] = <<"signature", type>>
  BY <1>1, <1>3, HeadOfTwo
<1> HIDE DEF fact
<1>5. QED
  BY <1>2, <1>4 DEF IsSignature

LEMMA ComponentFacts ==
  ASSUME NEW function, NEW component
  PROVE  \A f \in EmitComponent(function, component).produced : IsSignature(f)
<1> DEFINE type == component.members[1].key
           value == component.members[1].value
<1>1. CASE component.json # "object" \/ Len(component.members) # 1
  BY <1>1 DEF EmitComponent, Threw
<1>2. CASE ~(component.json # "object" \/ Len(component.members) # 1)
  <2>1. CASE type \in OtherAnalyses
    BY <1>2, <2>1 DEF EmitComponent, Returned
  <2>2. CASE type \notin OtherAnalyses /\ type \in DOMAIN Arguments
    <3>1. EmitComponent(function, component) = WritePtsSignature(type, function, value)
      BY <1>2, <2>2 DEF EmitComponent
    <3> HIDE DEF type, value
    <3>2. QED
      BY <2>2, <3>1, SignatureFacts
  <2>3. CASE type \notin OtherAnalyses /\ type \notin DOMAIN Arguments
    BY <1>2, <2>3 DEF EmitComponent, Threw
  <2>4. QED
    BY <2>1, <2>2, <2>3
<1>3. QED
  BY <1>1, <1>2

LEMMA EmittedFacts ==
  \A f \in EmitMatchingSignatures.produced : IsSignature(f)
<1>1. \A function, components : \A f \in EmitSignatures(function, components).produced : IsSignature(f)
  BY ComponentFacts DEF EmitSignatures, UpToThrow
<1>2. QED
  BY <1>1 DEF EmitMatchingSignatures, UpToThrow, Returned

LEMMA SignatureNames ==
  ASSUME NEW f, IsSignature(f)
  PROVE  f[1][1] = "signature" /\ f[1][2] \notin TypeNames
  BY ArgumentLists DEF IsSignature

-----------------------------------------------------------------------------
(* In functions.                                                           *)

LEMMA StepEnterFunction ==
  ASSUME Inv, EnterFunction
  PROVE  Inv' /\ Grows(gen, gen')
<1> DEFINE entered == [gen EXCEPT !.cm = PushContext(Mod, @, <<at.function>>)]
           funcref == FunctionRefmode(entered.cm, Fun)
           entity == FunctionEntity(at.function)
           issued == Issue(entered, funcref, entity)
           known == Save(issued, funcref, entity)
<1>1. /\ pc = "function" /\ pc' \in {"signatures", "params"}
      /\ at.function <= Len(Mod.functions)
      /\ at' = [at EXCEPT !.param = 1] /\ UNCHANGED <<program, module>>
      /\ gen' = WriteFunction(known, funcref)
  BY DEF EnterFunction
<1>2. /\ Ready(gen) /\ gen.cm.contexts = <<ModuleContext>>
  BY <1>1, InvReady DEF Inv, Stack, InModule, InFunction
<1>3. /\ IsGenerator(entered) /\ entered.cm = PushContext(Mod, gen.cm, <<at.function>>)
      /\ entered.facts = gen.facts /\ entered.types = gen.types
  BY <1>2 DEF Ready, IsGenerator, GeneratorFields
<1>4. /\ Ready(entered)
      /\ entered.cm.contexts = Append(gen.cm.contexts, OfFunction)
      /\ entered.cm.iFunctionCtx = Len(gen.cm.contexts) + 1
  BY <1>2, <1>3, PushingFunction DEF Ready
<1>5. entered.cm.contexts = <<ModuleContext, OfFunction>> /\ entered.cm.iFunctionCtx = 2
  <2>1. Append(<<ModuleContext>>, OfFunction) = <<ModuleContext, OfFunction>>
        /\ Len(<<ModuleContext>>) = 1
    BY StackOfTwo
  <2>2. QED
    BY <1>2, <1>4, <2>1
<1> HIDE DEF entered, funcref, entity
<1>6. Describes(entered, issued)
  BY <1>4, Issuing
<1> HIDE DEF issued
<1>7. Describes(issued, known)
  BY <1>6, DescribesReady, Saving DEF Save
<1> HIDE DEF known
<1>8. Describes(known, gen')
  BY <1>1, <1>7, DescribesReady, WritingFunction
<1>9. Describes(entered, gen')
  BY <1>6, <1>7, <1>8, DescribesTransitive
<1>10. /\ IsGenerator(gen') /\ HasTypes(gen') /\ Grows(entered, gen') /\ IsManager(gen'.cm)
       /\ gen'.cm.contexts = <<ModuleContext, OfFunction>> /\ gen'.cm.iFunctionCtx = 2
  <2>1. HasTypes(entered)
    BY <1>3 DEF Inv, HasTypes
  <2>2. QED
    BY <1>5, <1>9, <2>1, Described
<1>11. Place'
  <2>1. at' \in Counters /\ at'.function = at.function
    BY <1>1 DEF Inv, Place, Counters, Counter
  <2>2. QED
    BY <1>1, <2>1 DEF Inv, Place, Stages, InModule, InFunction, InBlock_, Prog, Mod
<1>12. ModuleContext' = ModuleContext /\ OfFunction' = OfFunction
  BY <1>1 DEF Inv, Place, Counters, ModuleContext, OfFunction, Fun, Mod, Prog
<1>13. Stack'
  BY <1>1, <1>10, <1>12 DEF Stack, InModule, InFunction, InBlock_
<1>14. Grows(gen, gen')
  BY <1>3, <1>10 DEF Grows
<1>15. QED
  BY <1>10, <1>11, <1>13, <1>14 DEF Inv

LEMMA StepParameters ==
  ASSUME Inv, NextParameter \/ NoMoreParameters
  PROVE  Inv' /\ Grows(gen, gen')
<1>1. /\ pc = "params" /\ pc' \in {"params", "signatures"}
      /\ UNCHANGED <<program, module>>
      /\ at' \in {at, [at EXCEPT !.param = @ + 1]}
  BY DEF NextParameter, NoMoreParameters
<1>2. Ready(gen)
  BY <1>1, InvReady DEF InModule
<1>3. Describes(gen, gen')
  <2>1. CASE NextParameter
    <3> DEFINE v == Variable(gen, Arg(at.param))
               funcref == FunctionRefmode(gen.cm, Fun)
               saved == Save(v.gen, v.ref, ValueEntity(at.function, Arg(at.param)))
               fact == Fact("func", "param", <<funcref, at.param - 1, v.ref>>)
    <3>1. Describes(gen, v.gen)
      BY <1>2, NamingVariable DEF Variable
    <3>2. gen' = WriteFacts(saved, {fact})
      BY <2>1 DEF NextParameter, WriteParameter
    <3> HIDE DEF v, funcref
    <3>3. Describes(v.gen, saved)
      BY <3>1, DescribesReady, Saving DEF Save
    <3> HIDE DEF saved
    <3>4. Proper(fact, saved.types)
      <4>1. "func" # "signature" /\ "param" \notin TypeNames
        BY DEF TypeNames
      <4>2. \A a, b, c : Proper(Fact("func", "param", <<a, b, c>>), saved.types)
        BY <4>1, ProperFacts
      <4>3. QED
        BY <4>2
    <3> HIDE DEF fact
    <3>5. Describes(saved, gen')
      BY <3>2, <3>3, <3>4, DescribesReady, WritingFacts
    <3>6. QED
      BY <3>1, <3>3, <3>5, DescribesTransitive
  <2>2. CASE NoMoreParameters
    BY <1>2, <2>2 DEF NoMoreParameters, Describes, Ready
  <2>3. QED
    BY <2>1, <2>2
<1>4. /\ IsGenerator(gen') /\ HasTypes(gen') /\ Grows(gen, gen') /\ IsManager(gen'.cm)
      /\ gen'.cm.contexts = gen.cm.contexts /\ gen'.cm.iFunctionCtx = gen.cm.iFunctionCtx
  BY <1>3, Described DEF Inv
<1>5. Place'
  <2>1. at' \in Counters /\ at'.function = at.function
    BY <1>1 DEF Inv, Place, Counters, Counter
  <2>2. QED
    BY <1>1, <2>1 DEF Inv, Place, Stages, InModule, InFunction, InBlock_, Prog, Mod
<1>6. ModuleContext' = ModuleContext /\ OfFunction' = OfFunction
  BY <1>1 DEF Inv, Place, Counters, ModuleContext, OfFunction, Fun, Mod, Prog
<1>7. Stack'
  BY <1>1, <1>4, <1>6 DEF Inv, Stack, InModule, InFunction, InBlock_
<1>8. QED
  BY <1>4, <1>5, <1>7 DEF Inv

LEMMA StepApplySignatures ==
  ASSUME Inv, ApplySignatures
  PROVE  Inv'
<1> DEFINE emitted == EmitMatchingSignatures
           signed == WriteFacts(gen, emitted.produced)
<1>1. /\ pc = "signatures" /\ UNCHANGED <<program, module>>
      /\ gen' = IF Matching = {} THEN signed ELSE [signed EXCEPT !.cm = PopContext(@)]
      /\ \/ pc' = "invalid_argument" /\ at' = at
         \/ Matching # {} /\ pc' = "function" /\ at' = [at EXCEPT !.function = @ + 1]
         \/ Matching = {} /\ pc' = "block" /\ at' = [at EXCEPT !.block = 1]
  <2>1. CASE emitted.thrown
    BY <2>1 DEF ApplySignatures
  <2>2. CASE ~emitted.thrown /\ Matching # {}
    BY <2>2 DEF ApplySignatures
  <2>3. CASE ~emitted.thrown /\ Matching = {}
    BY <2>3 DEF ApplySignatures
  <2>4. QED
    BY <2>1, <2>2, <2>3
<1>2. /\ Ready(gen) /\ gen.cm.contexts = <<ModuleContext, OfFunction>>
      /\ gen.cm.iFunctionCtx = 2
  BY <1>1, InvReady DEF Inv, Stack, InModule, InFunction, InBlock_
<1>3. \A f \in emitted.produced : f[1][1] = "signature" /\ f[1][2] \notin TypeNames
  BY EmittedFacts, SignatureNames
<1> HIDE DEF emitted
<1>4. /\ IsGenerator(signed) /\ signed.cm = gen.cm
      /\ signed.facts = gen.facts \cup emitted.produced /\ signed.types = gen.types
  BY <1>2 DEF Ready, WriteFacts, IsGenerator, GeneratorFields
<1> HIDE DEF signed
<1>5. /\ IsGenerator(gen') /\ gen'.cm = IF Matching = {} THEN gen.cm ELSE PopContext(gen.cm)
      /\ gen'.facts = gen.facts \cup emitted.produced /\ gen'.types = gen.types
  BY <1>1, <1>4 DEF IsGenerator, GeneratorFields
<1>6. HasTypes(gen')
  BY <1>3, <1>5 DEF Inv, HasTypes
<1>7. /\ IsManager(PopContext(gen.cm))
      /\ PopContext(gen.cm).contexts = <<ModuleContext>>
      /\ PopContext(gen.cm).iFunctionCtx = NoFunction
  <2>1. /\ Front(<<ModuleContext, OfFunction>>) = <<ModuleContext>>
        /\ Last(<<ModuleContext, OfFunction>>) = OfFunction
    BY StackOfTwo
  <2>2. OfFunction.isFunction
    BY DEF OfFunction, Context
  <2>3. QED
    BY <1>2, <2>1, <2>2, Popping DEF Ready
<1>8. CASE pc' = "invalid_argument"
  <2>1. Place' /\ Stack'
    BY <1>1, <1>8 DEF Inv, Place, Stack, Stages, InModule, InFunction, InBlock_
  <2>2. QED
    BY <1>5, <1>6, <2>1 DEF Inv
<1>9. CASE Matching # {} /\ pc' = "function" /\ at' = [at EXCEPT !.function = @ + 1]
  <2>1. ModuleContext' = ModuleContext
    BY <1>1 DEF ModuleContext, Mod, Prog
  <2>2. at' \in Counters
    BY <1>9 DEF Inv, Place, Counters, Counter
  <2>3. Place'
    BY <1>1, <1>9, <2>2 DEF Inv, Place, Stages, InModule, InFunction, InBlock_, Prog
  <2>4. Stack'
    BY <1>5, <1>7, <1>9, <2>1 DEF Stack, InModule, InFunction, InBlock_
  <2>5. QED
    BY <1>5, <1>6, <2>3, <2>4 DEF Inv
<1>10. CASE Matching = {} /\ pc' = "block" /\ at' = [at EXCEPT !.block = 1]
  <2>1. at' \in Counters /\ at'.function = at.function
    BY <1>10 DEF Inv, Place, Counters, Counter
  <2>2. ModuleContext' = ModuleContext /\ OfFunction' = OfFunction
    BY <1>1, <2>1 DEF ModuleContext, OfFunction, Fun, Mod, Prog
  <2>3. Place'
    BY <1>1, <1>10, <2>1 DEF Inv, Place, Stages, InModule, InFunction, InBlock_, Prog, Mod
  <2>4. Stack'
    BY <1>2, <1>5, <1>10, <2>2 DEF Ready, Stack, InModule, InFunction, InBlock_
  <2>5. QED
    BY <1>5, <1>6, <2>3, <2>4 DEF Inv
<1>11. QED
  BY <1>1, <1>8, <1>9, <1>10

LEMMA StepEnterBlock ==
  ASSUME Inv, EnterBlock
  PROVE  Inv' /\ Grows(gen, gen')
<1> DEFINE entered == [gen EXCEPT !.cm = PushContext(Mod, @, <<at.function, at.block>>)]
           label(b) == BasicBlockRefmode(Mod, entered.cm, b)
           self == label(at.block)
           predecessors == {b \in DOMAIN Fun.blocks :
                              Fun.blocks[b].instrs # <<>>
                              /\ Block(at.block) \in Successors(Last(Fun.blocks[b].instrs))}
           issued == Issue(entered, self, ValueEntity(at.function, Block(at.block)))
           F1 == {Fact("variable", "id", <<self>>), Fact("variable", "type", <<self, "label">>),
                  Fact("variable", "in_func", <<self, "@" \o Fun.name>>),
                  Fact("variable", "name", <<self, LocalId(Fun, Block(at.block))>>)}
           F2 == {Fact("block", "predecessor", <<self, label(b)>>) : b \in predecessors}
<1>1. /\ pc = "block" /\ pc' = "instr" /\ at.block <= Len(Fun.blocks)
      /\ at' = [at EXCEPT !.instr = 1] /\ UNCHANGED <<program, module>>
      /\ gen' = WriteFacts(issued, F1 \cup F2)
  BY DEF EnterBlock
<1>2. /\ Ready(gen) /\ gen.cm.contexts = <<ModuleContext, OfFunction>> /\ gen.cm.iFunctionCtx = 2
  BY <1>1, InvReady DEF Inv, Stack, InModule, InFunction, InBlock_
<1>3. /\ IsGenerator(entered) /\ entered.cm = PushContext(Mod, gen.cm, <<at.function, at.block>>)
      /\ entered.facts = gen.facts /\ entered.types = gen.types
  BY <1>2 DEF Ready, IsGenerator, GeneratorFields
<1>4. /\ Ready(entered)
      /\ entered.cm.contexts = Append(gen.cm.contexts, OfBlock)
      /\ entered.cm.iFunctionCtx = 2
  BY <1>2, <1>3, PushingBlock DEF Ready
<1>5. entered.cm.contexts = <<ModuleContext, OfFunction, OfBlock>>
  BY <1>2, <1>4, StackOfThree
<1> HIDE DEF entered, label, self, predecessors
<1>6. Describes(entered, issued)
  BY <1>4, Issuing
<1> HIDE DEF issued
<1>7. \A f \in F1 : Proper(f, issued.types)
  <2>1. \A n : n \notin TypeNames =>
          /\ \A a : Proper(Fact("variable", n, <<a>>), issued.types)
          /\ \A a, b : Proper(Fact("variable", n, <<a, b>>), issued.types)
    BY ProperFacts
  <2>2. Proper(Fact("variable", "type", <<self, "label">>), issued.types)
    BY ProperFacts
  <2>3. QED
    BY <2>1, <2>2 DEF TypeNames
<1>8. \A f \in F2 : Proper(f, issued.types)
  <2>1. \A n : n \notin TypeNames =>
          \A a, b : Proper(Fact("block", n, <<a, b>>), issued.types)
    BY ProperFacts
  <2>2. QED
    BY <2>1 DEF TypeNames
<1> HIDE DEF F1, F2
<1>9. Describes(issued, gen')
  BY <1>1, <1>6, <1>7, <1>8, DescribesReady, WritingFacts
<1>10. Describes(entered, gen')
  BY <1>6, <1>9, DescribesTransitive
<1>11. /\ IsGenerator(gen') /\ HasTypes(gen') /\ Grows(entered, gen') /\ IsManager(gen'.cm)
       /\ gen'.cm.contexts = <<ModuleContext, OfFunction, OfBlock>> /\ gen'.cm.iFunctionCtx = 2
  <2>1. HasTypes(entered)
    BY <1>3 DEF Inv, HasTypes
  <2>2. QED
    BY <1>4, <1>5, <1>10, <2>1, Described
<1>12. at' \in Counters /\ at'.function = at.function /\ at'.block = at.block
  BY <1>1 DEF Inv, Place, Counters, Counter
<1>13. Place'
  BY <1>1, <1>12 DEF Inv, Place, Stages, InModule, InFunction, InBlock_, Prog, Mod, Fun
<1>14. ModuleContext' = ModuleContext /\ OfFunction' = OfFunction /\ OfBlock' = OfBlock
  BY <1>1, <1>12 DEF ModuleContext, OfFunction, OfBlock, Blk, Fun, Mod, Prog
<1>15. Stack'
  BY <1>1, <1>11, <1>14 DEF Stack, InModule, InFunction, InBlock_
<1>16. Grows(gen, gen')
  BY <1>3, <1>11 DEF Grows
<1>17. QED
  BY <1>11, <1>13, <1>15, <1>16 DEF Inv

LEMMA StepEnterInstruction ==
  ASSUME Inv, EnterInstruction
  PROVE  Inv' /\ Grows(gen, gen')
<1> DEFINE place == <<at.function, at.block, at.instr>>
           entered == [gen EXCEPT !.cm = PushContext(Mod, @, place)]
           iref == InstructionRefmode(entered.cm)
           entity == InstrEntity(at.function, at.block, at.instr)
           self == Instr(at.block, at.instr)
           issued == Issue(entered, iref, entity)
           known == Save(issued, iref, entity)
           target == Variable(known, self)
           result == AssignTo(target, iref, ValueEntity(at.function, self))
           assigned == IF Ins.type = "void" THEN known ELSE result
<1>1. /\ pc = "instr" /\ pc' = "visit" /\ at.instr <= Len(Blk.instrs)
      /\ at' = [at EXCEPT !.request = 1] /\ UNCHANGED <<program, module>>
      /\ gen' = PlaceInstruction(assigned, iref, Ins)
  BY DEF EnterInstruction
<1>2. /\ Ready(gen) /\ gen.cm.contexts = <<ModuleContext, OfFunction, OfBlock>>
      /\ gen.cm.iFunctionCtx = 2
  BY <1>1, InvReady DEF Inv, Stack, InModule, InFunction, InBlock_
<1>3. /\ IsGenerator(entered) /\ entered.cm = PushContext(Mod, gen.cm, place)
      /\ entered.facts = gen.facts /\ entered.types = gen.types
  BY <1>2 DEF Ready, IsGenerator, GeneratorFields
<1> DEFINE prefix == ToString(gen.cm.instrIndex)
<1>4. /\ Ready(entered)
      /\ entered.cm.contexts = Append(gen.cm.contexts, OfInstruction(prefix))
      /\ entered.cm.iFunctionCtx = 2
  BY <1>2, <1>3, PushingInstruction DEF Ready
<1> HIDE DEF prefix
<1>5. entered.cm.contexts = <<ModuleContext, OfFunction, OfBlock, OfInstruction(prefix)>>
  BY <1>2, <1>4, StackOfFour
<1> HIDE DEF entered, iref, entity, self
<1>6. Describes(entered, issued)
  BY <1>4, Issuing
<1> HIDE DEF issued
<1>7. Describes(issued, known)
  BY <1>6, DescribesReady, Saving DEF Save
<1>8. Describes(entered, known) /\ Ready(known)
  BY <1>6, <1>7, DescribesTransitive, DescribesReady
<1> HIDE DEF known
<1>9. Describes(known, target.gen)
  BY <1>8, NamingVariable DEF Variable
<1>10. Describes(target.gen, result)
  <2> DEFINE written == WriteFacts(target.gen, {Fact("instr", "assigns_to", <<iref, target.ref>>)})
  <2>1. Ready(target.gen)
    BY <1>9, DescribesReady
  <2>2. Proper(Fact("instr", "assigns_to", <<iref, target.ref>>), target.gen.types)
    BY ProperFacts DEF TypeNames
  <2>3. result = Save(written, target.ref, ValueEntity(at.function, self))
    BY DEF AssignTo
  <2> HIDE DEF target
  <2>4. Describes(target.gen, written)
    BY <2>1, <2>2, WritingFacts
  <2> HIDE DEF written
  <2>5. Describes(written, result)
    BY <2>3, <2>4, DescribesReady, Saving DEF Save
  <2>6. QED
    BY <2>4, <2>5, DescribesTransitive
<1> HIDE DEF result, target
<1>11. Describes(entered, result)
  BY <1>8, <1>9, <1>10, DescribesTransitive
<1>12. Describes(entered, assigned) /\ Ready(assigned)
  BY <1>8, <1>11, DescribesReady
<1> HIDE DEF assigned
<1>13. Describes(assigned, PlaceInstruction(assigned, iref, Ins))
  <2> DEFINE F1 == Optional(prev # <<>>, Fact("instr", "successor", <<prev, iref>>))
             F2 == {Fact("instr", "func", <<iref, FunctionRefmode(assigned.cm, Fun)>>),
                    Fact("instr", "bb_entry", <<iref, BasicBlockRefmode(Mod, assigned.cm, at.block)>>)}
             F3 == {Fact("instr", "pos", <<iref, Ins.pos[i][1], Ins.pos[i][2]>>) : i \in DOMAIN Ins.pos}
  <2>1. \A n : n \notin TypeNames =>
          /\ \A a, b : Proper(Fact("instr", n, <<a, b>>), assigned.types)
          /\ \A a, b, c : Proper(Fact("instr", n, <<a, b, c>>), assigned.types)
    BY ProperFacts
  <2>2. \A f \in F1 : Proper(f, assigned.types)
    BY <2>1 DEF TypeNames, Optional
  <2>3. \A f \in F2 : Proper(f, assigned.types)
    BY <2>1 DEF TypeNames
  <2>4. \A f \in F3 : Proper(f, assigned.types)
    BY <2>1 DEF TypeNames
  <2>5. PlaceInstruction(assigned, iref, Ins) = WriteFacts(assigned, F1 \cup F2 \cup F3)
    BY DEF PlaceInstruction
  <2> HIDE DEF F1, F2, F3
  <2>6. QED
    BY <1>12, <2>2, <2>3, <2>4, <2>5, WritingFacts
<1>14. Describes(entered, gen')
  BY <1>1, <1>12, <1>13, DescribesTransitive
<1>15. /\ IsGenerator(gen') /\ HasTypes(gen') /\ Grows(entered, gen') /\ IsManager(gen'.cm)
       /\ gen'.cm.contexts = <<ModuleContext, OfFunction, OfBlock, OfInstruction(prefix)>>
       /\ gen'.cm.iFunctionCtx = 2
  <2>1. HasTypes(entered)
    BY <1>3 DEF Inv, HasTypes
  <2>2. QED
    BY <1>4, <1>5, <1>14, <2>1, Described
<1>16. /\ at' \in Counters /\ at'.function = at.function /\ at'.block = at.block
       /\ at'.instr = at.instr
  BY <1>1 DEF Inv, Place, Counters, Counter
<1>17. Place'
  BY <1>1, <1>16 DEF Inv, Place, Stages, InModule, InFunction, InBlock_, Prog, Mod, Fun, Blk
<1>18. /\ ModuleContext' = ModuleContext /\ OfFunction' = OfFunction /\ OfBlock' = OfBlock
       /\ \A p : Context("instr", <<at'.function, at'.block, at'.instr>>, p) = OfInstruction(p)
  BY <1>1, <1>16 DEF ModuleContext, OfFunction, OfBlock, OfInstruction, Blk, Fun, Mod, Prog
<1>19. Stack'
  <2>1. gen'.cm.contexts = <<ModuleContext', OfFunction', OfBlock',
                             Context("instr", <<at'.function, at'.block, at'.instr>>, prefix)>>
    BY <1>15, <1>18
  <2>2. (\E p : gen.cm.contexts = <<ModuleContext, OfFunction, OfBlock, OfInstruction(p)>>)'
    BY <2>1 DEF OfInstruction
  <2>3. QED
    BY <1>1, <1>15, <2>2 DEF Stack, InModule, InFunction, InBlock_
<1>20. Grows(gen, gen')
  BY <1>3, <1>15 DEF Grows
<1>21. QED
  BY <1>15, <1>17, <1>19, <1>20 DEF Inv
LEMMA StepNextRequest ==
  ASSUME Inv, NextRequest
  PROVE  Inv' /\ Grows(gen, gen')
<1>1. /\ pc = "visit" /\ pc' = "visit" /\ at.request <= Len(Visit(Ins))
      /\ at' = [at EXCEPT !.request = @ + 1] /\ UNCHANGED <<program, module>>
      /\ gen' = Execute(gen, InstructionRefmode(gen.cm), Ins.pos, Visit(Ins)[at.request])
  BY DEF NextRequest
<1>2. Ready(gen) /\ HasTypes(gen)
  BY <1>1, InvReady DEF Inv, InModule
<1>3. Harmless(Visit(Ins)[at.request])
  <2>1. InstructionAssumption(Fun, Ins)
    BY <1>1, PlaceExists DEF Inv, InModule
  <2>2. Asks(Visit(Ins))
    BY <2>1, VisitorAsks DEF InstructionAssumption
  <2>3. at.request \in Nat \ {0}
    BY DEF Inv, Place, Counters, Counter
  <2>4. QED
    BY <1>1, <2>2, <2>3, RequestHarmless
<1>4. Describes(gen, gen')
  BY <1>1, <1>2, <1>3, Executing
<1>5. /\ IsGenerator(gen') /\ HasTypes(gen') /\ Grows(gen, gen') /\ IsManager(gen'.cm)
      /\ gen'.cm.contexts = gen.cm.contexts /\ gen'.cm.iFunctionCtx = gen.cm.iFunctionCtx
  BY <1>2, <1>4, Described
<1>6. /\ at' \in Counters /\ at'.function = at.function /\ at'.block = at.block
      /\ at'.instr = at.instr
  BY <1>1 DEF Inv, Place, Counters, Counter
<1>7. Place'
  BY <1>1, <1>6 DEF Inv, Place, Stages, InModule, InFunction, InBlock_, Prog, Mod, Fun, Blk
<1>8. /\ ModuleContext' = ModuleContext /\ OfFunction' = OfFunction /\ OfBlock' = OfBlock
      /\ \A p : Context("instr", <<at'.function, at'.block, at'.instr>>, p) = OfInstruction(p)
  BY <1>1, <1>6 DEF ModuleContext, OfFunction, OfBlock, OfInstruction, Blk, Fun, Mod, Prog
<1>9. Stack'
  <2>1. PICK p : gen.cm.contexts = <<ModuleContext, OfFunction, OfBlock, OfInstruction(p)>>
    BY <1>1 DEF Inv, Stack
  <2>2. gen'.cm.contexts = <<ModuleContext', OfFunction', OfBlock',
                             Context("instr", <<at'.function, at'.block, at'.instr>>, p)>>
    BY <1>5, <1>8, <2>1
  <2>3. (\E q : gen.cm.contexts = <<ModuleContext, OfFunction, OfBlock, OfInstruction(q)>>)'
    BY <2>2 DEF OfInstruction
  <2>4. gen'.cm.iFunctionCtx = 2
    BY <1>1, <1>5 DEF Inv, Stack, InFunction
  <2>5. QED
    BY <1>1, <1>5, <2>3, <2>4 DEF Stack, InModule, InFunction, InBlock_
<1>10. QED
  BY <1>5, <1>7, <1>9 DEF Inv

-----------------------------------------------------------------------------
(* Leaving.                                                                *)

LEMMA NoFunctionContext ==
  /\ ~OfBlock.isFunction /\ \A p : ~OfInstruction(p).isFunction
  /\ OfFunction.isFunction
  BY DEF OfBlock, OfInstruction, OfFunction, Context

LEMMA StepLeaveInstruction ==
  ASSUME Inv, LeaveInstruction
  PROVE  Inv' /\ Grows(gen, gen')
<1>1. /\ pc = "visit" /\ pc' = "instr" /\ at' = [at EXCEPT !.instr = @ + 1]
      /\ UNCHANGED <<program, module>> /\ gen' = [gen EXCEPT !.cm = PopContext(@)]
  BY DEF LeaveInstruction
<1>2. Ready(gen) /\ HasTypes(gen)
  BY <1>1, InvReady DEF Inv, InModule
<1>3. /\ IsGenerator(gen') /\ gen'.cm = PopContext(gen.cm)
      /\ gen'.facts = gen.facts /\ gen'.types = gen.types
  BY <1>1, <1>2 DEF Ready, IsGenerator, GeneratorFields
<1>4. /\ IsManager(gen'.cm) /\ gen'.cm.iFunctionCtx = 2
      /\ gen'.cm.contexts = <<ModuleContext, OfFunction, OfBlock>>
  <2>1. PICK p : gen.cm.contexts = <<ModuleContext, OfFunction, OfBlock, OfInstruction(p)>>
    BY <1>1 DEF Inv, Stack
  <2>2. /\ Front(gen.cm.contexts) = <<ModuleContext, OfFunction, OfBlock>>
        /\ Last(gen.cm.contexts) = OfInstruction(p)
    BY <2>1, StackOfFour
  <2>3. gen.cm.iFunctionCtx = 2
    BY <1>1 DEF Inv, Stack, InFunction
  <2>4. QED
    BY <1>2, <1>3, <2>2, <2>3, Popping, NoFunctionContext DEF Ready
<1>5. at' \in Counters /\ at'.function = at.function /\ at'.block = at.block
  BY <1>1 DEF Inv, Place, Counters, Counter
<1>6. Place'
  BY <1>1, <1>5 DEF Inv, Place, Stages, InModule, InFunction, InBlock_, Prog, Mod, Fun
<1>7. ModuleContext' = ModuleContext /\ OfFunction' = OfFunction /\ OfBlock' = OfBlock
  BY <1>1, <1>5 DEF ModuleContext, OfFunction, OfBlock, Blk, Fun, Mod, Prog
<1>8. Stack'
  BY <1>1, <1>4, <1>7 DEF Stack, InModule, InFunction, InBlock_
<1>9. QED
  BY <1>2, <1>3, <1>6, <1>8 DEF Inv, HasTypes, Grows

LEMMA StepLeaveBlock ==
  ASSUME Inv, LeaveBlock
  PROVE  Inv' /\ Grows(gen, gen')
<1>1. /\ pc = "instr" /\ pc' = "block" /\ at' = [at EXCEPT !.block = @ + 1]
      /\ UNCHANGED <<program, module>> /\ gen' = [gen EXCEPT !.cm = PopContext(@)]
  BY DEF LeaveBlock
<1>2. Ready(gen) /\ HasTypes(gen)
  BY <1>1, InvReady DEF Inv, InModule
<1>3. /\ IsGenerator(gen') /\ gen'.cm = PopContext(gen.cm)
      /\ gen'.facts = gen.facts /\ gen'.types = gen.types
  BY <1>1, <1>2 DEF Ready, IsGenerator, GeneratorFields
<1>4. /\ IsManager(gen'.cm) /\ gen'.cm.iFunctionCtx = 2
      /\ gen'.cm.contexts = <<ModuleContext, OfFunction>>
  <2>1. gen.cm.contexts = <<ModuleContext, OfFunction, OfBlock>>
    BY <1>1 DEF Inv, Stack
  <2>2. /\ Front(gen.cm.contexts) = <<ModuleContext, OfFunction>>
        /\ Last(gen.cm.contexts) = OfBlock
    BY <2>1, StackOfThree
  <2>3. gen.cm.iFunctionCtx = 2
    BY <1>1 DEF Inv, Stack, InFunction
  <2>4. QED
    BY <1>2, <1>3, <2>2, <2>3, Popping, NoFunctionContext DEF Ready
<1>5. at' \in Counters /\ at'.function = at.function
  BY <1>1 DEF Inv, Place, Counters, Counter
<1>6. Place'
  BY <1>1, <1>5 DEF Inv, Place, Stages, InModule, InFunction, InBlock_, Prog, Mod
<1>7. ModuleContext' = ModuleContext /\ OfFunction' = OfFunction
  BY <1>1, <1>5 DEF ModuleContext, OfFunction, Fun, Mod, Prog
<1>8. Stack'
  BY <1>1, <1>4, <1>7 DEF Stack, InModule, InFunction, InBlock_
<1>9. QED
  BY <1>2, <1>3, <1>6, <1>8 DEF Inv, HasTypes, Grows

(* The types of the variables are recorded with the facts about them.      *)
LEMMA StepLeaveFunction ==
  ASSUME Inv, LeaveFunction
  PROVE  Inv' /\ Grows(gen, gen')
<1> DEFINE v == gen.variables
           facts(id) == {Fact("variable", "id", <<id>>), Fact("variable", "type", <<id, v[id].type>>),
                         Fact("variable", "in_func", <<id, "@" \o Fun.name>>),
                         Fact("variable", "name", <<id, v[id].name>>)}
           F == UNION {facts(id) : id \in DOMAIN v}
           T == {v[id].type : id \in DOMAIN v}
<1>1. /\ pc = "block" /\ pc' = "function" /\ at' = [at EXCEPT !.function = @ + 1]
      /\ UNCHANGED <<program, module>>
      /\ gen' = [WriteLocalVariables(gen) EXCEPT !.cm = PopContext(@)]
  BY DEF LeaveFunction
<1>2. Ready(gen) /\ HasTypes(gen)
  BY <1>1, InvReady DEF Inv, InModule
<1>3. WriteLocalVariables(gen) = [WriteFacts(gen, F) EXCEPT !.variables = <<>>,
                                                            !.types = @ \cup T]
  BY DEF WriteLocalVariables
<1>4. \A f \in F : Proper(f, gen.types \cup T)
  <2> SUFFICES ASSUME NEW id \in DOMAIN v, NEW f \in facts(id)
               PROVE  Proper(f, gen.types \cup T)
    OBVIOUS
  <2>1. v[id].type \in gen.types \cup T
    OBVIOUS
  <2> DEFINE types == gen.types \cup T
  <2> HIDE DEF types, v
  <2>2. \A n : n \notin TypeNames =>
          /\ \A a : Proper(Fact("variable", n, <<a>>), types)
          /\ \A a, b : Proper(Fact("variable", n, <<a, b>>), types)
    BY ProperFacts
  <2>3. \A a, b : b \in types => Proper(Fact("variable", "type", <<a, b>>), types)
    BY ProperFacts
  <2>4. v[id].type \in types
    BY <2>1 DEF types
  <2>5. Proper(f, types)
    BY <2>2, <2>3, <2>4 DEF TypeNames
  <2>6. QED
    BY <2>5 DEF types
<1> HIDE DEF F, T
<1>5. /\ IsGenerator(gen') /\ gen'.cm = PopContext(gen.cm)
      /\ gen'.facts = gen.facts \cup F /\ gen'.types = gen.types \cup T
  BY <1>1, <1>2, <1>3 DEF Ready, IsGenerator, GeneratorFields, WriteFacts
<1>6. /\ IsManager(gen'.cm) /\ gen'.cm.iFunctionCtx = NoFunction
      /\ gen'.cm.contexts = <<ModuleContext>>
  <2>1. gen.cm.contexts = <<ModuleContext, OfFunction>>
    BY <1>1 DEF Inv, Stack, InFunction, InBlock_
  <2>2. Front(gen.cm.contexts) = <<ModuleContext>> /\ Last(gen.cm.contexts) = OfFunction
    BY <2>1, StackOfTwo
  <2>3. QED
    BY <1>2, <1>5, <2>2, Popping, NoFunctionContext DEF Ready
<1>7. at' \in Counters
  BY <1>1 DEF Inv, Place, Counters, Counter
<1>8. Place'
  BY <1>1, <1>7 DEF Inv, Place, Stages, InModule, InFunction, InBlock_, Prog
<1>9. ModuleContext' = ModuleContext
  BY <1>1 DEF ModuleContext, Mod, Prog
<1>10. Stack'
  BY <1>1, <1>6, <1>9 DEF Stack, InModule, InFunction, InBlock_
<1>11. HasTypes(gen') /\ Grows(gen, gen')
  BY <1>2, <1>4, <1>5 DEF HasTypes, Grows, Proper
<1>12. QED
  BY <1>5, <1>8, <1>10, <1>11 DEF Inv

LEMMA StepLeaveModule ==
  ASSUME Inv, LeaveModule
  PROVE  Inv' /\ Grows(gen, gen')
<1> DEFINE F == {Fact("type", "alloc_size", << <<t>>, Mod.sizes[t] >>) :
                   t \in gen.types \cap DOMAIN Mod.sizes}
<1>1. /\ pc = "function" /\ pc' = "module" /\ module' = module + 1
      /\ UNCHANGED <<program, at>> /\ gen' = WriteFacts([gen EXCEPT !.cm = <<>>], F)
  BY DEF LeaveModule
<1>2. \A f \in F : Proper(f, gen.types)
  <2>1. \A n : n \notin TypeNames => \A a, b : Proper(Fact("type", n, <<a, b>>), gen.types)
    BY ProperFacts
  <2>2. QED
    BY <2>1 DEF TypeNames
<1> HIDE DEF F
<1>3. /\ IsGenerator(gen') /\ gen'.cm = <<>>
      /\ gen'.facts = gen.facts \cup F /\ gen'.types = gen.types
  BY <1>1 DEF Inv, IsGenerator, GeneratorFields, WriteFacts
<1>4. Place'
  BY <1>1 DEF Inv, Place, Stages, InModule, InFunction, InBlock_, Counter
<1>5. Stack'
  BY <1>1, <1>3 DEF Stack, InModule, InFunction, InBlock_
<1>6. HasTypes(gen') /\ Grows(gen, gen')
  BY <1>2, <1>3 DEF Inv, HasTypes, Grows, Proper
<1>7. QED
  BY <1>3, <1>4, <1>5, <1>6 DEF Inv
-----------------------------------------------------------------------------
(* The invariant, and what it says of every program.                       *)

LEMMA StepStutter ==
  ASSUME Inv, UNCHANGED vars
  PROVE  Inv' /\ Grows(gen, gen')
<1>1. Place'
  BY DEF vars, Inv, Place, Stages, InModule, InFunction, InBlock_, Prog, Mod, Fun, Blk
<1>2. Stack'
  BY DEF vars, Inv, Stack, ModuleContext, OfFunction, OfBlock, OfInstruction, Prog, Mod, Fun, Blk
<1>3. QED
  BY <1>1, <1>2 DEF vars, Inv, HasTypes, Grows

LEMMA StepInv ==
  ASSUME Inv, [Next]_vars
  PROVE  Inv' /\ (ApplySignatures \/ Grows(gen, gen'))
<1>1. CASE Finish \/ ParseFails
  BY <1>1, StepFinish
<1>2. CASE EnterModule
  BY <1>2, StepEnterModule
<1>3. CASE NextGlobal \/ NoMoreGlobals \/ NextAlias \/ WriteOptions
  BY <1>3, StepOutside
<1>4. CASE EnterFunction
  BY <1>4, StepEnterFunction
<1>5. CASE NextParameter \/ NoMoreParameters
  BY <1>5, StepParameters
<1>6. CASE ApplySignatures
  BY <1>6, StepApplySignatures
<1>7. CASE EnterBlock
  BY <1>7, StepEnterBlock
<1>8. CASE EnterInstruction
  BY <1>8, StepEnterInstruction
<1>9. CASE NextRequest
  BY <1>9, StepNextRequest
<1>10. CASE LeaveInstruction
  BY <1>10, StepLeaveInstruction
<1>11. CASE LeaveBlock
  BY <1>11, StepLeaveBlock
<1>12. CASE LeaveFunction
  BY <1>12, StepLeaveFunction
<1>13. CASE LeaveModule
  BY <1>13, StepLeaveModule
<1>14. CASE UNCHANGED vars
  BY <1>14, StepStutter
<1>15. QED
  BY <1>1, <1>2, <1>3, <1>4, <1>5, <1>6, <1>7, <1>8, <1>9, <1>10, <1>11, <1>12, <1>13, <1>14
  DEF Next

(* The invariant holds for every list of programs that LLVM could parse.   *)
THEOREM Invariance == Spec => []Inv
<1>1. Inv /\ [Next]_vars => Inv'
  BY StepInv
<1>2. QED
  BY <1>1, InitInv, PTL DEF Spec

LEMMA FunctionOnStack ==
  ASSUME gen.cm.iFunctionCtx = 2, gen.cm.contexts[2] = OfFunction
  PROVE  FunctionContext(gen.cm) = <<at.function>>
<1>1. NoFunction # 2
  BY DEF NoFunction
<1>2. OfFunction.anchor = <<at.function>>
  BY DEF OfFunction, Context
<1>3. QED
  BY <1>1, <1>2, NoFunctionContext DEF FunctionContext

(* The stack of contexts follows the walk of processModule, also over      *)
(* functions that are left early because they have a signature: it is as   *)
(* deep as the walk, and the function on it is the one being visited.      *)
THEOREM ContextsFollow == Spec => []ContextsNested
<1>1. Inv => ContextsNested
  <2> SUFFICES ASSUME Inv PROVE ContextsNested
    OBVIOUS
  <2>1. CASE pc \in {"module", "done", "ParseException"}
    BY <2>1 DEF Inv, Stack, ContextsNested
  <2>2. CASE pc \in {"globals", "aliases", "function"}
    <3>1. gen.cm.contexts = <<ModuleContext>>
      BY <2>2 DEF Inv, Stack, InModule, InFunction
    <3>2. QED
      BY <2>2, <3>1 DEF ContextsNested
  <2>3. CASE pc \in {"params", "signatures", "block"}
    <3>1. gen.cm.contexts = <<ModuleContext, OfFunction>> /\ gen.cm.iFunctionCtx = 2
      BY <2>3 DEF Inv, Stack, InFunction, InBlock_
    <3>2. gen.cm.contexts[2] = OfFunction /\ Len(gen.cm.contexts) = 2
      BY <3>1
    <3>3. FunctionContext(gen.cm) = <<at.function>>
      BY <3>1, <3>2, FunctionOnStack
    <3>4. QED
      BY <2>3, <3>2, <3>3 DEF ContextsNested
  <2>4. CASE pc = "instr"
    <3>1. gen.cm.contexts = <<ModuleContext, OfFunction, OfBlock>> /\ gen.cm.iFunctionCtx = 2
      BY <2>4 DEF Inv, Stack, InFunction
    <3>2. gen.cm.contexts[2] = OfFunction /\ Len(gen.cm.contexts) = 3
      BY <3>1
    <3>3. FunctionContext(gen.cm) = <<at.function>>
      BY <3>1, <3>2, FunctionOnStack
    <3>4. QED
      BY <2>4, <3>2, <3>3 DEF ContextsNested
  <2>5. CASE pc = "visit"
    <3>1. PICK p : gen.cm.contexts = <<ModuleContext, OfFunction, OfBlock, OfInstruction(p)>>
      BY <2>5 DEF Inv, Stack
    <3>2. gen.cm.iFunctionCtx = 2
      BY <2>5 DEF Inv, Stack, InFunction
    <3>3. gen.cm.contexts[2] = OfFunction /\ Len(gen.cm.contexts) = 4
      BY <3>1
    <3>4. FunctionContext(gen.cm) = <<at.function>>
      BY <3>2, <3>3, FunctionOnStack
    <3>5. QED
      BY <2>5, <3>3, <3>4 DEF ContextsNested
  <2>6. CASE pc = "invalid_argument"
    BY <2>6 DEF ContextsNested
  <2>7. QED
    BY <2>1, <2>2, <2>3, <2>4, <2>5, <2>6 DEF Inv, Place, Stages
<1>2. QED
  BY <1>1, Invariance, PTL

(* No fact ever mentions a type that writeTypes is not going to describe,  *)
(* whatever the instructions, constants, globals and functions are: what   *)
(* the visitor writes, and what is cached with a variable first.           *)
THEOREM TypesOfFactsRecorded == Spec => []TypesRecorded
<1>1. Inv => TypesRecorded
  BY DEF Inv, HasTypes, TypesRecorded
<1>2. QED
  BY <1>1, Invariance, PTL

(* A fact that is written stays written, and only writing the signatures   *)
(* of a function adds to the predicates of signatures.                     *)
THEOREM OnlySignaturesSign == Spec => [][ApplySignatures \/ Grows(gen, gen')]_vars
<1>1. Inv /\ [Next]_vars => [ApplySignatures \/ Grows(gen, gen')]_vars
  BY StepInv
<1>2. QED
  BY <1>1, Invariance, PTL DEF Spec
-----------------------------------------------------------------------------
(* Signatures.  What a component of the file stands for, and what a        *)
(* function gets from all of the file: the terms of SignaturesComplete.    *)

ArgumentValues(value) ==
  [k \in DOMAIN value.items |->
     IF value.items[k].json = "str" THEN "@" \o value.items[k].value ELSE value.items[k].value]

Part(name, component) ==
  LET part == component.members[1]
  IN IF part.key \in DOMAIN Arguments
     THEN { << <<"signature", part.key>>, "@" \o name >>
            \o ArgumentValues(part.value) }
     ELSE {}

PartIfMatching(F, member, n) ==
  LET part == member.value.items[n].members[1]
  IN IF F.demangled \in member.key.matches /\ part.key \in DOMAIN Arguments
     THEN { << <<"signature", part.key>>, "@" \o F.name >>
            \o ArgumentValues(part.value) }
     ELSE {}

Signed(F) ==
  UNION {UNION {UNION {PartIfMatching(F, member, n)
      : n \in DOMAIN member.value.items}
      : member \in ToSet(file.members)}
      : file \in ToSet(Prog.signatures)}

LEMMA PartOfMatching ==
  ASSUME NEW F, NEW member, NEW n
  PROVE  PartIfMatching(F, member, n) =
           IF F.demangled \in member.key.matches THEN Part(F.name, member.value.items[n]) ELSE {}
  BY DEF PartIfMatching, Part

(* A loop that has not thrown has made all its turns. *)
LEMMA NothingThrown ==
  ASSUME NEW turns, ~UpToThrow(turns).thrown
  PROVE  /\ \A i \in DOMAIN turns : ~turns[i].thrown
         /\ UpToThrow(turns).produced = UNION {turns[i].produced : i \in DOMAIN turns}
<1> DEFINE throws == {i \in DOMAIN turns : turns[i].thrown}
           run == {i \in DOMAIN turns : \A j \in throws : i <= j}
<1>1. throws = {}
  BY DEF UpToThrow
<1>2. run = DOMAIN turns
  BY <1>1
<1>3. UpToThrow(turns).produced = UNION {turns[i].produced : i \in run}
  BY DEF UpToThrow
<1>4. QED
  BY <1>1, <1>2, <1>3

LEMMA ArgumentsWritten ==
  ASSUME NEW type \in DOMAIN Arguments, NEW function, NEW value, ListIfArray(value),
         ~WritePtsSignature(type, function, value).thrown
  PROVE  WritePtsSignature(type, function, value).produced =
           { << <<"signature", type>>, "@" \o function >> \o ArgumentValues(value) }
<1> DEFINE expected == Arguments[type]
           extracted == [i \in 1 .. Len(expected) |-> ExtractFromArray(value.items[i], expected[i])]
           t == [i \in 1 .. Len(expected) |-> extracted[i][1]]
           u == ArgumentValues(value)
           head == << <<"signature", type>>, "@" \o function >>
<1>1. /\ value.json = "array"
      /\ Len(value.items) = Len(expected)
      /\ \A i \in 1 .. Len(expected) : extracted[i] # <<>>
      /\ WritePtsSignature(type, function, value).produced = {head \o t}
  BY DEF WritePtsSignature, Threw, Returned
<1>2. DOMAIN value.items = 1 .. Len(expected)
  BY <1>1, ListIsSeq DEF ListIfArray
<1>3. \A i \in 1 .. Len(expected) : extracted[i][1] = IF value.items[i].json = "str"
                                                      THEN "@" \o value.items[i].value
                                                      ELSE value.items[i].value
  <2> SUFFICES ASSUME NEW i \in 1 .. Len(expected)
               PROVE  extracted[i][1] = IF value.items[i].json = "str"
                                        THEN "@" \o value.items[i].value
                                        ELSE value.items[i].value
    OBVIOUS
  <2>1. extracted[i] = ExtractFromArray(value.items[i], expected[i])
    OBVIOUS
  <2>2. extracted[i] # <<>>
    BY <1>1
  <2> HIDE DEF extracted, expected
  <2>3. QED
    BY <2>1, <2>2 DEF ExtractFromArray
<1>4. t = u
  BY <1>2, <1>3 DEF ArgumentValues
<1> HIDE DEF t, u, head
<1>5. WritePtsSignature(type, function, value).produced = {head \o u}
  BY <1>1, <1>4
<1>6. QED
  BY <1>5 DEF head, u

LEMMA ComponentWritten ==
  ASSUME NEW name, NEW c, ~EmitComponent(name, c).thrown,
         c.json = "object" /\ Len(c.members) = 1 => ListIfArray(c.members[1].value)
  PROVE  EmitComponent(name, c).produced = Part(name, c)
<1> DEFINE type == c.members[1].key
           value == c.members[1].value
<1>1. c.json = "object" /\ Len(c.members) = 1
  BY DEF EmitComponent, Threw
<1>2. CASE type \in OtherAnalyses
  <2>1. type \notin DOMAIN Arguments
    BY <1>2 DEF OtherAnalyses, Arguments
  <2>2. EmitComponent(name, c).produced = {}
    BY <1>1, <1>2 DEF EmitComponent, Returned
  <2>3. QED
    BY <2>1, <2>2 DEF Part
<1>3. CASE type \notin OtherAnalyses /\ type \in DOMAIN Arguments
  <2>1. EmitComponent(name, c) = WritePtsSignature(type, name, value)
    BY <1>1, <1>3 DEF EmitComponent
  <2>2. ListIfArray(value)
    BY <1>1
  <2>3. Part(name, c) = { << <<"signature", type>>, "@" \o name >> \o ArgumentValues(value) }
    BY <1>3 DEF Part
  <2> HIDE DEF type, value
  <2>4. ~WritePtsSignature(type, name, value).thrown /\ type \in DOMAIN Arguments
    BY <1>3, <2>1 DEF type
  <2>5. WritePtsSignature(type, name, value).produced =
          { << <<"signature", type>>, "@" \o name >> \o ArgumentValues(value) }
    BY <2>2, <2>4, ArgumentsWritten
  <2>6. QED
    BY <2>1, <2>3, <2>5
<1>4. CASE type \notin OtherAnalyses /\ type \notin DOMAIN Arguments
  BY <1>1, <1>4 DEF EmitComponent, Threw
<1>5. QED
  BY <1>2, <1>3, <1>4

LEMMA ComponentsWritten ==
  ASSUME NEW name, NEW components, ~EmitSignatures(name, components).thrown,
         \A n \in DOMAIN components :
           components[n].json = "object" /\ Len(components[n].members) = 1
             => ListIfArray(components[n].members[1].value)
  PROVE  EmitSignatures(name, components).produced =
           UNION {Part(name, components[n]) : n \in DOMAIN components}
<1> DEFINE turns == [i \in DOMAIN components |-> EmitComponent(name, components[i])]
<1>1. EmitSignatures(name, components) = UpToThrow(turns)
  BY DEF EmitSignatures
<1>2. \A i \in DOMAIN components : turns[i] = EmitComponent(name, components[i])
  OBVIOUS
<1>3. DOMAIN turns = DOMAIN components
  OBVIOUS
<1> HIDE DEF turns
<1>4. /\ \A i \in DOMAIN turns : ~turns[i].thrown
      /\ EmitSignatures(name, components).produced = UNION {turns[i].produced : i \in DOMAIN turns}
  BY <1>1, NothingThrown
<1>5. \A i \in DOMAIN components : turns[i].produced = Part(name, components[i])
  BY <1>2, <1>3, <1>4, ComponentWritten
<1>6. QED
  BY <1>3, <1>4, <1>5
(* functions_with_signatures holds what the file has, in whatever order. *)
IsEntry(s, member) == s.regex = member.key /\ s.components = member.value.items

SignaturesRead ==
  /\ \A file \in ToSet(Prog.signatures) :
       /\ file.json = "object"
       /\ \A member \in ToSet(file.members) : /\ member.value.json = "array"
                                              /\ \E i \in DOMAIN signatures :
                                                   IsEntry(signatures[i], member)
  /\ \A i \in DOMAIN signatures : \E file \in ToSet(Prog.signatures) :
       \E member \in ToSet(file.members) : IsEntry(signatures[i], member)

(* What LLVM's reader of JSON guarantees of a component of the file. *)
LEMMA ComponentsWellFormed ==
  ASSUME Place, SignaturesRead, NEW i \in DOMAIN signatures
  PROVE  \A n \in DOMAIN signatures[i].components :
           LET c == signatures[i].components[n]
           IN c.json = "object" /\ Len(c.members) = 1 => ListIfArray(c.members[1].value)
<1>0. PICK file \in ToSet(Prog.signatures) :
        \E member \in ToSet(file.members) : IsEntry(signatures[i], member)
  BY DEF SignaturesRead
<1>1. PICK member \in ToSet(file.members) : IsEntry(signatures[i], member)
  BY <1>0
<1>2. file.json = "object" /\ member.value.json = "array"
  BY <1>1 DEF SignaturesRead
<1>3. SignaturesAssumption(file)
  BY ProgramsAssumption DEF Place, Prog, ToSet
<1>4. PICK m \in DOMAIN file.members : member = file.members[m]
  BY DEF ToSet
<1>5. \A n \in DOMAIN member.value.items :
        member.value.items[n].json = "object" =>
          /\ IsList(member.value.items[n].members)
          /\ \A k \in DOMAIN member.value.items[n].members :
               ListIfArray(member.value.items[n].members[k].value)
  BY <1>2, <1>3, <1>4 DEF SignaturesAssumption
<1>6. SUFFICES ASSUME NEW n \in DOMAIN member.value.items,
                      member.value.items[n].json = "object",
                      Len(member.value.items[n].members) = 1
               PROVE  ListIfArray(member.value.items[n].members[1].value)
  BY <1>1 DEF IsEntry
<1>7. DOMAIN member.value.items[n].members = 1 .. Len(member.value.items[n].members)
  BY <1>5, <1>6, ListIsSeq
<1>8. QED
  BY <1>5, <1>6, <1>7

(* What applying the signatures writes, unless it throws. *)
LEMMA EmittedSigned ==
  ASSUME Place, SignaturesRead, ~EmitMatchingSignatures.thrown
  PROVE  EmitMatchingSignatures.produced = Signed(Fun)
<1> DEFINE turn(i) == IF i \in Matching THEN EmitSignatures(Fun.name, signatures[i].components)
                      ELSE Returned({})
           turns == [i \in DOMAIN signatures |-> turn(i)]
<1>1. EmitMatchingSignatures = UpToThrow(turns)
  BY DEF EmitMatchingSignatures
<1>2. DOMAIN turns = DOMAIN signatures /\ \A i \in DOMAIN signatures : turns[i] = turn(i)
  OBVIOUS
<1> HIDE DEF turns
<1>3. /\ \A i \in DOMAIN signatures : ~turn(i).thrown
      /\ EmitMatchingSignatures.produced = UNION {turn(i).produced : i \in DOMAIN signatures}
  BY <1>1, <1>2, NothingThrown
<1>4. ASSUME NEW i \in DOMAIN signatures
      PROVE  turn(i).produced =
               UNION {IF Fun.demangled \in signatures[i].regex.matches
                      THEN Part(Fun.name, signatures[i].components[n]) ELSE {}
                      : n \in DOMAIN signatures[i].components}
  <2>1. CASE i \in Matching
    <3>1. ~EmitSignatures(Fun.name, signatures[i].components).thrown
      BY <1>3, <2>1
    <3>2. EmitSignatures(Fun.name, signatures[i].components).produced =
            UNION {Part(Fun.name, signatures[i].components[n])
                   : n \in DOMAIN signatures[i].components}
      BY <3>1, ComponentsWellFormed, ComponentsWritten
    <3>3. Fun.demangled \in signatures[i].regex.matches
      BY <2>1 DEF Matching
    <3>4. QED
      BY <2>1, <3>2, <3>3
  <2>2. CASE i \notin Matching
    <3>1. Fun.demangled \notin signatures[i].regex.matches
      BY <2>2 DEF Matching
    <3>2. turn(i).produced = {}
      BY <2>2 DEF Returned
    <3>3. QED
      BY <3>1, <3>2
  <2>3. QED
    BY <2>1, <2>2
<1> DEFINE of(i) == UNION {IF Fun.demangled \in signatures[i].regex.matches
                           THEN Part(Fun.name, signatures[i].components[n]) ELSE {}
                           : n \in DOMAIN signatures[i].components}
           by(member) == UNION {PartIfMatching(Fun, member, n) : n \in DOMAIN member.value.items}
<1>5. ASSUME NEW i \in DOMAIN signatures, NEW member, IsEntry(signatures[i], member)
      PROVE  of(i) = by(member)
  BY <1>5, PartOfMatching DEF IsEntry
<1> HIDE DEF turn
<1>6. EmitMatchingSignatures.produced = UNION {of(i) : i \in DOMAIN signatures}
  BY <1>3, <1>4
<1>7. Signed(Fun) = UNION {UNION {by(member) : member \in ToSet(file.members)}
                           : file \in ToSet(Prog.signatures)}
  BY DEF Signed
<1> HIDE DEF of, by
<1>8. \A x : (\E i \in DOMAIN signatures : x \in of(i))
             <=> (\E file \in ToSet(Prog.signatures) : \E member \in ToSet(file.members) :
                    x \in by(member))
  BY <1>5 DEF SignaturesRead
<1>9. QED
  BY <1>6, <1>7, <1>8

(* Reading the file. *)
LEMMA ReadingSignatures ==
  ASSUME Place, EnterModule, pc' = "globals"
  PROVE  SignaturesRead'
<1>1. Prog' = Prog
  BY DEF EnterModule, Prog
<1>2. IsList(Prog.signatures) /\ Len(Prog.signatures) <= 1
  BY ProgramsAssumption DEF Place, Prog
<1>3. CASE Prog.signatures = <<>>
  <2>1. ToSet(Prog.signatures) = {} /\ DOMAIN <<>> = {}
    BY <1>3 DEF ToSet
  <2>2. signatures' = <<>>
    BY <1>3 DEF EnterModule
  <2>3. QED
    BY <1>1, <2>1, <2>2 DEF SignaturesRead
<1>4. CASE Prog.signatures # <<>>
  <2> DEFINE file == Prog.signatures[1]
             read == PreprocessSignatures(file)
             entry(i) == [regex |-> file.members[i].key, components |-> file.members[i].value.items]
             n == Len(file.members)
  <2>1. PICK p \in Bijection(DOMAIN read.produced, DOMAIN read.produced) :
          signatures' = [i \in DOMAIN read.produced |-> read.produced[p[i]]] /\ ~read.thrown
    BY <1>4 DEF EnterModule
  <2>2. /\ file.json = "object" /\ read.produced = [i \in 1 .. n |-> entry(i)]
        /\ \A i \in 1 .. n : file.members[i].value.json = "array"
    BY <2>1 DEF PreprocessSignatures, Threw, Returned
  <2>3. ToSet(Prog.signatures) = {file}
    <3>1. DOMAIN Prog.signatures = 1 .. Len(Prog.signatures) /\ Len(Prog.signatures) \in Nat
      BY <1>2, ListIsSeq
    <3>2. Len(Prog.signatures) # 0
      BY <1>2, <1>4, ListIsSeq, EmptySeq
    <3> DEFINE k == Len(Prog.signatures)
    <3>3. k \in Nat /\ k # 0 /\ k <= 1
      BY <1>2, <3>1, <3>2
    <3> HIDE DEF k
    <3>4. k = 1
      BY <3>3
    <3>5. QED
      BY <3>1, <3>4 DEF ToSet, k
  <2>4. 1 \in DOMAIN Prog.signatures
    BY <1>2, <1>4, <2>3, ListIsSeq DEF ToSet
  <2>5. SignaturesAssumption(file)
    BY <2>4, ProgramsAssumption DEF Place, Prog
  <2>6. DOMAIN file.members = 1 .. n
    BY <2>2, <2>5, ListIsSeq DEF SignaturesAssumption
  <2>7. /\ DOMAIN signatures' = 1 .. n
        /\ \A i \in 1 .. n : p[i] \in 1 .. n /\ signatures'[i] = entry(p[i])
        /\ \A j \in 1 .. n : \E i \in 1 .. n : p[i] = j
    BY <2>1, <2>2 DEF Bijection, Injection, Surjection
  <2>8. \A j : IsEntry(entry(j), file.members[j])
    BY DEF IsEntry
  <2> HIDE DEF entry, read, n, file
  <2>9. /\ \A member \in ToSet(file.members) :
             /\ member.value.json = "array"
             /\ \E i \in 1 .. n : IsEntry(signatures'[i], member)
        /\ \A i \in 1 .. n : \E member \in ToSet(file.members) : IsEntry(signatures'[i], member)
    <3>1. \A j \in 1 .. n : \E i \in 1 .. n : IsEntry(signatures'[i], file.members[j])
      BY <2>7, <2>8
    <3>2. \A i \in 1 .. n : p[i] \in 1 .. n /\ IsEntry(signatures'[i], file.members[p[i]])
      BY <2>7, <2>8
    <3>3. \A j \in 1 .. n : file.members[j] \in ToSet(file.members)
      BY <2>6 DEF ToSet
    <3>4. \A member \in ToSet(file.members) : \E j \in 1 .. n : member = file.members[j]
      BY <2>6 DEF ToSet
    <3>5. \A j \in 1 .. n : file.members[j].value.json = "array"
      BY <2>2
    <3>6. \A member \in ToSet(file.members) :
            member.value.json = "array" /\ \E i \in 1 .. n : IsEntry(signatures'[i], member)
      BY <3>1, <3>4, <3>5
    <3>7. \A i \in 1 .. n : \E member \in ToSet(file.members) : IsEntry(signatures'[i], member)
      BY <3>2, <3>3
    <3>8. QED
      BY <3>6, <3>7
  <2>10. QED
    BY <1>1, <2>2, <2>3, <2>7, <2>9 DEF SignaturesRead
<1>5. QED
  BY <1>3, <1>4
(* The functions whose signatures have been applied. *)
Applied(m, i) ==
  /\ m \in DOMAIN Prog.modules /\ i \in DOMAIN Prog.modules[m].functions
  /\ \/ m < module
     \/ /\ m = module /\ pc \in InModule
        /\ i < at.function \/ (i = at.function /\ pc \in {"block", "instr", "visit"})

SignedAt(m, i) == Signed(Prog.modules[m].functions[i])

(* As long as nothing was thrown, their signatures are in the facts, and   *)
(* no others.                                                              *)
SignaturesSoFar ==
  pc # "invalid_argument" =>
    /\ \A m, i \in Nat : Applied(m, i) => \A f \in SignedAt(m, i) : f \in gen.facts /\ IsSignature(f)
    /\ \A f \in gen.facts : f[1][1] = "signature" =>
         \E m, i \in Nat : Applied(m, i) /\ f \in SignedAt(m, i)
    /\ pc \in InModule => SignaturesRead
    /\ pc \in {"globals", "aliases"} => at.function = 1
    /\ pc = "done" => module > Len(Prog.modules)

LEMMA ListNumbered ==
  ASSUME NEW l, IsList(l)
  PROVE  Len(l) \in Nat /\ \A i \in DOMAIN l : i \in Nat \ {0} /\ i <= Len(l)
<1> DEFINE n == Len(l)
<1>1. n \in Nat /\ DOMAIN l = 1 .. n
  BY ListIsSeq
<1> HIDE DEF n
<1>2. n \in Nat /\ \A i \in DOMAIN l : i \in Nat \ {0} /\ i <= n
  BY <1>1
<1>3. QED
  BY <1>2 DEF n

LEMMA FunctionsNumbered ==
  ASSUME Place, NEW m \in DOMAIN Prog.modules
  PROVE  /\ m \in Nat \ {0} /\ m <= Len(Prog.modules) /\ Len(Prog.modules) \in Nat
         /\ \A i \in DOMAIN Prog.modules[m].functions :
              i \in Nat \ {0} /\ i <= Len(Prog.modules[m].functions)
         /\ Len(Prog.modules[m].functions) \in Nat
<1>1. IsList(Prog.modules) /\ IsList(Prog.modules[m].functions)
  BY ProgramsAssumption DEF Place, Prog
<1>2. QED
  BY <1>1, ListNumbered

LEMMA SignedKept ==
  ASSUME program' = program
  PROVE  /\ Prog' = Prog
         /\ \A m, i : SignedAt(m, i)' = SignedAt(m, i)
<1>1. Prog' = Prog
  BY DEF Prog
<1>2. QED
  BY <1>1 DEF SignedAt, Signed, PartIfMatching

(* The steps that apply nothing. *)
LEMMA SignaturesKept ==
  ASSUME SignaturesSoFar, pc # "invalid_argument", pc' # "invalid_argument",
         program' = program, Grows(gen, gen'),
         \A m, i \in Nat : Applied(m, i)' <=> Applied(m, i),
         pc' \in InModule => SignaturesRead',
         pc' \in {"globals", "aliases"} => at'.function = 1,
         pc' = "done" => module' > Len(Prog.modules)
  PROVE  SignaturesSoFar'
<1>1. Prog' = Prog /\ \A m, i : SignedAt(m, i)' = SignedAt(m, i)
  BY SignedKept
<1>2. ASSUME NEW m \in Nat, NEW i \in Nat, Applied(m, i)'
      PROVE  \A f \in SignedAt(m, i)' : f \in gen'.facts /\ IsSignature(f)
  BY <1>1, <1>2 DEF SignaturesSoFar, Grows
<1>3. ASSUME NEW f \in gen'.facts, f[1][1] = "signature"
      PROVE  \E m, i \in Nat : Applied(m, i)' /\ f \in SignedAt(m, i)'
  <2>1. f \in gen.facts
    BY <1>3 DEF Grows
  <2>2. PICK m \in Nat, i \in Nat : Applied(m, i) /\ f \in SignedAt(m, i)
    BY <1>3, <2>1 DEF SignaturesSoFar
  <2>3. QED
    BY <1>1, <2>2
<1>4. QED
  BY <1>1, <1>2, <1>3 DEF SignaturesSoFar

LEMMA SignaturesStay ==
  ASSUME SignaturesRead, UNCHANGED <<program, signatures>>
  PROVE  SignaturesRead'
  BY DEF SignaturesRead, Prog

LEMMA InitSignatures ==
  ASSUME Init
  PROVE  SignaturesSoFar
<1>1. gen.facts = {} /\ pc = "module" /\ module = 1
  BY DEF Init, NewGenerator
<1>2. Inv
  BY InitInv
<1>3. \A m, i \in Nat : ~Applied(m, i)
  BY <1>1, <1>2, FunctionsNumbered DEF Inv, Applied, InModule
<1>4. QED
  BY <1>1, <1>3 DEF SignaturesSoFar, InModule

(* Applying the signatures of one function more. *)
LEMMA SignaturesApplied ==
  ASSUME Inv, SignaturesSoFar, ApplySignatures
  PROVE  SignaturesSoFar'
<1>1. SUFFICES ASSUME pc' # "invalid_argument" PROVE SignaturesSoFar'
  BY DEF SignaturesSoFar
<1>2. /\ pc = "signatures" /\ UNCHANGED <<program, module, signatures>>
      /\ ~EmitMatchingSignatures.thrown
      /\ \/ pc' = "function" /\ at' = [at EXCEPT !.function = @ + 1]
         \/ pc' = "block" /\ at' = [at EXCEPT !.block = 1]
  BY <1>1 DEF ApplySignatures
<1>3. SignaturesRead
  BY <1>2 DEF SignaturesSoFar, InModule
<1>4. EmitMatchingSignatures.produced = Signed(Fun)
  BY <1>2, <1>3, EmittedSigned DEF Inv
<1>5. gen'.facts = gen.facts \cup Signed(Fun)
  <2> DEFINE signed == WriteFacts(gen, EmitMatchingSignatures.produced)
  <2>1. gen' = IF Matching = {} THEN signed ELSE [signed EXCEPT !.cm = PopContext(@)]
    BY DEF ApplySignatures
  <2>2. IsGenerator(signed) /\ signed.facts = gen.facts \cup Signed(Fun)
    BY <1>4 DEF Inv, IsGenerator, GeneratorFields, WriteFacts
  <2> HIDE DEF signed
  <2>3. QED
    BY <2>1, <2>2 DEF IsGenerator, GeneratorFields
<1>6. Prog' = Prog /\ \A m, i : SignedAt(m, i)' = SignedAt(m, i)
  BY <1>2, SignedKept
<1>7. /\ module \in DOMAIN Prog.modules /\ at.function \in DOMAIN Prog.modules[module].functions
      /\ Signed(Fun) = SignedAt(module, at.function)
  BY <1>2, PlaceExists DEF Inv, InModule, InFunction, Mod, Fun, SignedAt
<1>8. module \in Nat /\ at.function \in Nat
  BY <1>7, FunctionsNumbered DEF Inv
<1>9. \A m, i \in Nat : Applied(m, i)' <=> Applied(m, i) \/ (m = module /\ i = at.function)
  <2> SUFFICES ASSUME NEW m \in Nat, NEW i \in Nat
               PROVE  Applied(m, i)' <=> Applied(m, i) \/ (m = module /\ i = at.function)
    OBVIOUS
  <2>1. Applied(m, i) <=> /\ m \in DOMAIN Prog.modules /\ i \in DOMAIN Prog.modules[m].functions
                          /\ m < module \/ (m = module /\ i < at.function)
    BY <1>2 DEF Applied, InModule
  <2>2. CASE pc' = "function" /\ at' = [at EXCEPT !.function = @ + 1]
    <3>1. at'.function = at.function + 1
      BY <2>2 DEF Inv, Place, Counters
    <3>2. Applied(m, i)' <=> /\ m \in DOMAIN Prog.modules /\ i \in DOMAIN Prog.modules[m].functions
                             /\ m < module \/ (m = module /\ i < at.function + 1)
      BY <1>2, <1>6, <2>2, <3>1 DEF Applied, InModule
    <3>3. QED
      BY <1>7, <1>8, <2>1, <3>2
  <2>3. CASE pc' = "block" /\ at' = [at EXCEPT !.block = 1]
    <3>1. at'.function = at.function
      BY <2>3 DEF Inv, Place, Counters
    <3>2. Applied(m, i)' <=> /\ m \in DOMAIN Prog.modules /\ i \in DOMAIN Prog.modules[m].functions
                             /\ \/ m < module
                                \/ m = module /\ (i < at.function \/ i = at.function)
      BY <1>2, <1>6, <2>3, <3>1 DEF Applied, InModule
    <3>3. QED
      BY <1>7, <2>1, <3>2
  <2>4. QED
    BY <1>2, <2>2, <2>3
<1>10. ASSUME NEW m \in Nat, NEW i \in Nat, Applied(m, i)'
       PROVE  \A f \in SignedAt(m, i)' : f \in gen'.facts /\ IsSignature(f)
  <2>1. CASE Applied(m, i)
    BY <1>2, <1>5, <1>6, <2>1 DEF SignaturesSoFar
  <2>2. CASE m = module /\ i = at.function
    BY <1>4, <1>5, <1>6, <1>7, <2>2, EmittedFacts
  <2>3. QED
    BY <1>9, <1>10, <2>1, <2>2
<1>11. ASSUME NEW f \in gen'.facts, f[1][1] = "signature"
       PROVE  \E m, i \in Nat : Applied(m, i)' /\ f \in SignedAt(m, i)'
  <2>1. CASE f \in gen.facts
    <3>1. PICK m \in Nat, i \in Nat : Applied(m, i) /\ f \in SignedAt(m, i)
      BY <1>2, <1>11, <2>1 DEF SignaturesSoFar
    <3>2. QED
      BY <1>6, <1>9, <3>1
  <2>2. CASE f \in Signed(Fun)
    BY <1>6, <1>7, <1>8, <1>9, <2>2
  <2>3. QED
    BY <1>5, <2>1, <2>2
<1>12. SignaturesRead'
  BY <1>2, <1>3, SignaturesStay
<1>13. QED
  BY <1>2, <1>10, <1>11, <1>12 DEF SignaturesSoFar
LEMMA SignaturesOnce ==
  ASSUME Inv, SignaturesSoFar, Next, ~ApplySignatures
  PROVE  SignaturesSoFar'
<1>1. Inv' /\ Grows(gen, gen') /\ program' = program /\ Prog' = Prog
  <2>1. Inv' /\ Grows(gen, gen')
    BY StepInv
  <2>2. program' = program
    BY DEF Next, Finish, ParseFails, EnterModule, NextGlobal, NoMoreGlobals, NextAlias,
           WriteOptions, EnterFunction, NextParameter, NoMoreParameters, ApplySignatures,
           EnterBlock, EnterInstruction, NextRequest, LeaveInstruction, LeaveBlock,
           LeaveFunction, LeaveModule
  <2>3. QED
    BY <2>1, <2>2 DEF Prog
<1>2. SUFFICES ASSUME pc' # "invalid_argument" PROVE SignaturesSoFar'
  BY DEF SignaturesSoFar
<1>3. pc # "invalid_argument"
  BY DEF Next, Finish, ParseFails, EnterModule, NextGlobal, NoMoreGlobals, NextAlias,
         WriteOptions, EnterFunction, NextParameter, NoMoreParameters, ApplySignatures,
         EnterBlock, EnterInstruction, NextRequest, LeaveInstruction, LeaveBlock,
         LeaveFunction, LeaveModule
<1>4. \A m \in DOMAIN Prog.modules : \A i \in DOMAIN Prog.modules[m].functions :
        /\ m \in Nat \ {0} /\ i \in Nat \ {0} /\ m <= Len(Prog.modules)
        /\ i <= Len(Prog.modules[m].functions) /\ Len(Prog.modules[m].functions) \in Nat
  BY FunctionsNumbered DEF Inv
<1>5. /\ module \in Nat /\ at.function \in Nat /\ at \in Counters
  BY DEF Inv, Place, Counters, Counter
<1> DEFINE Function(m, i) == m \in DOMAIN Prog.modules /\ i \in DOMAIN Prog.modules[m].functions
           Same == \A m, i \in Nat : Applied(m, i)' <=> Applied(m, i)
<1>6. CASE Finish \/ ParseFails
  <2>1. pc = "module" /\ pc' \in {"done", "ParseException"} /\ UNCHANGED <<module, at>>
        /\ (pc' = "done" => module > Len(Prog.modules))
    BY <1>6 DEF Finish, ParseFails
  <2>2. Same
    BY <1>1, <2>1 DEF Applied, InModule
  <2>3. QED
    BY <1>1, <1>2, <1>3, <2>1, <2>2, SignaturesKept DEF InModule
<1>7. CASE EnterModule
  <2>1. pc = "module" /\ pc' = "globals" /\ at' = Start /\ UNCHANGED <<program, module>>
    <3>1. pc' \in {"globals", "invalid_argument"}
      <4>1. CASE Prog.signatures = <<>>
        BY <1>7, <4>1 DEF EnterModule
      <4>2. CASE Prog.signatures # <<>>
        BY <1>7, <4>2 DEF EnterModule
      <4>3. QED
        BY <4>1, <4>2
    <3>2. QED
      BY <1>2, <1>7, <3>1 DEF EnterModule
  <2>2. SignaturesRead'
    BY <1>7, <2>1, ReadingSignatures DEF Inv
  <2>3. at'.function = 1
    BY <2>1 DEF Start
  <2>4. ASSUME NEW m \in Nat, NEW i \in Nat
        PROVE  Applied(m, i)' <=> Applied(m, i)
    <3>1. Applied(m, i) <=> Function(m, i) /\ m < module
      BY <2>1 DEF Applied, InModule
    <3>2. Applied(m, i)' <=> Function(m, i) /\ (m < module \/ (m = module /\ i < 1))
      BY <1>1, <2>1, <2>3 DEF Applied, InModule
    <3>3. QED
      BY <1>4, <3>1, <3>2
  <2>5. QED
    BY <1>1, <1>2, <1>3, <2>1, <2>2, <2>3, <2>4, SignaturesKept
<1>8. ASSUME pc \in {"globals", "aliases", "function", "params"},
             pc' \in {"globals", "aliases", "function", "params", "signatures"},
             at'.function = at.function, UNCHANGED <<module, signatures>>,
             pc' \in {"globals", "aliases"} => pc \in {"globals", "aliases"}
      PROVE  SignaturesSoFar'
  <2>1. Same
    BY <1>1, <1>8 DEF Applied, InModule
  <2>2. SignaturesRead'
    BY <1>1, <1>3, <1>8, SignaturesStay DEF SignaturesSoFar, InModule
  <2>3. pc' \in {"globals", "aliases"} => at'.function = 1
    BY <1>3, <1>8 DEF SignaturesSoFar
  <2>4. QED
    BY <1>1, <1>2, <1>3, <1>8, <2>1, <2>2, <2>3, SignaturesKept
<1>9. CASE NextGlobal \/ NoMoreGlobals \/ NextAlias \/ WriteOptions
  <2>1. at'.function = at.function
    BY <1>5, <1>9 DEF NextGlobal, NoMoreGlobals, NextAlias, WriteOptions, Counters
  <2>2. QED
    BY <1>8, <1>9, <2>1 DEF NextGlobal, NoMoreGlobals, NextAlias, WriteOptions
<1>10. CASE EnterFunction \/ NextParameter \/ NoMoreParameters
  <2>1. at'.function = at.function
    BY <1>5, <1>10 DEF EnterFunction, NextParameter, NoMoreParameters, Counters
  <2>2. pc' \in {"signatures", "params"}
    BY <1>10 DEF EnterFunction, NextParameter, NoMoreParameters
  <2>3. QED
    BY <1>8, <1>10, <2>1, <2>2 DEF EnterFunction, NextParameter, NoMoreParameters
<1>11. CASE EnterBlock \/ EnterInstruction \/ NextRequest \/ LeaveInstruction \/ LeaveBlock
  <2>1. at'.function = at.function
    BY <1>5, <1>11 DEF EnterBlock, EnterInstruction, NextRequest, LeaveInstruction, LeaveBlock,
                       Counters
  <2>2. pc \in {"block", "instr", "visit"} /\ pc' \in {"block", "instr", "visit"}
        /\ UNCHANGED <<module, signatures>>
    BY <1>11 DEF EnterBlock, EnterInstruction, NextRequest, LeaveInstruction, LeaveBlock
  <2>3. Same
    BY <1>1, <2>1, <2>2 DEF Applied, InModule
  <2>4. SignaturesRead'
    BY <1>1, <1>3, <2>2, SignaturesStay DEF SignaturesSoFar, InModule
  <2>5. QED
    BY <1>1, <1>2, <1>3, <2>2, <2>3, <2>4, SignaturesKept
<1>12. CASE LeaveFunction
  <2>1. /\ pc = "block" /\ pc' = "function" /\ UNCHANGED <<module, signatures>>
        /\ at'.function = at.function + 1
    BY <1>5, <1>12 DEF LeaveFunction, Counters
  <2>2. ASSUME NEW m \in Nat, NEW i \in Nat
        PROVE  Applied(m, i)' <=> Applied(m, i)
    <3>1. Applied(m, i) <=> Function(m, i) /\ \/ m < module
                                              \/ m = module /\ (i < at.function \/ i = at.function)
      BY <2>1 DEF Applied, InModule
    <3>2. Applied(m, i)' <=> Function(m, i) /\ (m < module \/ (m = module /\ i < at.function + 1))
      BY <1>1, <2>1 DEF Applied, InModule
    <3>3. QED
      BY <1>5, <3>1, <3>2
  <2>3. SignaturesRead'
    BY <1>1, <1>3, <2>1, SignaturesStay DEF SignaturesSoFar, InModule
  <2>4. QED
    BY <1>1, <1>2, <1>3, <2>1, <2>2, <2>3, SignaturesKept
<1>13. CASE LeaveModule
  <2>1. /\ pc = "function" /\ pc' = "module" /\ module' = module + 1
        /\ at.function > Len(Prog.modules[module].functions)
    BY <1>13 DEF LeaveModule, Mod
  <2>2. ASSUME NEW m \in Nat, NEW i \in Nat
        PROVE  Applied(m, i)' <=> Applied(m, i)
    <3>1. Applied(m, i) <=> Function(m, i) /\ (m < module \/ (m = module /\ i < at.function))
      BY <2>1 DEF Applied, InModule
    <3>2. Applied(m, i)' <=> Function(m, i) /\ m < module + 1
      BY <1>1, <2>1 DEF Applied, InModule
    <3>3. Function(m, i) /\ m = module => i < at.function
      BY <1>4, <1>5, <2>1
    <3>4. m < module + 1 <=> m < module \/ m = module
      BY <1>5
    <3>5. QED
      BY <3>1, <3>2, <3>3, <3>4
  <2>3. QED
    BY <1>1, <1>2, <1>3, <2>1, <2>2, SignaturesKept DEF InModule
<1>14. QED
  BY <1>6, <1>7, <1>9, <1>10, <1>11, <1>12, <1>13 DEF Next

LEMMA SignaturesInvariance == Spec => []SignaturesSoFar
<1>1. Inv /\ SignaturesSoFar /\ [Next]_vars => SignaturesSoFar'
  <2> SUFFICES ASSUME Inv, SignaturesSoFar, [Next]_vars PROVE SignaturesSoFar'
    OBVIOUS
  <2>1. CASE ApplySignatures
    BY <2>1, SignaturesApplied
  <2>2. CASE Next /\ ~ApplySignatures
    BY <2>2, SignaturesOnce
  <2>3. CASE UNCHANGED vars
    <3>1. \A m, i : Applied(m, i)' <=> Applied(m, i)
      BY <2>3 DEF vars, Applied, Prog
    <3>2. \A m, i : SignedAt(m, i)' = SignedAt(m, i)
      BY <2>3, SignedKept DEF vars
    <3>3. SignaturesRead' <=> SignaturesRead
      BY <2>3 DEF vars, SignaturesRead, Prog
    <3>4. QED
      BY <2>3, <3>1, <3>2, <3>3 DEF vars, SignaturesSoFar, Prog
  <2>4. QED
    BY <2>1, <2>2, <2>3
<1>2. QED
  BY <1>1, InitSignatures, Invariance, PTL DEF Spec

(* The signatures that the user gave are in the facts when the run ends,   *)
(* all of them and no others: for any file, in whatever order its members  *)
(* come, and any modules and functions.                                    *)
THEOREM SignaturesWritten == Spec => []SignaturesComplete
<1>1. Inv /\ SignaturesSoFar => SignaturesComplete
  <2> SUFFICES ASSUME Inv, SignaturesSoFar, Done PROVE SignaturesComplete
    BY DEF SignaturesComplete
  <2> DEFINE Functions == UNION {ToSet(M.functions) : M \in ToSet(Prog.modules)}
             Written == UNION {Rel("signature", s) : s \in DOMAIN Arguments}
             Wanted == UNION {Signed(f) : f \in Functions}
  <2>1. SignaturesComplete <=> Written = Wanted
    BY DEF SignaturesComplete, Signed, PartIfMatching, ArgumentValues
  <2>2. pc = "done" /\ module > Len(Prog.modules)
    BY DEF Done, SignaturesSoFar
  <2>3. \A m \in DOMAIN Prog.modules : \A i \in DOMAIN Prog.modules[m].functions :
          m \in Nat /\ i \in Nat /\ Applied(m, i)
    BY <2>2, FunctionsNumbered DEF Inv, Place, Counter, Applied
  <2>4. ASSUME NEW f \in Written
        PROVE  f \in Wanted
    <3>1. f \in gen.facts /\ f[1][1] = "signature"
      BY <2>4 DEF Rel
    <3>2. PICK m \in Nat, i \in Nat : Applied(m, i) /\ f \in SignedAt(m, i)
      BY <2>2, <3>1 DEF SignaturesSoFar
    <3>3. Prog.modules[m].functions[i] \in Functions
      BY <3>2 DEF Applied, ToSet
    <3>4. QED
      BY <3>2, <3>3 DEF SignedAt
  <2>5. ASSUME NEW f \in Wanted
        PROVE  f \in Written
    <3>1. PICK F \in Functions : f \in Signed(F)
      BY <2>5
    <3>2. PICK m \in DOMAIN Prog.modules, i \in Nat :
            i \in DOMAIN Prog.modules[m].functions /\ F = Prog.modules[m].functions[i]
      BY <2>3, <3>1 DEF ToSet
    <3>3. m \in Nat /\ Applied(m, i) /\ f \in SignedAt(m, i)
      BY <2>3, <3>1, <3>2 DEF SignedAt
    <3>4. f \in gen.facts /\ IsSignature(f)
      BY <2>2, <3>2, <3>3 DEF SignaturesSoFar
    <3>5. QED
      BY <3>4 DEF IsSignature, Rel
  <2>6. QED
    BY <2>1, <2>4, <2>5
<1>2. QED
  BY <1>1, Invariance, SignaturesInvariance, PTL
-----------------------------------------------------------------------------
(* The result map.  An entity that results can name is in the map under    *)
(* its refmode when it has been described; only operands that are results  *)
(* of instructions may be named before they are visited.                   *)

Needed(e) ==
  \/ e[1] \in {"instr", "func", "const"}
  \/ e[1] = "value" /\ e[4].kind \in {"arg", "instr"}

(* The map also has the texts of constants, which are no refmodes. *)
Long(ref) == \A t : ref # <<t>>

(* From g to h the map grew by entries for what was issued, and all that   *)
(* was issued is in it but for the pairs of Q.                             *)
Maps(g, h, Q) ==
  /\ g.issued \subseteq h.issued /\ DOMAIN g.results \subseteq DOMAIN h.results
  /\ \A k \in DOMAIN h.results : \/ k \in DOMAIN g.results /\ h.results[k] = g.results[k]
                                 \/ <<k, h.results[k]>> \in h.issued
                                 \/ ~Long(k)
  /\ \A p \in h.issued \ g.issued : Needed(p[2]) =>
       p \in Q \/ (Long(p[1]) /\ p[1] \in DOMAIN h.results)

LEMMA MapsSame ==
  ASSUME NEW g, NEW h, h.issued = g.issued, h.results = g.results, NEW Q
  PROVE  Maps(g, h, Q)
  BY DEF Maps

LEMMA MapsTransitive ==
  ASSUME NEW g, NEW h, NEW k, NEW Q, Maps(g, h, Q), Maps(h, k, Q)
  PROVE  Maps(g, k, Q)
<1>1. g.issued \subseteq k.issued /\ DOMAIN g.results \subseteq DOMAIN k.results
  BY DEF Maps
<1>2. ASSUME NEW x \in DOMAIN k.results
      PROVE  \/ x \in DOMAIN g.results /\ k.results[x] = g.results[x]
             \/ <<x, k.results[x]>> \in k.issued
             \/ ~Long(x)
  <2>1. CASE x \in DOMAIN h.results /\ k.results[x] = h.results[x]
    BY <2>1 DEF Maps
  <2>2. CASE ~(x \in DOMAIN h.results /\ k.results[x] = h.results[x])
    BY <2>2 DEF Maps
  <2>3. QED
    BY <2>1, <2>2
<1>3. ASSUME NEW p \in k.issued, p \notin g.issued, Needed(p[2])
      PROVE  p \in Q \/ (Long(p[1]) /\ p[1] \in DOMAIN k.results)
  <2>1. CASE p \in h.issued
    BY <1>3, <2>1 DEF Maps
  <2>2. CASE p \notin h.issued
    BY <1>3, <2>2 DEF Maps
  <2>3. QED
    BY <2>1, <2>2
<1>4. QED
  BY <1>1, <1>2, <1>3 DEF Maps

LEMMA MapsMore ==
  ASSUME NEW g, NEW h, NEW Q, Maps(g, h, {})
  PROVE  Maps(g, h, Q)
  BY DEF Maps

(* What was exempt may be saved later. *)
LEMMA MapsSaved ==
  ASSUME NEW g, NEW h, NEW Q, Maps(g, h, Q),
         \A q \in Q : Long(q[1]) /\ q[1] \in DOMAIN h.results
  PROVE  Maps(g, h, {})
  BY DEF Maps

LEMMA MapsOther ==
  ASSUME NEW g, IsGenerator(g)
  PROVE  /\ \A facts : Maps(g, WriteFacts(g, facts), {})
         /\ \A type : Maps(g, RecordType(g, type), {})
         /\ \A ref, type, name : Maps(g, RecordVariable(g, ref, type, name), {})
<1>1. ASSUME NEW facts PROVE Maps(g, WriteFacts(g, facts), {})
  <2>1. WriteFacts(g, facts).issued = g.issued /\ WriteFacts(g, facts).results = g.results
    BY DEF WriteFacts, IsGenerator, GeneratorFields
  <2>2. QED
    BY <2>1, MapsSame
<1>2. ASSUME NEW type PROVE Maps(g, RecordType(g, type), {})
  <2>1. RecordType(g, type).issued = g.issued /\ RecordType(g, type).results = g.results
    BY DEF RecordType, IsGenerator, GeneratorFields
  <2>2. QED
    BY <2>1, MapsSame
<1>3. ASSUME NEW ref, NEW type, NEW name PROVE Maps(g, RecordVariable(g, ref, type, name), {})
  <2>1. /\ RecordVariable(g, ref, type, name).issued = g.issued
        /\ RecordVariable(g, ref, type, name).results = g.results
    BY DEF RecordVariable, IsGenerator, GeneratorFields
  <2>2. QED
    BY <2>1, MapsSame
<1>4. QED
  BY <1>1, <1>2, <1>3

LEMMA MapsIssue ==
  ASSUME NEW g, IsGenerator(g), NEW ref, NEW e
  PROVE  /\ Maps(g, Issue(g, ref, e), {<<ref, e>>})
         /\ ~Needed(e) => Maps(g, Issue(g, ref, e), {})
         /\ Issue(g, ref, e).issued = g.issued \cup {<<ref, e>>}
         /\ Issue(g, ref, e).results = g.results
<1> DEFINE h == Issue(g, ref, e)
<1>1. h.issued = g.issued \cup {<<ref, e>>} /\ h.results = g.results
  BY DEF Issue, IsGenerator, GeneratorFields
<1> HIDE DEF h
<1>2. \A p \in h.issued \ g.issued : p = <<ref, e>> /\ p[2] = e
  BY <1>1
<1>3. Maps(g, h, {<<ref, e>>})
  BY <1>1, <1>2 DEF Maps
<1>4. ~Needed(e) => Maps(g, h, {})
  BY <1>1, <1>2 DEF Maps
<1>5. QED
  BY <1>1, <1>3, <1>4 DEF h

(* insert keeps what is there, and otherwise takes one of the pairs. *)
LEMMA SavedAll ==
  ASSUME NEW g, IsGenerator(g), NEW pairs
  PROVE  LET h == SaveAll(g, pairs)
         IN /\ IsGenerator(h) /\ h.issued = g.issued
            /\ DOMAIN h.results = DOMAIN g.results \cup {p[1] : p \in pairs}
            /\ \A k \in DOMAIN g.results : h.results[k] = g.results[k]
            /\ \A k \in DOMAIN h.results : k \notin DOMAIN g.results =>
                 \E p \in pairs : p[1] = k /\ h.results[k] = p[2]
<1> DEFINE keys == DOMAIN g.results \cup {p[1] : p \in pairs}
           value(k) == IF k \in DOMAIN g.results THEN g.results[k]
                       ELSE (CHOOSE p \in pairs : p[1] = k)[2]
           h == SaveAll(g, pairs)
<1>1. /\ IsGenerator(h) /\ h.issued = g.issued
      /\ h.results = [k \in keys |-> value(k)]
  BY DEF SaveAll, IsGenerator, GeneratorFields
<1>2. ASSUME NEW k \in keys, k \notin DOMAIN g.results
      PROVE  \E p \in pairs : p[1] = k /\ value(k) = p[2]
  <2>1. \E p \in pairs : p[1] = k
    BY <1>2
  <2>2. value(k) = (CHOOSE p \in pairs : p[1] = k)[2]
    BY <1>2
  <2>3. QED
    BY <2>1, <2>2
<1>3. \A k \in DOMAIN g.results : value(k) = g.results[k]
  OBVIOUS
<1> HIDE DEF value, h
<1>4. DOMAIN h.results = keys /\ \A k \in keys : h.results[k] = value(k)
  BY <1>1
<1>5. /\ \A k \in DOMAIN g.results : h.results[k] = g.results[k]
      /\ \A k \in DOMAIN h.results : k \notin DOMAIN g.results =>
           \E p \in pairs : p[1] = k /\ h.results[k] = p[2]
  BY <1>2, <1>3, <1>4
<1>6. QED
  BY <1>1, <1>4, <1>5 DEF h

LEMMA MapsSave ==
  ASSUME NEW g, IsGenerator(g), NEW ref, NEW e, <<ref, e>> \in g.issued
  PROVE  Maps(g, Save(g, ref, e), {}) /\ ref \in DOMAIN Save(g, ref, e).results
<1> DEFINE pairs == {<<ref, e>>}
           h == SaveAll(g, pairs)
<1>1. \A p \in pairs : p = <<ref, e>> /\ p[1] = ref /\ p[2] = e
  OBVIOUS
<1>2. {p[1] : p \in pairs} = {ref}
  OBVIOUS
<1> HIDE DEF pairs
<1>3. /\ h.issued = g.issued
      /\ DOMAIN h.results = DOMAIN g.results \cup {ref}
      /\ \A k \in DOMAIN g.results : h.results[k] = g.results[k]
      /\ \A k \in DOMAIN h.results : k \notin DOMAIN g.results =>
           \E p \in pairs : p[1] = k /\ h.results[k] = p[2]
  BY <1>2, SavedAll
<1>4. Save(g, ref, e) = h
  BY DEF Save, pairs
<1> HIDE DEF h
<1>5. Maps(g, h, {})
  BY <1>1, <1>3 DEF Maps
<1>6. QED
  BY <1>3, <1>4, <1>5
-----------------------------------------------------------------------------
(* Refmodes of more than one part.                                         *)

LEMMA LongAppend ==
  ASSUME NEW S, NEW s \in Seq(S), Len(s) # 0, NEW x
  PROVE  Long(Append(s, x))
<1> DEFINE T == S \cup {x}
<1>1. s \in Seq(T) /\ x \in T /\ Len(s) \in Nat
  BY SeqMonotonic, LenProperties
<1> HIDE DEF T
<1>2. Len(Append(s, x)) = Len(s) + 1
  BY <1>1, AppendProperties
<1>3. ASSUME NEW t, Append(s, x) = <<t>> PROVE FALSE
  <2>1. Len(<<t>>) = 1
    OBVIOUS
  <2>2. QED
    BY <1>1, <1>2, <1>3, <2>1
<1>4. QED
  BY <1>3 DEF Long

LEMMA LongConcat ==
  ASSUME NEW S, NEW s \in Seq(S), NEW x, NEW y
  PROVE  Long(s \o <<x, y>>)
<1> DEFINE T == S \cup {x, y}
           e == <<x, y>>
<1>1. s \in Seq(T) /\ e \in Seq(T) /\ Len(e) = 2 /\ Len(s) \in Nat
  BY SeqMonotonic, LenProperties
<1> HIDE DEF T, e
<1>2. Len(s \o e) = Len(s) + 2
  <2>1. Len(s \o e) = Len(s) + Len(e)
    BY <1>1, ConcatProperties
  <2>2. QED
    BY <1>1, <2>1
<1>3. ASSUME NEW t, s \o e = <<t>> PROVE FALSE
  <2>1. Len(<<t>>) = 1
    OBVIOUS
  <2>2. QED
    BY <1>1, <1>2, <1>3, <2>1
<1>4. QED
  BY <1>3 DEF Long, e

(* The contexts of a module and what is in it. *)
Rooted(contexts) ==
  \E T : contexts \in Seq(T) /\ Len(contexts) # 0 /\ contexts[1].sort # "block"

Kept(contexts, sort) ==
  {i \in DOMAIN contexts : /\ contexts[i].sort # "block"
                           /\ \A j \in 1..(i - 1) : contexts[j].sort # sort}

LEMMA Qualified ==
  ASSUME NEW cm, NEW sort, Rooted(cm.contexts)
  PROVE  \E S : WithContext(cm, sort) \in Seq(S) /\ Len(WithContext(cm, sort)) # 0
<1> DEFINE kept == Kept(cm.contexts, sort)
           place(n) == CHOOSE i \in kept : Cardinality({j \in kept : j <= i}) = n
           prefix(n) == cm.contexts[place(n)].prefix
           size == Cardinality(kept)
<1>1. PICK T : /\ cm.contexts \in Seq(T) /\ Len(cm.contexts) # 0
               /\ cm.contexts[1].sort # "block"
  BY DEF Rooted
<1>2. DOMAIN cm.contexts = 1 .. Len(cm.contexts) /\ Len(cm.contexts) \in Nat
  BY <1>1, LenProperties
<1>3. 1 \in kept
  BY <1>1, <1>2 DEF Kept
<1>4. IsFiniteSet(kept)
  <2>1. kept \subseteq 1 .. Len(cm.contexts)
    BY <1>2 DEF Kept
  <2>2. IsFiniteSet(1 .. Len(cm.contexts))
    BY <1>2, FS_Interval
  <2> HIDE DEF kept
  <2>3. QED
    BY <2>1, <2>2, FS_Subset
<1>5. WithContext(cm, sort) = [n \in 1 .. size |-> prefix(n)]
  BY DEF WithContext, Kept
<1> HIDE DEF kept, prefix
<1>6. size \in Nat /\ size # 0
  BY <1>3, <1>4, FS_CardinalityType, FS_EmptySet
<1> HIDE DEF size
<1> DEFINE S == {prefix(n) : n \in 1 .. size}
<1>7. [n \in 1 .. size |-> prefix(n)] \in [1 .. size -> S]
  OBVIOUS
<1> HIDE DEF S
<1>8. [n \in 1 .. size |-> prefix(n)] \in Seq(S)
  BY <1>6, <1>7, SeqDef
<1>9. Len([n \in 1 .. size |-> prefix(n)]) = size
  BY <1>6, <1>8, LenProperties
<1>10. QED
  BY <1>5, <1>6, <1>8, <1>9

LEMMA InstructionsLong ==
  ASSUME NEW cm, Rooted(cm.contexts)
  PROVE  Long(InstructionRefmode(cm))
<1> DEFINE q == WithContext(cm, "function")
<1>1. PICK S : q \in Seq(S) /\ Len(q) # 0
  BY Qualified
<1> HIDE DEF q
<1>2. Long(Append(q, ToString(cm.instrIndex - 1)))
  BY <1>1, LongAppend
<1>3. QED
  BY <1>2 DEF InstructionRefmode, q

LEMMA ConstantsLong ==
  ASSUME NEW M, NEW cm, Rooted(cm.contexts), NEW c
  PROVE  Long(ConstantRefmode(M, cm, c))
<1> DEFINE q == WithContext(cm, "instr")
<1>1. PICK S : q \in Seq(S) /\ Len(q) # 0
  BY Qualified
<1> HIDE DEF q
<1>2. Long(q \o <<ToString(cm.constantIndex), RefmodeOf(M, cm, c)>>)
  BY <1>1, LongConcat
<1>3. QED
  BY <1>2 DEF ConstantRefmode, q

LEMMA TuplesLong ==
  /\ \A x, y : Long(<<x, y>>)
  /\ \A x, y, z : Long(<<x, y, z>>)
  BY DEF Long

LEMMA FunctionsLong ==
  ASSUME NEW cm, NEW F
  PROVE  Long(FunctionRefmode(cm, F))
<1> DEFINE p == cm.contexts[1].prefix
<1>1. FunctionRefmode(cm, F) = Append(<<p>>, F.name)
  BY DEF FunctionRefmode, WithGlobalContext
<1> HIDE DEF p
<1>2. <<p>> \in Seq({p}) /\ Len(<<p>>) # 0
  OBVIOUS
<1>3. QED
  BY <1>1, <1>2, LongAppend

(* Within a function, whatever is on top of it. *)
LEMMA QualifiedByFunction ==
  ASSUME NEW cm, NEW T, cm.contexts \in Seq(T), Len(cm.contexts) >= 2,
         cm.contexts[1].sort = "module", cm.contexts[2].sort = "function"
  PROVE  WithContext(cm, "function") = <<cm.contexts[1].prefix, cm.contexts[2].prefix>>
<1> DEFINE kept == Kept(cm.contexts, "function")
           place(n) == CHOOSE i \in kept : Cardinality({j \in kept : j <= i}) = n
           prefix(n) == cm.contexts[place(n)].prefix
           size == Cardinality(kept)
<1>1. DOMAIN cm.contexts = 1 .. Len(cm.contexts) /\ Len(cm.contexts) \in Nat
  BY LenProperties
<1>2. kept = {1, 2}
  <2>1. 1 \in kept
    BY <1>1 DEF Kept
  <2>2. 2 \in kept
    <3>1. \A j \in 1 .. (2 - 1) : j = 1
      OBVIOUS
    <3>2. QED
      BY <1>1, <3>1 DEF Kept
  <2>3. ASSUME NEW i \in kept PROVE i \in {1, 2}
    <3>1. i \in 1 .. Len(cm.contexts) /\ \A j \in 1 .. (i - 1) : cm.contexts[j].sort # "function"
      BY <1>1 DEF Kept
    <3>2. 2 \notin 1 .. (i - 1)
      BY <3>1
    <3>3. QED
      BY <1>1, <3>1, <3>2
  <2>4. QED
    BY <2>1, <2>2, <2>3
<1>3. Cardinality({1}) = 1 /\ Cardinality({1, 2}) = 2
  <2>1. Cardinality({1}) = 1
    BY FS_Singleton
  <2>2. Cardinality({1} \cup {2}) = Cardinality({1}) + 1
    BY FS_Singleton, FS_AddElement
  <2>3. {1} \cup {2} = {1, 2}
    OBVIOUS
  <2>4. Cardinality({1, 2}) = 1 + 1
    BY <2>1, <2>2, <2>3
  <2>5. QED
    BY <2>1, <2>4
<1>4. WithContext(cm, "function") = [n \in 1 .. size |-> prefix(n)]
  BY DEF WithContext, Kept
<1>5. size = 2
  BY <1>2, <1>3
<1>6. {j \in kept : j <= 1} = {1} /\ {j \in kept : j <= 2} = {1, 2}
  BY <1>2
<1>7. place(1) = 1 /\ place(2) = 2
  <2> HIDE DEF kept
  <2>1. \A i \in kept : i = 1 \/ i = 2
    BY <1>2
  <2>2. Cardinality({j \in kept : j <= 1}) = 1 /\ Cardinality({j \in kept : j <= 2}) = 2
    BY <1>3, <1>6
  <2>3. \A i \in kept : Cardinality({j \in kept : j <= i}) = i
    BY <2>1, <2>2
  <2>4. \A n \in kept : \A i \in kept : Cardinality({j \in kept : j <= i}) = n => i = n
    BY <2>3
  <2>5. 1 \in kept /\ 2 \in kept
    BY <1>2
  <2>6. \A n \in kept : (CHOOSE i \in kept : Cardinality({j \in kept : j <= i}) = n) = n
    BY <2>3, <2>4
  <2>7. QED
    BY <2>5, <2>6
<1>8. prefix(1) = cm.contexts[1].prefix /\ prefix(2) = cm.contexts[2].prefix
  BY <1>7
<1> HIDE DEF prefix, size
<1>9. [n \in 1 .. size |-> prefix(n)] = <<prefix(1), prefix(2)>>
  BY <1>5
<1>10. QED
  BY <1>4, <1>8, <1>9

(* By which refmode a function names its own parameters and results. *)
LocalRef(M, F, v) == <<M.path, F.name, LocalId(F, v)>>

(* The walk is in the function: its contexts are the lowest two. *)
InTheFunction(cm) ==
  /\ \E T : cm.contexts \in Seq(T)
  /\ Len(cm.contexts) >= 2
  /\ cm.contexts[1] = ModuleContext /\ cm.contexts[2] = OfFunction
  /\ cm.iFunctionCtx = 2

LEMMA LocalRefmode ==
  ASSUME NEW cm, InTheFunction(cm), NEW v, v.kind \in {"arg", "instr"}
  PROVE  ValueRefmode(Mod, cm, v) = LocalRef(Mod, Fun, v)
<1> DEFINE q == WithContext(cm, "function")
           id == LocalId(Fun, v)
<1>1. PICK T : cm.contexts \in Seq(T)
  BY DEF InTheFunction
<1>2. /\ Len(cm.contexts) >= 2 /\ cm.iFunctionCtx = 2
      /\ cm.contexts[1] = ModuleContext /\ cm.contexts[2] = OfFunction
  BY DEF InTheFunction
<1>3. /\ cm.contexts[1].sort = "module" /\ cm.contexts[1].prefix = Mod.path
      /\ cm.contexts[2].sort = "function" /\ cm.contexts[2].prefix = Fun.name
      /\ cm.contexts[2].isFunction /\ cm.contexts[2].anchor = <<at.function>>
  <2>1. /\ ModuleContext.sort = "module" /\ ModuleContext.prefix = Mod.path
        /\ OfFunction.sort = "function" /\ OfFunction.prefix = Fun.name
        /\ OfFunction.isFunction /\ OfFunction.anchor = <<at.function>>
    BY DEF ModuleContext, OfFunction, Context
  <2>2. QED
    BY <1>2, <2>1
<1>4. q = <<Mod.path, Fun.name>>
  <2>1. q = <<cm.contexts[1].prefix, cm.contexts[2].prefix>>
    BY <1>1, <1>2, <1>3, QualifiedByFunction
  <2>2. QED
    BY <1>3, <2>1
<1>5. FunctionContext(cm) = <<at.function>>
  BY <1>2, <1>3 DEF FunctionContext, NoFunction
<1>6. RefmodeOf(Mod, cm, v) = id
  <2>1. Mod.functions[FunctionContext(cm)[1]] = Fun
    BY <1>5 DEF Fun
  <2>2. QED
    BY <2>1 DEF RefmodeOf
<1> HIDE DEF q, id
<1>7. ValueRefmode(Mod, cm, v) = Append(q, id)
  BY <1>6 DEF ValueRefmode, q
<1>8. Append(<<Mod.path, Fun.name>>, id) = <<Mod.path, Fun.name, id>>
  BY StackOfThree
<1>9. QED
  BY <1>4, <1>7, <1>8 DEF LocalRef, id

-----------------------------------------------------------------------------
(* What the operations do to the map.                                      *)

LEMMA MapsConstant ==
  ASSUME NEW g, Ready(g), Rooted(g.cm.contexts), NEW c
  PROVE  Maps(g, WriteConstant(g, c).gen, {})
<1> DEFINE reached == Reached[c]
           calls == DOMAIN reached
           id(n) == ConstantRefmode(Mod, [g.cm EXCEPT !.constantIndex = @ + n - 1], reached[n])
           refs(n) == [i \in DOMAIN WrittenOperands(reached[n]) |->
                         id(n + OperandPlace(reached[n], i))]
           issued == {<<id(n), <<"const", g.constants + n>> >> : n \in calls}
           texts == {<< <<reached[n].text>>, <<"text", reached[n].text>> >> : n \in calls}
           types == {reached[n].type : n \in calls}
           facts == UNION {DescribeConstant(reached[n], id(n), FunctionContext(g.cm))
                           \cup RelateOperands(reached[n], id(n), refs(n)) : n \in calls}
           s == SaveAll(g, issued \cup texts)
           h == [s EXCEPT !.cm.constantIndex = @ + Len(reached),
                          !.constants = @ + Len(reached),
                          !.issued = @ \cup issued,
                          !.types = @ \cup types,
                          !.facts = @ \cup facts]
<1>1. \A n \in calls : Long(id(n))
  <2>1. ASSUME NEW n \in calls PROVE Long(id(n))
    <3> DEFINE cm == [g.cm EXCEPT !.constantIndex = @ + n - 1]
    <3>1. cm.contexts = g.cm.contexts
      BY DEF Ready, IsManager, ManagerFields
    <3> HIDE DEF cm, reached
    <3>2. Long(ConstantRefmode(Mod, cm, reached[n]))
      BY <3>1, ConstantsLong
    <3>3. QED
      BY <3>2 DEF cm
  <2>2. QED
    BY <2>1
<1>2. WriteConstant(g, c).gen = h
  BY DEF WriteConstant
<1>3. \A p \in issued : Long(p[1])
  <2> HIDE DEF id, reached
  <2>1. QED
    BY <1>1
<1>4. \A p \in texts : ~Long(p[1])
  <2> HIDE DEF reached
  <2>1. \A p \in texts : \E t : p[1] = <<t>>
    OBVIOUS
  <2>2. QED
    BY <2>1 DEF Long
<1> HIDE DEF facts, types, issued, texts, reached
<1> DEFINE pairs == issued \cup texts
<1>5. /\ IsGenerator(s) /\ s.issued = g.issued
      /\ DOMAIN s.results = DOMAIN g.results \cup {p[1] : p \in pairs}
      /\ \A k \in DOMAIN g.results : s.results[k] = g.results[k]
      /\ \A k \in DOMAIN s.results : k \notin DOMAIN g.results =>
           \E p \in pairs : p[1] = k /\ s.results[k] = p[2]
  <2>1. IsGenerator(g)
    BY DEF Ready
  <2> HIDE DEF pairs
  <2>2. QED
    BY <2>1, SavedAll DEF pairs
<1> HIDE DEF s
<1>6. h.issued = g.issued \cup issued /\ h.results = s.results
  BY <1>5 DEF IsGenerator, GeneratorFields
<1> HIDE DEF h
<1>7. ASSUME NEW k \in DOMAIN h.results
      PROVE  \/ k \in DOMAIN g.results /\ h.results[k] = g.results[k]
             \/ <<k, h.results[k]>> \in h.issued
             \/ ~Long(k)
  <2>1. CASE k \in DOMAIN g.results
    BY <1>5, <1>6, <2>1
  <2>2. CASE k \notin DOMAIN g.results
    <3>1. PICK p \in pairs : p[1] = k /\ s.results[k] = p[2]
      BY <1>5, <1>6, <1>7, <2>2
    <3>2. CASE p \in issued
      <4>1. p = <<p[1], p[2]>>
        <5> DEFINE entity(n) == <<"const", g.constants + n>>
        <5>1. issued = {<<id(n), entity(n)>> : n \in calls}
          BY DEF issued
        <5> HIDE DEF id, entity, calls
        <5>2. QED
          BY <3>2, <5>1
      <4>2. <<k, h.results[k]>> = p
        BY <1>6, <3>1, <4>1
      <4>3. QED
        BY <1>6, <3>2, <4>2
    <3>3. CASE p \in texts
      BY <1>4, <3>1, <3>3
    <3>4. QED
      BY <3>2, <3>3
  <2>3. QED
    BY <2>1, <2>2
<1>8. \A p \in h.issued \ g.issued : Long(p[1]) /\ p[1] \in DOMAIN h.results
  BY <1>3, <1>5, <1>6
<1>9. g.issued \subseteq h.issued /\ DOMAIN g.results \subseteq DOMAIN h.results
  BY <1>5, <1>6
<1>10. Maps(g, h, {})
  BY <1>7, <1>8, <1>9 DEF Maps
<1>11. QED
  BY <1>2, <1>10

(* One operation after the other. *)
LEMMA MapsThen ==
  ASSUME NEW g, NEW h, NEW k, NEW Q, Maps(g, h, {}), Maps(h, k, Q)
  PROVE  Maps(g, k, Q)
  BY MapsMore, MapsTransitive

LEMMA MapsAsm ==
  ASSUME NEW g, Ready(g), NEW v
  PROVE  Maps(g, WriteAsm(g, v).gen, {})
<1> DEFINE id == InlineAsmRefmode(g.cm)
           typed == RecordType(g, v.type)
           entity == <<"asm", Last(g.cm.contexts)>>
           known == Issue(typed, id, entity)
<1>1. IsGenerator(typed) /\ Maps(g, typed, {})
  BY MapsOther DEF Ready, RecordType, IsGenerator, GeneratorFields
<1>2. ~Needed(entity)
  BY DEF Needed
<1> HIDE DEF typed, entity, id
<1>3. IsGenerator(known) /\ Maps(typed, known, {})
  <2>1. IsGenerator(known)
    BY <1>1 DEF Issue, IsGenerator, GeneratorFields
  <2>2. QED
    BY <1>1, <1>2, <2>1, MapsIssue
<1>4. \E facts : WriteAsm(g, v).gen = WriteFacts(known, facts)
  BY DEF WriteAsm, known, typed, entity, id
<1>5. PICK facts : WriteAsm(g, v).gen = WriteFacts(known, facts)
  BY <1>4
<1> HIDE DEF known
<1>6. Maps(known, WriteFacts(known, facts), {})
  BY <1>3, MapsOther
<1>7. Maps(g, known, {})
  BY <1>1, <1>3, MapsThen
<1>8. QED
  BY <1>5, <1>6, <1>7, MapsThen

LEMMA MapsVariable ==
  ASSUME NEW g, Ready(g), NEW v, NEW ref
  PROVE  LET h == VariableAs(g, v, ref).gen
             e == ValueEntity(at.function, v)
         IN /\ IsGenerator(h)
            /\ Maps(g, h, {<<ref, e>>})
            /\ ~Needed(e) => Maps(g, h, {})
            /\ h.issued = g.issued \cup {<<ref, e>>} /\ h.results = g.results
<1> DEFINE e == ValueEntity(at.function, v)
           known == Issue(g, ref, e)
           named == RecordVariable(known, ref, TypeOfValue(v), VariableName(v))
<1>1. IsGenerator(g)
  BY DEF Ready
<1>2. /\ Maps(g, known, {<<ref, e>>}) /\ (~Needed(e) => Maps(g, known, {}))
      /\ known.issued = g.issued \cup {<<ref, e>>} /\ known.results = g.results
  BY <1>1, MapsIssue
<1>3. IsGenerator(known)
  BY <1>1 DEF Issue, IsGenerator, GeneratorFields
<1>4. VariableAs(g, v, ref).gen = named
  BY DEF VariableAs
<1> HIDE DEF known, e
<1>5. named.issued = known.issued /\ named.results = known.results /\ IsGenerator(named)
  BY <1>3 DEF RecordVariable, IsGenerator, GeneratorFields
<1> HIDE DEF named
<1>6. \A Q : Maps(g, known, Q) => Maps(g, named, Q)
  BY <1>5 DEF Maps
<1>7. QED
  BY <1>2, <1>4, <1>5, <1>6 DEF e

(* An entity that is put into the map as soon as it has a refmode. *)
LEMMA MapsEntity ==
  ASSUME NEW g, IsGenerator(g), NEW ref, NEW e, Long(ref) \/ ~Needed(e)
  PROVE  LET h == Save(Issue(g, ref, e), ref, e)
         IN IsGenerator(h) /\ Maps(g, h, {})
<1> DEFINE known == Issue(g, ref, e)
           h == Save(known, ref, e)
<1>1. /\ Maps(g, known, {<<ref, e>>}) /\ (~Needed(e) => Maps(g, known, {}))
      /\ known.issued = g.issued \cup {<<ref, e>>}
  BY MapsIssue
<1>2. IsGenerator(known)
  BY DEF Issue, IsGenerator, GeneratorFields
<1> HIDE DEF known
<1>3. Maps(known, h, {}) /\ ref \in DOMAIN h.results
  BY <1>1, <1>2, MapsSave
<1>4. IsGenerator(h)
  <2>1. IsGenerator(SaveAll(known, {<<ref, e>>}))
    BY <1>2, SavedAll
  <2>2. QED
    BY <2>1 DEF Save
<1> HIDE DEF h
<1>5. Maps(g, h, {})
  <2>1. CASE ~Needed(e)
    BY <1>1, <1>3, <2>1, MapsThen
  <2>2. CASE Long(ref)
    <3> DEFINE Q == {<<ref, e>>}
    <3>1. Maps(known, h, Q)
      BY <1>3, MapsMore
    <3>2. Maps(g, h, Q)
      BY <1>1, <3>1, MapsTransitive
    <3>3. \A q \in Q : Long(q[1]) /\ q[1] \in DOMAIN h.results
      BY <1>3, <2>2
    <3> HIDE DEF Q
    <3>4. QED
      BY <3>2, <3>3, MapsSaved
  <2>3. QED
    BY <2>1, <2>2
<1>6. QED
  BY <1>4, <1>5 DEF h, known

(* An operand is in the map, or is one of those in Q. *)
LEMMA MapsValue ==
  ASSUME NEW g, Ready(g), Rooted(g.cm.contexts), NEW v, NEW Q,
         v.kind \in {"arg", "instr"} =>
           <<ValueRefmode(Mod, g.cm, v), ValueEntity(at.function, v)>> \in Q
  PROVE  Maps(g, RecordValue(g, v).gen, Q)
<1> DEFINE ref == ValueRefmode(Mod, g.cm, v)
           e == ValueEntity(at.function, v)
<1>1. CASE v.kind = "const"
  <2>1. Maps(g, WriteConstant(g, v).gen, Q)
    BY MapsConstant, MapsMore
  <2>2. QED
    BY <1>1, <2>1 DEF RecordValue
<1>2. CASE v.kind = "asm"
  <2>1. Maps(g, WriteAsm(g, v).gen, Q)
    BY MapsAsm, MapsMore
  <2>2. QED
    BY <1>2, <2>1 DEF RecordValue
<1>3. CASE v.kind \notin {"const", "asm"}
  <2>1. RecordValue(g, v).gen = VariableAs(g, v, ref).gen
    BY <1>3 DEF RecordValue, Variable
  <2>2. Needed(e) => v.kind \in {"arg", "instr"}
    BY DEF Needed, ValueEntity
  <2>3. /\ Maps(g, VariableAs(g, v, ref).gen, {<<ref, e>>})
        /\ ~Needed(e) => Maps(g, VariableAs(g, v, ref).gen, {})
    <3> HIDE DEF ref
    <3>1. QED
      BY MapsVariable
  <2> DEFINE h == VariableAs(g, v, ref).gen
  <2> HIDE DEF h
  <2>4. CASE ~Needed(e)
    <3>1. Maps(g, h, {})
      BY <2>3, <2>4 DEF h
    <3>2. Maps(g, h, Q)
      BY <3>1, MapsMore
    <3>3. QED
      BY <2>1, <3>2 DEF h
  <2>5. CASE Needed(e)
    <3>1. <<ref, e>> \in Q
      BY <2>2, <2>5
    <3>2. Maps(g, h, {<<ref, e>>})
      BY <2>3 DEF h
    <3> HIDE DEF ref, e
    <3>3. Maps(g, h, Q)
      BY <3>1, <3>2 DEF Maps
    <3>4. QED
      BY <2>1, <3>3 DEF h
  <2>6. QED
    BY <2>4, <2>5
<1>4. QED
  BY <1>1, <1>2, <1>3

LEMMA MapsRequest ==
  ASSUME NEW g, Ready(g), Rooted(g.cm.contexts), NEW iref, NEW pos, NEW r, Harmless(r), NEW Q,
         r.what \in {"operand", "indexed", "gepindex"} /\ r.value.kind \in {"arg", "instr"} =>
           <<ValueRefmode(Mod, g.cm, r.value), ValueEntity(at.function, r.value)>> \in Q
  PROVE  Maps(g, Execute(g, iref, pos, r), Q)
<1>1. ASSUME NEW h, IsGenerator(h), NEW facts, Maps(g, h, Q)
      PROVE  Maps(g, WriteFacts(h, facts), Q)
  <2>1. Maps(h, WriteFacts(h, facts), Q)
    BY <1>1, MapsOther, MapsMore
  <2>2. QED
    BY <1>1, <2>1, MapsTransitive
<1>2. IsGenerator(g) /\ Maps(g, g, Q)
  BY MapsSame DEF Ready
<1>3. CASE r.what \in {"entity", "flag"}
  BY <1>1, <1>2, <1>3 DEF Execute
<1>4. CASE r.what = "attribute"
  BY <1>1, <1>2, <1>4 DEF Execute
<1>5. CASE r.what = "ordinal"
  BY <1>1, <1>2, <1>5 DEF Execute
<1>6. CASE r.what = "type"
  <2> DEFINE typed == RecordType(g, r.value)
  <2>1. IsGenerator(typed) /\ Maps(g, typed, Q)
    BY <1>2, MapsOther, MapsMore DEF RecordType, IsGenerator, GeneratorFields
  <2>2. Execute(g, iref, pos, r) = WriteFacts(typed, {<<r.pred, iref, r.value>>})
    BY <1>6 DEF Execute
  <2> HIDE DEF typed
  <2>3. QED
    BY <1>1, <2>1, <2>2
<1>7. CASE r.what \in {"operand", "indexed", "gepindex"}
  <2> DEFINE operand == RecordValue(g, r.value)
  <2>1. IsGenerator(operand.gen)
    BY RecordingValue DEF Describes
  <2>2. Maps(g, operand.gen, Q)
    BY <1>7, MapsValue
  <2>3. Execute(g, iref, pos, r) = WriteOperand(operand, <<r.pred, iref>>, r)
    BY <1>7 DEF Execute
  <2> HIDE DEF operand
  <2>4. \E facts : Execute(g, iref, pos, r) = WriteFacts(operand.gen, facts)
    BY <2>3 DEF WriteOperand
  <2>5. QED
    BY <1>1, <2>1, <2>2, <2>4
<1>8. CASE r.what = "source"
  <2>1. \E facts : Execute(g, iref, pos, r) = WriteFacts(g, facts)
    BY <1>8 DEF Execute, WriteSource
  <2>2. QED
    BY <1>1, <1>2, <2>1
<1>9. QED
  BY <1>3, <1>4, <1>5, <1>6, <1>7, <1>8 DEF Harmless, RequestKinds

LEMMA MapsGlobal ==
  ASSUME NEW g, Ready(g), Rooted(g.cm.contexts), NEW gv
  PROVE  Maps(g, WriteGlobalVar(g, gv), {})
<1> DEFINE id == GlobalValueRefmode(g.cm, gv.name)
           e == GlobalEntity(gv.name)
           valueType == IF LlvmMajor > 14 THEN gv.type ELSE gv.valueType
           saved == Save(Issue(g, id, e), id, e)
           pointer == RecordType(saved, gv.type)
           typed == RecordType(pointer, valueType)
           described == DescribeGlobalVar(g, gv, id)
           init == WriteConstant(described, gv.init[1])
<1>1. IsGenerator(saved) /\ Maps(g, saved, {})
  <2>1. IsGenerator(g)
    BY DEF Ready
  <2>2. ~Needed(e)
    BY DEF Needed, GlobalEntity
  <2> HIDE DEF id, e
  <2>3. QED
    BY <2>1, <2>2, MapsEntity
<1>2. IsGenerator(typed) => described.issued = typed.issued /\ described.results = typed.results
  BY DEF DescribeGlobalVar, WriteFacts, IsGenerator, GeneratorFields
<1> HIDE DEF saved, valueType
<1>3. IsGenerator(pointer) /\ Maps(saved, pointer, {})
  BY <1>1, MapsOther DEF RecordType, IsGenerator, GeneratorFields
<1> HIDE DEF pointer
<1>4. IsGenerator(typed) /\ Maps(pointer, typed, {})
  BY <1>3, MapsOther DEF RecordType, IsGenerator, GeneratorFields
<1> HIDE DEF typed
<1>5. Maps(typed, described, {})
  BY <1>2, <1>4, MapsSame
<1>6. Maps(g, described, {})
  BY <1>1, <1>3, <1>4, <1>5, MapsThen
<1>7. Ready(described) /\ Rooted(described.cm.contexts)
  <2>1. Describes(g, described)
    BY DescribingGlobal
  <2> HIDE DEF described
  <2>2. QED
    BY <2>1, DescribesReady DEF Describes
<1>8. WriteGlobalVar(g, gv) = IF gv.init = <<>> THEN described ELSE WriteInitializer(init, id)
  BY DEF WriteGlobalVar
<1> HIDE DEF described
<1>9. IsGenerator(init.gen) /\ Maps(described, init.gen, {})
  BY <1>7, WritingConstant, MapsConstant DEF Describes
<1> HIDE DEF init, id
<1>10. Maps(init.gen, WriteInitializer(init, id), {})
  BY <1>9, MapsOther DEF WriteInitializer
<1>11. Maps(g, WriteInitializer(init, id), {})
  BY <1>6, <1>9, <1>10, MapsThen
<1>12. QED
  BY <1>6, <1>8, <1>11

LEMMA MapsAlias ==
  ASSUME NEW g, Ready(g), Rooted(g.cm.contexts), NEW ga
  PROVE  Maps(g, WriteGlobalAlias(g, ga), {})
<1> DEFINE id == GlobalValueRefmode(g.cm, ga.name)
           e == GlobalEntity(ga.name)
           known == Issue(g, id, e)
           typed == RecordType(known, ga.type)
           aliasee == WriteConstant(typed, ga.aliasee)
<1>1. Describes(g, known) /\ Maps(g, known, {})
  <2>1. IsGenerator(g)
    BY DEF Ready
  <2>2. ~Needed(e)
    BY DEF Needed, GlobalEntity
  <2> HIDE DEF id, e
  <2>3. QED
    BY <2>1, <2>2, MapsIssue, Issuing
<1> HIDE DEF known
<1>2. Describes(known, typed) /\ Maps(known, typed, {})
  <2>1. Ready(known) /\ IsGenerator(known)
    BY <1>1, DescribesReady DEF Describes
  <2>2. QED
    BY <2>1, RecordingType, MapsOther
<1> HIDE DEF typed
<1>3. Ready(typed) /\ Rooted(typed.cm.contexts)
  BY <1>1, <1>2, DescribesReady DEF Describes
<1>4. IsGenerator(aliasee.gen) /\ Maps(typed, aliasee.gen, {})
  BY <1>3, WritingConstant, MapsConstant DEF Describes
<1>5. \E facts : WriteGlobalAlias(g, ga) = WriteFacts(aliasee.gen, facts)
  BY DEF WriteGlobalAlias, DescribeAlias, typed, known
<1> HIDE DEF aliasee
<1>6. Maps(aliasee.gen, WriteGlobalAlias(g, ga), {})
  BY <1>4, <1>5, MapsOther
<1>7. QED
  BY <1>1, <1>2, <1>4, <1>6, MapsThen

LEMMA MapsFunction ==
  ASSUME NEW g, Ready(g), Rooted(g.cm.contexts), NEW funcref
  PROVE  Maps(g, WriteFunction(g, funcref), {})
<1>1. ASSUME NEW pers, IsGenerator(pers.gen), Maps(g, pers.gen, {})
      PROVE  Maps(g, DescribeFunction(pers, funcref), {})
  <2> DEFINE typed == RecordType(pers.gen, Fun.type)
  <2>1. IsGenerator(typed) /\ Maps(pers.gen, typed, {})
    BY <1>1, MapsOther DEF RecordType, IsGenerator, GeneratorFields
  <2>2. \E facts : DescribeFunction(pers, funcref) = WriteFacts(typed, facts)
    BY DEF DescribeFunction
  <2> HIDE DEF typed
  <2>3. Maps(typed, DescribeFunction(pers, funcref), {})
    BY <2>1, <2>2, MapsOther
  <2>4. QED
    BY <1>1, <2>1, <2>3, MapsThen
<1>2. CASE Fun.pers = <<>>
  <2> DEFINE pers == [gen |-> g, ref |-> <<>>]
  <2>1. IsGenerator(pers.gen) /\ Maps(g, pers.gen, {})
    BY MapsSame DEF Ready
  <2>2. WriteFunction(g, funcref) = DescribeFunction(pers, funcref)
    BY <1>2 DEF WriteFunction
  <2> HIDE DEF pers
  <2>3. QED
    BY <1>1, <2>1, <2>2
<1>3. CASE Fun.pers # <<>>
  <2> DEFINE pers == WriteConstant(g, Fun.pers[1])
  <2>1. IsGenerator(pers.gen) /\ Maps(g, pers.gen, {})
    BY WritingConstant, MapsConstant DEF Describes
  <2>2. WriteFunction(g, funcref) = DescribeFunction(pers, funcref)
    BY <1>3 DEF WriteFunction
  <2> HIDE DEF pers
  <2>3. QED
    BY <1>1, <2>1, <2>2
<1>4. QED
  BY <1>2, <1>3

-----------------------------------------------------------------------------
(* The invariant of the result map.  While a function is visited, names of *)
(* its results may be in use that are not in the map yet.                  *)

MapSound(g) == \A k \in DOMAIN g.results : Long(k) => <<k, g.results[k]>> \in g.issued

InMap(g, ref) == Long(ref) /\ ref \in DOMAIN g.results

MapComplete(g, expected) ==
  \A p \in g.issued : Needed(p[2]) => InMap(g, p[1]) \/ p[1] \in expected

Stays == {"block", "instr", "visit"}

IsResult(F, b, i) ==
  b \in DOMAIN F.blocks /\ i \in DOMAIN F.blocks[b].instrs /\ F.blocks[b].instrs[i].type # "void"

ResultRefs(M, F) ==
  UNION {{LocalRef(M, F, Instr(b, i)) : i \in {i \in DOMAIN F.blocks[b].instrs : IsResult(F, b, i)}}
         : b \in DOMAIN F.blocks}

Expected == IF pc \in Stays THEN ResultRefs(Mod, Fun) ELSE {}

ParametersInMap ==
  pc \in InFunction /\ ~Fun.decl =>
    \A n \in DOMAIN Fun.params :
      (pc = "params" => n < at.param) => LocalRef(Mod, Fun, Arg(n)) \in DOMAIN gen.results

(* The walk has been at this instruction. *)
Passed(b, i) ==
  \/ b < at.block
  \/ b = at.block /\ pc # "block" /\ (i < at.instr \/ (i = at.instr /\ pc = "visit"))

ResultsInMap ==
  pc \in Stays =>
    \A b, i : IsResult(Fun, b, i) /\ Passed(b, i) =>
                LocalRef(Mod, Fun, Instr(b, i)) \in DOMAIN gen.results

MapInv ==
  MapSound(gen) /\ MapComplete(gen, Expected) /\ ParametersInMap /\ ResultsInMap

LEMMA MapKept ==
  ASSUME NEW g, NEW h, NEW Q, NEW P, MapSound(g), MapComplete(g, P), Maps(g, h, Q),
         \A q \in Q : InMap(h, q[1]) \/ q[1] \in P
  PROVE  MapSound(h) /\ MapComplete(h, P) /\ DOMAIN g.results \subseteq DOMAIN h.results
<1>1. DOMAIN g.results \subseteq DOMAIN h.results
  BY DEF Maps
<1>2. MapSound(h)
  BY DEF MapSound, Maps
<1>3. ASSUME NEW p \in h.issued, Needed(p[2])
      PROVE  InMap(h, p[1]) \/ p[1] \in P
  <2>1. CASE p \in g.issued
    BY <1>1, <1>3, <2>1 DEF MapComplete, InMap
  <2>2. CASE p \notin g.issued
    BY <1>3, <2>2 DEF Maps, InMap
  <2>3. QED
    BY <2>1, <2>2
<1>4. QED
  BY <1>1, <1>2, <1>3 DEF MapComplete

LEMMA MapKeptAll ==
  ASSUME NEW g, NEW h, NEW P, MapSound(g), MapComplete(g, P), Maps(g, h, {})
  PROVE  MapSound(h) /\ MapComplete(h, P) /\ DOMAIN g.results \subseteq DOMAIN h.results
  BY MapKept

LEMMA LocalRefsLong ==
  \A M, F, v : Long(LocalRef(M, F, v))
  BY TuplesLong DEF LocalRef

LEMMA RootedStacks ==
  /\ Rooted(<<ModuleContext>>)
  /\ Rooted(<<ModuleContext, OfFunction>>)
  /\ Rooted(<<ModuleContext, OfFunction, OfBlock>>)
  /\ \A p : Rooted(<<ModuleContext, OfFunction, OfBlock, OfInstruction(p)>>)
<1>1. ModuleContext.sort # "block"
  BY DEF ModuleContext, Context
<1>2. \A a : a.sort # "block" => Rooted(<<a>>)
  <2>1. \A a : <<a>> \in Seq({a}) /\ Len(<<a>>) # 0 /\ <<a>>[1] = a
    OBVIOUS
  <2>2. QED
    BY <2>1 DEF Rooted
<1>3. \A a, b : a.sort # "block" => Rooted(<<a, b>>)
  <2>1. \A a, b : <<a, b>> \in Seq({a, b}) /\ Len(<<a, b>>) # 0 /\ <<a, b>>[1] = a
    OBVIOUS
  <2>2. QED
    BY <2>1 DEF Rooted
<1>4. \A a, b, c : a.sort # "block" => Rooted(<<a, b, c>>)
  <2>1. \A a, b, c : /\ <<a, b, c>> \in Seq({a, b, c}) /\ Len(<<a, b, c>>) # 0
                     /\ <<a, b, c>>[1] = a
    OBVIOUS
  <2>2. QED
    BY <2>1 DEF Rooted
<1>5. \A a, b, c, d : a.sort # "block" => Rooted(<<a, b, c, d>>)
  <2>1. \A a, b, c, d : /\ <<a, b, c, d>> \in Seq({a, b, c, d}) /\ Len(<<a, b, c, d>>) # 0
                        /\ <<a, b, c, d>>[1] = a
    OBVIOUS
  <2>2. QED
    BY <2>1 DEF Rooted
<1>6. QED
  BY <1>1, <1>2, <1>3, <1>4, <1>5

LEMMA FunctionStacks ==
  ASSUME NEW cm, cm.iFunctionCtx = 2
  PROVE  /\ cm.contexts = <<ModuleContext, OfFunction>> => InTheFunction(cm)
         /\ \A p : cm.contexts = <<ModuleContext, OfFunction, OfBlock, OfInstruction(p)>> =>
                     InTheFunction(cm)
<1>1. ASSUME NEW a, NEW b, cm.contexts = <<a, b>>
      PROVE  /\ \E T : cm.contexts \in Seq(T)
             /\ Len(cm.contexts) >= 2 /\ cm.contexts[1] = a /\ cm.contexts[2] = b
  <2>1. <<a, b>> \in Seq({a, b}) /\ Len(<<a, b>>) >= 2 /\ <<a, b>>[1] = a /\ <<a, b>>[2] = b
    OBVIOUS
  <2>2. QED
    BY <1>1, <2>1
<1>2. ASSUME NEW a, NEW b, NEW c, NEW d, cm.contexts = <<a, b, c, d>>
      PROVE  /\ \E T : cm.contexts \in Seq(T)
             /\ Len(cm.contexts) >= 2 /\ cm.contexts[1] = a /\ cm.contexts[2] = b
  <2>1. /\ <<a, b, c, d>> \in Seq({a, b, c, d}) /\ Len(<<a, b, c, d>>) >= 2
        /\ <<a, b, c, d>>[1] = a /\ <<a, b, c, d>>[2] = b
    OBVIOUS
  <2>2. QED
    BY <1>2, <2>1
<1>3. cm.contexts = <<ModuleContext, OfFunction>> => InTheFunction(cm)
  BY <1>1 DEF InTheFunction
<1>4. ASSUME NEW p, cm.contexts = <<ModuleContext, OfFunction, OfBlock, OfInstruction(p)>>
      PROVE  InTheFunction(cm)
  BY <1>2, <1>4 DEF InTheFunction
<1>5. QED
  BY <1>3, <1>4

(* In each stage the stack is rooted. *)
LEMMA InvRooted ==
  ASSUME Inv, pc \in InModule
  PROVE  Ready(gen) /\ Rooted(gen.cm.contexts)
<1>1. Ready(gen)
  BY InvReady
<1>2. CASE pc \in InModule \ InFunction
  BY <1>1, <1>2, RootedStacks DEF Inv, Stack
<1>3. CASE pc \in InFunction \ InBlock_
  BY <1>1, <1>3, RootedStacks DEF Inv, Stack
<1>4. CASE pc = "instr"
  BY <1>1, <1>4, RootedStacks DEF Inv, Stack
<1>5. CASE pc = "visit"
  BY <1>1, <1>5, RootedStacks DEF Inv, Stack
<1>6. QED
  BY <1>1, <1>2, <1>3, <1>4, <1>5 DEF InModule, InFunction, InBlock_

LEMMA InitMap ==
  ASSUME Init
  PROVE  MapInv
<1>1. gen.issued = {} /\ gen.results = <<>> /\ pc = "module"
  BY DEF Init, NewGenerator
<1>2. DOMAIN gen.results = {}
  BY <1>1
<1>3. QED
  BY <1>1, <1>2 DEF MapInv, MapSound, MapComplete, ParametersInMap, ResultsInMap, InFunction, Stays

(* Outside of functions. *)
LEMMA MapStepOutside ==
  ASSUME Inv, MapInv,
         \/ Finish \/ ParseFails \/ EnterModule \/ NextGlobal \/ NoMoreGlobals
         \/ NextAlias \/ WriteOptions \/ LeaveModule
  PROVE  MapInv'
<1>1. pc \notin InFunction \cup Stays /\ pc' \notin InFunction \cup Stays
  BY DEF Finish, ParseFails, EnterModule, NextGlobal, NoMoreGlobals, NextAlias, WriteOptions,
         LeaveModule, InFunction, Stays
<1>2. IsGenerator(gen)
  BY DEF Inv
<1>3. Maps(gen, gen', {})
  <2>1. CASE Finish \/ ParseFails \/ NoMoreGlobals
    BY <2>1, MapsSame DEF Finish, ParseFails, NoMoreGlobals
  <2>2. CASE EnterModule
    <3>1. gen' = [gen EXCEPT !.cm = NewContextManager(Mod)]
      BY <2>2 DEF EnterModule
    <3>2. gen'.issued = gen.issued /\ gen'.results = gen.results
      BY <1>2, <3>1 DEF IsGenerator, GeneratorFields
    <3>3. QED
      BY <3>2, MapsSame
  <2>3. CASE NextGlobal
    <3>1. pc \in InModule /\ gen' = WriteGlobalVar(gen, Mod.globals[at.item])
      BY <2>3 DEF NextGlobal, InModule
    <3>2. QED
      BY <3>1, InvRooted, MapsGlobal
  <2>4. CASE NextAlias
    <3>1. pc \in InModule /\ gen' = WriteGlobalAlias(gen, Mod.aliases[at.item])
      BY <2>4 DEF NextAlias, InModule
    <3>2. QED
      BY <3>1, InvRooted, MapsAlias
  <2>5. CASE WriteOptions
    BY <1>2, <2>5, MapsOther DEF WriteOptions
  <2>6. CASE LeaveModule
    <3> DEFINE left == [gen EXCEPT !.cm = <<>>]
    <3>1. \E facts : gen' = WriteFacts(left, facts)
      BY <2>6 DEF LeaveModule
    <3>2. IsGenerator(left) /\ left.issued = gen.issued /\ left.results = gen.results
      BY <1>2 DEF IsGenerator, GeneratorFields
    <3> HIDE DEF left
    <3>3. Maps(gen, left, {}) /\ Maps(left, gen', {})
      BY <3>1, <3>2, MapsSame, MapsOther
    <3>4. QED
      BY <3>3, MapsThen
  <2>7. QED
    BY <2>1, <2>2, <2>3, <2>4, <2>5, <2>6
<1>4. MapSound(gen) /\ MapComplete(gen, {})
  BY <1>1 DEF MapInv, Expected
<1>5. MapSound(gen') /\ MapComplete(gen', {})
  BY <1>3, <1>4, MapKeptAll
<1>6. Expected' = {}
  BY <1>1 DEF Expected
<1>7. QED
  BY <1>1, <1>5, <1>6 DEF MapInv, ParametersInMap, ResultsInMap

(* Within a function: the parameters. *)
LEMMA SameFunction ==
  ASSUME UNCHANGED <<program, module>>, at'.function = at.function
  PROVE  Fun' = Fun /\ Mod' = Mod
  BY DEF Fun, Mod, Prog

LEMMA AtCounters ==
  ASSUME Inv
  PROVE  /\ at \in Counters
         /\ \A f \in DOMAIN at : at[f] \in Nat \ {0}
         /\ at.item \in Nat \ {0} /\ at.function \in Nat \ {0} /\ at.param \in Nat \ {0}
         /\ at.block \in Nat \ {0} /\ at.instr \in Nat \ {0} /\ at.request \in Nat \ {0}
  BY DEF Inv, Place, Counters, Counter

LEMMA MapStepEnterFunction ==
  ASSUME Inv, MapInv, EnterFunction
  PROVE  MapInv'
<1> DEFINE entered == [gen EXCEPT !.cm = PushContext(Mod, @, <<at.function>>)]
           funcref == FunctionRefmode(entered.cm, Fun)
           entity == FunctionEntity(at.function)
           known == Save(Issue(entered, funcref, entity), funcref, entity)
<1>1. /\ pc = "function" /\ pc' = (IF Fun.decl THEN "signatures" ELSE "params")
      /\ at' = [at EXCEPT !.param = 1] /\ UNCHANGED <<program, module>>
      /\ gen' = WriteFunction(known, funcref)
  BY DEF EnterFunction
<1>2. /\ Ready(gen) /\ gen.cm.contexts = <<ModuleContext>>
  BY <1>1, InvReady DEF Inv, Stack, InModule, InFunction
<1>3. /\ IsGenerator(entered) /\ entered.cm = PushContext(Mod, gen.cm, <<at.function>>)
      /\ entered.issued = gen.issued /\ entered.results = gen.results
  BY <1>2 DEF Ready, IsGenerator, GeneratorFields
<1>4. Ready(entered) /\ entered.cm.contexts = Append(gen.cm.contexts, OfFunction)
  BY <1>2, <1>3, PushingFunction DEF Ready
<1>5. Rooted(entered.cm.contexts)
  BY <1>2, <1>4, StackOfTwo, RootedStacks
<1>6. Long(funcref)
  <2> HIDE DEF entered
  <2>1. QED
    BY FunctionsLong
<1> HIDE DEF entered, funcref, entity
<1>7. IsGenerator(known) /\ Maps(entered, known, {})
  BY <1>3, <1>6, MapsEntity
<1>8. Describes(entered, known)
  <2> DEFINE issued == Issue(entered, funcref, entity)
  <2>1. Describes(entered, issued)
    BY <1>4, Issuing
  <2> HIDE DEF issued
  <2>2. Describes(issued, Save(issued, funcref, entity))
    BY <2>1, DescribesReady, Saving DEF Save
  <2>3. QED
    BY <2>1, <2>2, DescribesTransitive DEF issued
<1> HIDE DEF known
<1>9. Ready(known) /\ Rooted(known.cm.contexts)
  BY <1>5, <1>8, DescribesReady DEF Describes
<1>10. Maps(known, gen', {})
  BY <1>1, <1>9, MapsFunction
<1>11. Maps(gen, gen', {})
  <2>1. Maps(gen, entered, {})
    BY <1>3, MapsSame
  <2>2. QED
    BY <1>7, <1>10, <2>1, MapsThen
<1>12. MapSound(gen) /\ MapComplete(gen, {})
  BY <1>1 DEF MapInv, Expected, Stays
<1>13. MapSound(gen') /\ MapComplete(gen', {}) /\ Expected' = {}
  <2>1. pc' \notin Stays
    BY <1>1 DEF Stays
  <2>2. QED
    BY <1>11, <1>12, <2>1, MapKeptAll DEF Expected
<1>14. ParametersInMap'
  <2>1. at'.function = at.function /\ at'.param = 1
    BY <1>1, AtCounters DEF Counters
  <2>2. Fun' = Fun
    BY <1>1, <2>1, SameFunction
  <2>3. CASE Fun.decl
    BY <2>2, <2>3 DEF ParametersInMap
  <2>4. CASE ~Fun.decl
    <3>1. IsList(Fun.params)
      <4>1. module \in DOMAIN Prog.modules /\ IsList(Mod.functions)
        BY <1>1, PlaceExists DEF Inv, InModule
      <4>2. at.function \in DOMAIN Mod.functions
        BY <4>1, ListIsSeq, AtCounters DEF EnterFunction
      <4>3. FunctionAssumption(Fun)
        BY <4>1, <4>2, ProgramsAssumption DEF Inv, Place, Fun, Mod, Prog
      <4>4. QED
        BY <4>3 DEF FunctionAssumption
    <3>2. \A n \in DOMAIN Fun.params : ~(n < 1)
      BY <3>1, ListNumbered
    <3>3. pc' = "params"
      BY <1>1, <2>4
    <3>4. QED
      BY <2>1, <2>2, <3>2, <3>3 DEF ParametersInMap
  <2>5. QED
    BY <2>3, <2>4
<1>15. ResultsInMap'
  BY <1>1 DEF ResultsInMap, Stays
<1>16. QED
  BY <1>13, <1>14, <1>15 DEF MapInv

LEMMA MapStepParameter ==
  ASSUME Inv, MapInv, NextParameter
  PROVE  MapInv'
<1> DEFINE a == Arg(at.param)
           ref == ValueRefmode(Mod, gen.cm, a)
           e == ValueEntity(at.function, a)
           v == VariableAs(gen, a, ref)
           saved == Save(v.gen, ref, e)
<1>1. /\ pc = "params" /\ pc' = "params"
      /\ at' = [at EXCEPT !.param = @ + 1] /\ UNCHANGED <<program, module>>
      /\ gen' = WriteParameter(Variable(gen, a), FunctionRefmode(gen.cm, Fun), at.param)
  BY DEF NextParameter
<1>2. Ready(gen) /\ InTheFunction(gen.cm)
  BY <1>1, InvReady, FunctionStacks DEF Inv, Stack, InModule, InFunction, InBlock_
<1>3. a.kind \in {"arg", "instr"}
  BY DEF Arg
<1>4. ref = LocalRef(Mod, Fun, a)
  BY <1>2, <1>3, LocalRefmode
<1>5. v.ref = ref /\ \E facts : gen' = WriteFacts(saved, facts)
  BY <1>1 DEF WriteParameter, Variable, VariableAs
<1> HIDE DEF a, ref, e
<1>6. /\ IsGenerator(v.gen) /\ Maps(gen, v.gen, {<<ref, e>>})
      /\ v.gen.issued = gen.issued \cup {<<ref, e>>}
  BY <1>2, MapsVariable DEF e
<1> HIDE DEF v
<1>7. Maps(v.gen, saved, {}) /\ ref \in DOMAIN saved.results
  BY <1>6, MapsSave
<1>8. IsGenerator(saved)
  BY <1>6, SavedAll DEF Save
<1> HIDE DEF saved
<1>9. Maps(saved, gen', {})
  BY <1>5, <1>8, MapsOther
<1>10. ref \in DOMAIN gen'.results
  BY <1>7, <1>9 DEF Maps
<1>11. MapSound(gen) /\ MapComplete(gen, {})
  BY <1>1 DEF MapInv, Expected, Stays
<1>12. MapSound(gen') /\ MapComplete(gen', {}) /\ DOMAIN gen.results \subseteq DOMAIN gen'.results
  <2> DEFINE Q == {<<ref, e>>}
  <2>1. Maps(v.gen, gen', {})
    BY <1>7, <1>9, MapsThen
  <2>2. Maps(v.gen, gen', Q)
    BY <2>1, MapsMore
  <2>3. Maps(gen, gen', Q)
    BY <1>6, <2>2, MapsTransitive
  <2>4. \A q \in Q : InMap(gen', q[1])
    BY <1>4, <1>10, LocalRefsLong DEF InMap
  <2> HIDE DEF Q
  <2>5. QED
    BY <1>11, <2>3, <2>4, MapKept
<1>13. ParametersInMap'
  <2>1. at'.function = at.function /\ at'.param = at.param + 1
    BY <1>1, AtCounters DEF Counters
  <2>2. Fun' = Fun /\ Mod' = Mod
    BY <1>1, <2>1, SameFunction
  <2>3. ASSUME ~Fun.decl, NEW n \in DOMAIN Fun.params, n < at.param + 1
        PROVE  LocalRef(Mod, Fun, Arg(n)) \in DOMAIN gen'.results
    <3>1. CASE n = at.param
      BY <1>4, <1>10, <3>1 DEF a
    <3>2. CASE n # at.param
      <4>1. pc \in InModule /\ pc \in InFunction
        BY <1>1 DEF InModule, InFunction
      <4>2. IsList(Fun.params)
        BY <4>1, PlaceExists DEF Inv, FunctionAssumption
      <4>3. n \in Nat /\ at.param \in Nat
        BY <4>2, ListNumbered, AtCounters
      <4>4. n < at.param
        BY <2>3, <3>2, <4>3
      <4>5. QED
        BY <1>1, <1>12, <2>3, <4>1, <4>4 DEF MapInv, ParametersInMap
    <3>3. QED
      BY <3>1, <3>2
  <2>4. QED
    BY <1>1, <2>1, <2>2, <2>3 DEF ParametersInMap
<1>14. Expected' = {} /\ ResultsInMap'
  BY <1>1 DEF Expected, ResultsInMap, Stays
<1>15. QED
  BY <1>12, <1>13, <1>14 DEF MapInv

LEMMA MapStepNoMoreParameters ==
  ASSUME Inv, MapInv, NoMoreParameters
  PROVE  MapInv'
<1>1. /\ pc = "params" /\ pc' = "signatures" /\ at.param > Len(Fun.params)
      /\ at' = at /\ gen' = gen /\ UNCHANGED <<program, module>>
  BY DEF NoMoreParameters
<1>2. Fun' = Fun /\ Mod' = Mod
  BY <1>1, SameFunction
<1>3. \A n \in DOMAIN Fun.params : n < at.param
  <2>1. pc \in InModule /\ pc \in InFunction
    BY <1>1 DEF InModule, InFunction
  <2>2. IsList(Fun.params)
    BY <2>1, PlaceExists DEF Inv, FunctionAssumption
  <2> DEFINE n == Len(Fun.params)
  <2>3. n \in Nat /\ \A i \in DOMAIN Fun.params : i \in Nat \ {0} /\ i <= n
    BY <2>2, ListNumbered
  <2>4. at.param \in Nat /\ at.param > n
    BY <1>1, AtCounters
  <2> HIDE DEF n
  <2>5. QED
    BY <2>3, <2>4
<1>4. ParametersInMap'
  BY <1>1, <1>2, <1>3 DEF MapInv, ParametersInMap, InFunction
<1>5. Expected' = {} /\ Expected = {} /\ ResultsInMap'
  BY <1>1 DEF Expected, ResultsInMap, Stays
<1>6. QED
  BY <1>1, <1>4, <1>5 DEF MapInv

LEMMA MapStepApplySignatures ==
  ASSUME Inv, MapInv, ApplySignatures
  PROVE  MapInv'
<1> DEFINE signed == WriteFacts(gen, EmitMatchingSignatures.produced)
<1>1. /\ pc = "signatures" /\ UNCHANGED <<program, module>>
      /\ gen' \in {signed, [signed EXCEPT !.cm = PopContext(@)]}
      /\ \/ pc' \in {"invalid_argument", "function"}
         \/ pc' = "block" /\ at' = [at EXCEPT !.block = 1]
  BY DEF ApplySignatures
<1>2. gen'.issued = gen.issued /\ gen'.results = gen.results
  <2>1. IsGenerator(signed) /\ signed.issued = gen.issued /\ signed.results = gen.results
    BY DEF Inv, WriteFacts, IsGenerator, GeneratorFields
  <2> HIDE DEF signed
  <2>2. QED
    BY <1>1, <2>1 DEF IsGenerator, GeneratorFields
<1> HIDE DEF signed
<1>3. MapSound(gen) /\ MapComplete(gen, {})
  BY <1>1 DEF MapInv, Expected, Stays
<1>4. MapSound(gen') /\ \A P : MapComplete(gen', P)
  BY <1>2, <1>3 DEF MapSound, MapComplete, InMap
<1>5. CASE pc' \in {"invalid_argument", "function"}
  BY <1>4, <1>5 DEF MapInv, ParametersInMap, ResultsInMap, InFunction, Stays
<1>6. CASE pc' = "block" /\ at' = [at EXCEPT !.block = 1]
  <2>1. at'.function = at.function /\ at'.block = 1
    BY <1>6, AtCounters DEF Counters
  <2>2. Fun' = Fun /\ Mod' = Mod
    BY <1>1, <2>1, SameFunction
  <2>3. pc \in InModule /\ pc \in InFunction
    BY <1>1 DEF InModule, InFunction
  <2>4. ParametersInMap'
    BY <1>1, <1>2, <1>6, <2>2, <2>3 DEF MapInv, ParametersInMap
  <2>5. ResultsInMap'
    <3>1. IsList(Fun.blocks)
      BY <2>3, PlaceExists DEF Inv, FunctionAssumption
    <3>2. \A b \in DOMAIN Fun.blocks : ~(b < 1)
      BY <3>1, ListNumbered
    <3>3. \A b, i : IsResult(Fun, b, i) => ~Passed(b, i)'
      BY <1>6, <2>1, <3>2 DEF Passed, IsResult
    <3>4. QED
      BY <2>2, <3>3 DEF ResultsInMap
  <2>6. QED
    BY <1>4, <2>4, <2>5 DEF MapInv
<1>7. QED
  BY <1>1, <1>5, <1>6

(* Blocks and instructions. *)
LEMMA ResultPlaces ==
  ASSUME Inv, pc \in InFunction
  PROVE  /\ Len(Fun.blocks) \in Nat
         /\ \A b, i : IsResult(Fun, b, i) =>
              /\ b \in Nat \ {0} /\ b <= Len(Fun.blocks)
              /\ i \in Nat \ {0} /\ i <= Len(Fun.blocks[b].instrs)
              /\ Len(Fun.blocks[b].instrs) \in Nat
<1>1. IsList(Fun.blocks) /\ \A b \in DOMAIN Fun.blocks : IsList(Fun.blocks[b].instrs)
  BY PlaceExists DEF Inv, FunctionAssumption, InFunction, InModule
<1>2. Len(Fun.blocks) \in Nat
  BY <1>1, ListNumbered
<1>3. ASSUME NEW b, NEW i, IsResult(Fun, b, i)
      PROVE  /\ b \in Nat \ {0} /\ b <= Len(Fun.blocks)
             /\ i \in Nat \ {0} /\ i <= Len(Fun.blocks[b].instrs)
             /\ Len(Fun.blocks[b].instrs) \in Nat
  <2>1. b \in DOMAIN Fun.blocks /\ i \in DOMAIN Fun.blocks[b].instrs
    BY <1>3 DEF IsResult
  <2>2. IsList(Fun.blocks[b].instrs)
    BY <1>1, <2>1
  <2>3. b \in Nat \ {0} /\ b <= Len(Fun.blocks)
    BY <1>1, <2>1, ListNumbered
  <2>4. /\ i \in Nat \ {0} /\ i <= Len(Fun.blocks[b].instrs)
        /\ Len(Fun.blocks[b].instrs) \in Nat
    BY <2>1, <2>2, ListNumbered
  <2>5. QED
    BY <2>3, <2>4
<1>4. QED
  BY <1>2, <1>3

(* A step that stays in the function and visits no further instruction. *)
LEMMA MapStays ==
  ASSUME MapInv, pc \in Stays, pc' \in Stays, UNCHANGED <<program, module>>,
         at'.function = at.function, MapSound(gen'), MapComplete(gen', Expected),
         DOMAIN gen.results \subseteq DOMAIN gen'.results,
         \A b, i : IsResult(Fun, b, i) /\ Passed(b, i)' =>
                     \/ Passed(b, i)
                     \/ LocalRef(Mod, Fun, Instr(b, i)) \in DOMAIN gen'.results
  PROVE  MapInv'
<1>1. Fun' = Fun /\ Mod' = Mod
  BY SameFunction
<1>2. Expected' = Expected
  BY <1>1 DEF Expected
<1>3. ParametersInMap'
  <2>1. pc \in InFunction /\ pc # "params"
    BY DEF Stays, InFunction
  <2>2. ~Fun.decl => \A n \in DOMAIN Fun.params : LocalRef(Mod, Fun, Arg(n)) \in DOMAIN gen.results
    BY <2>1 DEF MapInv, ParametersInMap
  <2>3. QED
    BY <1>1, <2>2 DEF ParametersInMap
<1>4. ResultsInMap'
  <2>1. \A b, i : IsResult(Fun, b, i) /\ Passed(b, i) =>
                    LocalRef(Mod, Fun, Instr(b, i)) \in DOMAIN gen.results
    BY DEF MapInv, ResultsInMap
  <2>2. \A b, i : IsResult(Fun, b, i) /\ Passed(b, i)' =>
                    LocalRef(Mod, Fun, Instr(b, i)) \in DOMAIN gen'.results
    BY <2>1
  <2>3. QED
    BY <1>1, <2>2 DEF ResultsInMap
<1>5. QED
  BY <1>2, <1>3, <1>4 DEF MapInv

LEMMA MapStepEnterBlock ==
  ASSUME Inv, MapInv, EnterBlock
  PROVE  MapInv'
<1> DEFINE entered == [gen EXCEPT !.cm = PushContext(Mod, @, <<at.function, at.block>>)]
           self == BasicBlockRefmode(Mod, entered.cm, at.block)
           e == ValueEntity(at.function, Block(at.block))
           issued == Issue(entered, self, e)
<1>1. /\ pc = "block" /\ pc' = "instr"
      /\ at' = [at EXCEPT !.instr = 1] /\ UNCHANGED <<program, module>>
      /\ \E facts : gen' = WriteFacts(issued, facts)
  BY DEF EnterBlock
<1>2. IsGenerator(entered) /\ entered.issued = gen.issued /\ entered.results = gen.results
  BY DEF Inv, IsGenerator, GeneratorFields
<1>3. ~Needed(e)
  BY DEF Needed, ValueEntity, Block
<1> HIDE DEF entered, self, e
<1>4. Maps(gen, entered, {}) /\ Maps(entered, issued, {})
  BY <1>2, <1>3, MapsSame, MapsIssue
<1>5. IsGenerator(issued)
  BY <1>2 DEF Issue, IsGenerator, GeneratorFields
<1> HIDE DEF issued
<1>6. Maps(gen, gen', {})
  <2>1. Maps(issued, gen', {})
    BY <1>1, <1>5, MapsOther
  <2>2. QED
    BY <1>4, <2>1, MapsThen
<1>7. /\ MapSound(gen') /\ MapComplete(gen', Expected)
      /\ DOMAIN gen.results \subseteq DOMAIN gen'.results
  BY <1>6, MapKeptAll DEF MapInv
<1>8. at'.function = at.function /\ at'.block = at.block /\ at'.instr = 1
  BY <1>1, AtCounters DEF Counters
<1>9. \A b, i : IsResult(Fun, b, i) /\ Passed(b, i)' => Passed(b, i)
  <2>1. pc \in InFunction
    BY <1>1 DEF InFunction
  <2>2. \A b, i : IsResult(Fun, b, i) => i \in Nat \ {0}
    BY <2>1, ResultPlaces
  <2>3. QED
    BY <1>1, <1>8, <2>2 DEF Passed
<1>10. QED
  BY <1>1, <1>7, <1>8, <1>9, MapStays DEF Stays

LEMMA MapStepEnterInstruction ==
  ASSUME Inv, MapInv, EnterInstruction
  PROVE  MapInv'
<1> DEFINE place == <<at.function, at.block, at.instr>>
           entered == [gen EXCEPT !.cm = PushContext(Mod, @, place)]
           iref == InstructionRefmode(entered.cm)
           entity == InstrEntity(at.function, at.block, at.instr)
           self == Instr(at.block, at.instr)
           issued == Issue(entered, iref, entity)
           known == Save(issued, iref, entity)
           ref == ValueRefmode(Mod, known.cm, self)
           e == ValueEntity(at.function, self)
           target == VariableAs(known, self, ref)
           written == WriteFacts(target.gen, {Fact("instr", "assigns_to", <<iref, ref>>)})
           result == Save(written, ref, e)
           assigned == IF Ins.type = "void" THEN known ELSE result
<1>1. /\ pc = "instr" /\ pc' = "visit" /\ at.instr <= Len(Blk.instrs)
      /\ at' = [at EXCEPT !.request = 1] /\ UNCHANGED <<program, module>>
  BY DEF EnterInstruction
<1>2. \E facts : gen' = WriteFacts(assigned, facts)
  <2>1. gen' = PlaceInstruction(IF Ins.type = "void" THEN known
                                ELSE AssignTo(Variable(known, self), iref, e), iref, Ins)
    BY DEF EnterInstruction
  <2>2. AssignTo(Variable(known, self), iref, e) = result
    <3> HIDE DEF known, iref, self, e
    <3>1. QED
      BY DEF AssignTo, Variable, VariableAs
  <2> HIDE DEF known, result, iref
  <2>3. gen' = PlaceInstruction(assigned, iref, Ins)
    BY <2>1, <2>2
  <2> HIDE DEF assigned
  <2>4. QED
    BY <2>3 DEF PlaceInstruction
<1>3. /\ Ready(gen) /\ gen.cm.contexts = <<ModuleContext, OfFunction, OfBlock>>
      /\ gen.cm.iFunctionCtx = 2
  BY <1>1, InvReady DEF Inv, Stack, InModule, InFunction, InBlock_
<1>4. /\ IsGenerator(entered) /\ entered.cm = PushContext(Mod, gen.cm, place)
      /\ entered.issued = gen.issued /\ entered.results = gen.results
  BY <1>3 DEF Ready, IsGenerator, GeneratorFields
<1> DEFINE prefix == ToString(gen.cm.instrIndex)
<1>5. /\ Ready(entered)
      /\ entered.cm.contexts = Append(gen.cm.contexts, OfInstruction(prefix))
      /\ entered.cm.iFunctionCtx = 2
  BY <1>3, <1>4, PushingInstruction DEF Ready
<1> HIDE DEF prefix
<1>6. entered.cm.contexts = <<ModuleContext, OfFunction, OfBlock, OfInstruction(prefix)>>
  BY <1>3, <1>5, StackOfFour
<1> HIDE DEF entered
<1>7. Long(iref)
  BY <1>6, RootedStacks, InstructionsLong
<1> HIDE DEF iref, entity
<1>8. IsGenerator(known) /\ Maps(entered, known, {})
  BY <1>4, <1>7, MapsEntity
<1>9. Describes(entered, known)
  <2>1. Describes(entered, issued)
    BY <1>5, Issuing
  <2> HIDE DEF issued
  <2>2. Describes(issued, known)
    BY <2>1, DescribesReady, Saving DEF Save
  <2> HIDE DEF known
  <2>3. QED
    BY <2>1, <2>2, DescribesTransitive
<1> HIDE DEF known
<1>10. Ready(known) /\ InTheFunction(known.cm)
  <2>1. known.cm.contexts = entered.cm.contexts /\ known.cm.iFunctionCtx = 2
    BY <1>5, <1>9 DEF Describes
  <2>2. QED
    BY <1>6, <1>9, <2>1, FunctionStacks, DescribesReady
<1>11. ref = LocalRef(Mod, Fun, self)
  <2>1. self.kind \in {"arg", "instr"}
    BY DEF Instr
  <2> HIDE DEF self
  <2>2. QED
    BY <1>10, <2>1, LocalRefmode
<1>12. Maps(gen, known, {})
  <2>1. Maps(gen, entered, {})
    BY <1>4, MapsSame
  <2>2. QED
    BY <1>8, <2>1, MapsThen
<1> HIDE DEF ref, self
<1>13. /\ IsGenerator(target.gen) /\ Maps(known, target.gen, {<<ref, e>>})
       /\ target.gen.issued = known.issued \cup {<<ref, e>>}
  BY <1>10, MapsVariable
<1> HIDE DEF target, e
<1>14. /\ IsGenerator(written) /\ Maps(target.gen, written, {})
       /\ written.issued = target.gen.issued
  BY <1>13, MapsOther DEF WriteFacts, IsGenerator, GeneratorFields
<1> HIDE DEF written
<1>15. IsGenerator(result) /\ Maps(written, result, {}) /\ ref \in DOMAIN result.results
  <2>1. <<ref, e>> \in written.issued
    BY <1>13, <1>14
  <2>2. Maps(written, result, {}) /\ ref \in DOMAIN result.results
    BY <1>14, <2>1, MapsSave
  <2>3. IsGenerator(result)
    BY <1>14, SavedAll DEF Save
  <2>4. QED
    BY <2>2, <2>3
<1> HIDE DEF result
<1>16. Maps(gen, result, {})
  <2> DEFINE Q == {<<ref, e>>}
  <2>1. Maps(target.gen, result, {})
    BY <1>14, <1>15, MapsThen
  <2>2. Maps(target.gen, result, Q)
    BY <2>1, MapsMore
  <2>3. Maps(known, result, Q)
    BY <1>13, <2>2, MapsTransitive
  <2>4. \A q \in Q : Long(q[1]) /\ q[1] \in DOMAIN result.results
    BY <1>11, <1>15, LocalRefsLong
  <2> HIDE DEF Q
  <2>5. Maps(known, result, {})
    BY <2>3, <2>4, MapsSaved
  <2>6. QED
    BY <1>12, <2>5, MapsThen
<1>17. /\ IsGenerator(assigned) /\ Maps(gen, assigned, {})
       /\ Ins.type # "void" => ref \in DOMAIN assigned.results
  BY <1>8, <1>12, <1>15, <1>16
<1> HIDE DEF assigned
<1>18. Maps(assigned, gen', {}) /\ DOMAIN assigned.results \subseteq DOMAIN gen'.results
  BY <1>2, <1>17, MapsOther DEF Maps
<1>19. Maps(gen, gen', {})
  BY <1>17, <1>18, MapsThen
<1>20. /\ MapSound(gen') /\ MapComplete(gen', Expected)
       /\ DOMAIN gen.results \subseteq DOMAIN gen'.results
  BY <1>19, MapKeptAll DEF MapInv
<1>21. /\ at'.function = at.function /\ at'.block = at.block /\ at'.instr = at.instr
  BY <1>1, AtCounters DEF Counters
<1>22. ASSUME NEW b, NEW i, IsResult(Fun, b, i), Passed(b, i)'
       PROVE  Passed(b, i) \/ LocalRef(Mod, Fun, Instr(b, i)) \in DOMAIN gen'.results
  <2>1. CASE b = at.block /\ i = at.instr
    <3>1. Ins.type # "void"
      BY <1>22, <2>1 DEF IsResult, Ins, Blk
    <3>2. QED
      BY <1>11, <1>17, <1>18, <2>1, <3>1 DEF self
  <2>2. CASE ~(b = at.block /\ i = at.instr)
    BY <1>1, <1>21, <1>22, <2>2 DEF Passed
  <2>3. QED
    BY <2>1, <2>2
<1>23. QED
  BY <1>1, <1>20, <1>21, <1>22, MapStays DEF Stays

LEMMA MapStepNextRequest ==
  ASSUME Inv, MapInv, NextRequest
  PROVE  MapInv'
<1> DEFINE r == Visit(Ins)[at.request]
           own == r.what \in {"operand", "indexed", "gepindex"} /\ r.value.kind \in {"arg", "instr"}
           ref == ValueRefmode(Mod, gen.cm, r.value)
           e == ValueEntity(at.function, r.value)
           Q == IF own THEN {<<ref, e>>} ELSE {}
<1>1. /\ pc = "visit" /\ pc' = "visit" /\ at.request <= Len(Visit(Ins))
      /\ at' = [at EXCEPT !.request = @ + 1] /\ UNCHANGED <<program, module>>
      /\ gen' = Execute(gen, InstructionRefmode(gen.cm), Ins.pos, r)
  BY DEF NextRequest
<1>2. pc \in InModule /\ pc \in InFunction /\ pc \in InBlock_ /\ pc \in Stays
  BY <1>1 DEF InModule, InFunction, InBlock_, Stays
<1>3. Ready(gen) /\ Rooted(gen.cm.contexts) /\ InTheFunction(gen.cm)
  BY <1>1, <1>2, InvRooted, FunctionStacks DEF Inv, Stack
<1>4. /\ InstructionAssumption(Fun, Ins) /\ FunctionAssumption(Fun)
      /\ at.block \in DOMAIN Fun.blocks
  BY <1>1, <1>2, PlaceExists DEF Inv
<1>5. Asks(Visit(Ins))
  BY <1>4, VisitorAsks DEF InstructionAssumption
<1>6. Harmless(r) /\ at.request \in DOMAIN Visit(Ins)
  <2>1. PICK S : Visit(Ins) \in Seq(S)
    BY <1>5 DEF Asks
  <2>2. at.request \in DOMAIN Visit(Ins)
    BY <1>1, <2>1, AtCounters, LenProperties
  <2>3. QED
    BY <1>1, <1>5, <2>2, AtCounters, RequestHarmless
<1>7. own => ref = LocalRef(Mod, Fun, r.value)
  BY <1>3, LocalRefmode
<1>8. own => \/ LocalRef(Mod, Fun, r.value) \in DOMAIN gen.results
             \/ LocalRef(Mod, Fun, r.value) \in Expected
  <2>1. SUFFICES ASSUME own
                 PROVE  \/ LocalRef(Mod, Fun, r.value) \in DOMAIN gen.results
                        \/ LocalRef(Mod, Fun, r.value) \in Expected
    OBVIOUS
  <2>2. OwnValue(Fun, r.value)
    BY <1>4, <1>6, <2>1 DEF InstructionAssumption
  <2> DEFINE v == r.value
  <2>3. v.kind = "arg" \/ v.kind = "instr"
    BY <2>1
  <2>4. OwnValue(Fun, v)
    BY <2>2
  <2> HIDE DEF v
  <2>5. CASE v.kind = "arg"
    <3>1. PICK n \in DOMAIN Fun.params : v = Arg(n)
      BY <2>4, <2>5 DEF OwnValue
    <3>2. Fun.blocks # <<>>
      BY <1>4
    <3>3. ~Fun.decl
      BY <1>4, <3>2 DEF FunctionAssumption
    <3>4. LocalRef(Mod, Fun, v) \in DOMAIN gen.results
      BY <1>1, <1>2, <3>1, <3>3 DEF MapInv, ParametersInMap
    <3>5. QED
      BY <3>4 DEF v
  <2>6. CASE v.kind = "instr"
    <3>1. PICK b \in DOMAIN Fun.blocks :
            \E i \in DOMAIN Fun.blocks[b].instrs :
              v = Instr(b, i) /\ Fun.blocks[b].instrs[i].type # "void"
      BY <2>4, <2>6 DEF OwnValue
    <3>2. PICK i \in DOMAIN Fun.blocks[b].instrs :
            v = Instr(b, i) /\ Fun.blocks[b].instrs[i].type # "void"
      BY <3>1
    <3>3. IsResult(Fun, b, i)
      BY <3>2 DEF IsResult
    <3>4. LocalRef(Mod, Fun, Instr(b, i)) \in ResultRefs(Mod, Fun)
      BY <3>3 DEF ResultRefs
    <3>5. LocalRef(Mod, Fun, v) \in Expected
      BY <1>2, <3>2, <3>4 DEF Expected
    <3>6. QED
      BY <3>5 DEF v
  <2>7. QED
    BY <2>3, <2>5, <2>6
<1> HIDE DEF r
<1>9. Maps(gen, gen', Q)
  <2>1. own => <<ref, e>> \in Q
    OBVIOUS
  <2>2. QED
    BY <1>1, <1>3, <1>6, <2>1, MapsRequest
<1>10. DOMAIN gen.results \subseteq DOMAIN gen'.results
  BY <1>9 DEF Maps
<1>11. \A q \in Q : InMap(gen', q[1]) \/ q[1] \in Expected
  <2>1. \A q \in Q : own /\ q[1] = ref
    OBVIOUS
  <2>2. Long(LocalRef(Mod, Fun, r.value))
    BY LocalRefsLong
  <2> HIDE DEF Q, own, ref
  <2>3. QED
    BY <1>7, <1>8, <1>10, <2>1, <2>2 DEF InMap
<1> HIDE DEF Q
<1>12. MapSound(gen') /\ MapComplete(gen', Expected)
  BY <1>9, <1>11, MapKept DEF MapInv
<1>13. /\ at'.function = at.function /\ at'.block = at.block /\ at'.instr = at.instr
  BY <1>1, AtCounters DEF Counters
<1>14. \A b, i : Passed(b, i)' => Passed(b, i)
  BY <1>1, <1>13 DEF Passed
<1>15. QED
  BY <1>1, <1>2, <1>10, <1>12, <1>13, <1>14, MapStays

(* Leaving. *)
LEMMA MapSame ==
  ASSUME MapInv, gen'.issued = gen.issued, gen'.results = gen.results
  PROVE  /\ MapSound(gen') /\ MapComplete(gen', Expected)
         /\ DOMAIN gen.results \subseteq DOMAIN gen'.results
  BY DEF MapInv, MapSound, MapComplete, InMap

LEMMA MapStepLeaveInstruction ==
  ASSUME Inv, MapInv, LeaveInstruction
  PROVE  MapInv'
<1>1. /\ pc = "visit" /\ pc' = "instr" /\ UNCHANGED <<program, module>>
      /\ at' = [at EXCEPT !.instr = @ + 1] /\ gen' = [gen EXCEPT !.cm = PopContext(@)]
  BY DEF LeaveInstruction
<1>2. gen'.issued = gen.issued /\ gen'.results = gen.results
  BY <1>1 DEF Inv, IsGenerator, GeneratorFields
<1>3. /\ at'.function = at.function /\ at'.block = at.block /\ at'.instr = at.instr + 1
  BY <1>1, AtCounters DEF Counters
<1>4. \A b, i : IsResult(Fun, b, i) /\ Passed(b, i)' => Passed(b, i)
  <2>1. pc \in InFunction
    BY <1>1 DEF InFunction
  <2>2. \A b, i : IsResult(Fun, b, i) => i \in Nat
    BY <2>1, ResultPlaces
  <2>3. at.instr \in Nat
    BY AtCounters
  <2>4. \A i \in Nat : i < at.instr + 1 => i < at.instr \/ i = at.instr
    BY <2>3
  <2>5. QED
    BY <1>1, <1>3, <2>2, <2>4 DEF Passed
<1>5. QED
  BY <1>1, <1>2, <1>3, <1>4, MapSame, MapStays DEF Stays

LEMMA MapStepLeaveBlock ==
  ASSUME Inv, MapInv, LeaveBlock
  PROVE  MapInv'
<1>1. /\ pc = "instr" /\ pc' = "block" /\ UNCHANGED <<program, module>>
      /\ at.instr > Len(Fun.blocks[at.block].instrs)
      /\ at' = [at EXCEPT !.block = @ + 1] /\ gen' = [gen EXCEPT !.cm = PopContext(@)]
  BY DEF LeaveBlock, Blk
<1>2. gen'.issued = gen.issued /\ gen'.results = gen.results
  BY <1>1 DEF Inv, IsGenerator, GeneratorFields
<1>3. /\ at'.function = at.function /\ at'.block = at.block + 1
  BY <1>1, AtCounters DEF Counters
<1>4. ASSUME NEW b, NEW i, IsResult(Fun, b, i), Passed(b, i)'
      PROVE  Passed(b, i)
  <2>1. pc \in InFunction
    BY <1>1 DEF InFunction
  <2> DEFINE n == Len(Fun.blocks[b].instrs)
  <2>2. b \in Nat /\ i \in Nat /\ n \in Nat /\ i <= n
    BY <1>4, <2>1, ResultPlaces
  <2>3. at.block \in Nat /\ at.instr \in Nat
    BY AtCounters
  <2>4. b < at.block + 1
    BY <1>1, <1>3, <1>4, <2>2, <2>3 DEF Passed
  <2>5. CASE b = at.block
    <3>1. at.instr > n
      BY <1>1, <2>5
    <3> HIDE DEF n
    <3>2. i < at.instr
      BY <2>2, <2>3, <3>1
    <3>3. QED
      BY <1>1, <2>5, <3>2 DEF Passed
  <2>6. CASE b # at.block
    <3> HIDE DEF n
    <3>1. b < at.block
      BY <2>2, <2>3, <2>4, <2>6
    <3>2. QED
      BY <3>1 DEF Passed
  <2>7. QED
    BY <2>5, <2>6
<1>5. QED
  BY <1>1, <1>2, <1>3, <1>4, MapSame, MapStays DEF Stays

(* When the function is left, its results have been visited. *)
LEMMA MapStepLeaveFunction ==
  ASSUME Inv, MapInv, LeaveFunction
  PROVE  MapInv'
<1> DEFINE written == WriteLocalVariables(gen)
<1>1. /\ pc = "block" /\ pc' = "function" /\ at.block > Len(Fun.blocks)
      /\ gen' = [written EXCEPT !.cm = PopContext(@)]
  BY DEF LeaveFunction
<1>2. gen'.issued = gen.issued /\ gen'.results = gen.results
  <2>1. IsGenerator(written) /\ written.issued = gen.issued /\ written.results = gen.results
    BY DEF Inv, WriteLocalVariables, WriteFacts, IsGenerator, GeneratorFields
  <2> HIDE DEF written
  <2>2. QED
    BY <1>1, <2>1 DEF IsGenerator, GeneratorFields
<1>3. \A b, i : IsResult(Fun, b, i) => Passed(b, i)
  <2>1. pc \in InFunction
    BY <1>1 DEF InFunction
  <2> DEFINE n == Len(Fun.blocks)
  <2>2. n \in Nat /\ \A b, i : IsResult(Fun, b, i) => b \in Nat /\ b <= n
    BY <2>1, ResultPlaces
  <2>3. at.block \in Nat /\ at.block > n
    BY <1>1, AtCounters
  <2> HIDE DEF n
  <2>4. \A b, i : IsResult(Fun, b, i) => b < at.block
    BY <2>2, <2>3
  <2>5. QED
    BY <2>4 DEF Passed
<1>4. \A ref \in ResultRefs(Mod, Fun) : ref \in DOMAIN gen.results /\ Long(ref)
  <2>1. \A b, i : IsResult(Fun, b, i) => LocalRef(Mod, Fun, Instr(b, i)) \in DOMAIN gen.results
    BY <1>1, <1>3 DEF MapInv, ResultsInMap, Stays
  <2>2. \A ref \in ResultRefs(Mod, Fun) :
          \E b, i : IsResult(Fun, b, i) /\ ref = LocalRef(Mod, Fun, Instr(b, i))
    BY DEF ResultRefs
  <2>3. QED
    BY <2>1, <2>2, LocalRefsLong
<1>5. MapSound(gen) /\ MapComplete(gen, ResultRefs(Mod, Fun))
  BY <1>1 DEF MapInv, Expected, Stays
<1>6. MapSound(gen') /\ MapComplete(gen', {})
  BY <1>2, <1>4, <1>5 DEF MapSound, MapComplete, InMap
<1>7. QED
  BY <1>1, <1>6 DEF MapInv, Expected, ParametersInMap, ResultsInMap, InFunction, Stays

LEMMA MapStepStutter ==
  ASSUME MapInv, UNCHANGED vars
  PROVE  MapInv'
<1>1. Fun' = Fun /\ Mod' = Mod
  BY DEF vars, Fun, Mod, Prog
<1>2. Expected' = Expected
  BY <1>1 DEF vars, Expected
<1>3. ParametersInMap' /\ ResultsInMap'
  BY <1>1 DEF vars, MapInv, ParametersInMap, ResultsInMap, Passed
<1>4. QED
  BY <1>2, <1>3 DEF vars, MapInv

LEMMA MapInvariance == Spec => []MapInv
<1>1. Inv /\ MapInv /\ [Next]_vars => MapInv'
  <2>1. SUFFICES ASSUME Inv, MapInv, [Next]_vars
                 PROVE  MapInv'
    OBVIOUS
  <2>2. CASE \/ Finish \/ ParseFails \/ EnterModule \/ NextGlobal \/ NoMoreGlobals
             \/ NextAlias \/ WriteOptions \/ LeaveModule
    BY <2>1, <2>2, MapStepOutside
  <2>3. CASE EnterFunction
    BY <2>1, <2>3, MapStepEnterFunction
  <2>4. CASE NextParameter
    BY <2>1, <2>4, MapStepParameter
  <2>5. CASE NoMoreParameters
    BY <2>1, <2>5, MapStepNoMoreParameters
  <2>6. CASE ApplySignatures
    BY <2>1, <2>6, MapStepApplySignatures
  <2>7. CASE EnterBlock
    BY <2>1, <2>7, MapStepEnterBlock
  <2>8. CASE EnterInstruction
    BY <2>1, <2>8, MapStepEnterInstruction
  <2>9. CASE NextRequest
    BY <2>1, <2>9, MapStepNextRequest
  <2>10. CASE LeaveInstruction
    BY <2>1, <2>10, MapStepLeaveInstruction
  <2>11. CASE LeaveBlock
    BY <2>1, <2>11, MapStepLeaveBlock
  <2>12. CASE LeaveFunction
    BY <2>1, <2>12, MapStepLeaveFunction
  <2>13. CASE UNCHANGED vars
    BY <2>1, <2>13, MapStepStutter
  <2>14. QED
    BY <2>1, <2>2, <2>3, <2>4, <2>5, <2>6, <2>7, <2>8, <2>9, <2>10, <2>11, <2>12, <2>13 DEF Next
<1>2. QED
  BY <1>1, InitMap, Invariance, PTL DEF Spec

(* What results can name, the query interface finds: for every program in  *)
(* whose run no two entities get the same refmode, the map leads from the  *)
(* refmode of each instruction, function, constant, parameter and result   *)
(* to that very value.  An operand may be named before it is visited, as   *)
(* in a loop; that it is visited later, in this function, and under the    *)
(* same refmode although the contexts differ, is what this rests on.       *)
THEOREM ResultsFound == Spec => [](EntitiesIdentified => ResultMapComplete)
<1>1. MapInv => (EntitiesIdentified => ResultMapComplete)
  <2>1. SUFFICES ASSUME MapInv, EntitiesIdentified, pc = "done",
                        NEW p \in gen.issued, Needed(p[2])
                 PROVE  p[1] \in DOMAIN gen.results /\ gen.results[p[1]] = p[2]
    BY DEF ResultMapComplete, Done, Needed
  <2>2. Long(p[1]) /\ p[1] \in DOMAIN gen.results
    BY <2>1 DEF MapInv, MapComplete, InMap, Expected, Stays
  <2> DEFINE q == <<p[1], gen.results[p[1]]>>
  <2>3. q \in gen.issued
    BY <2>1, <2>2 DEF MapInv, MapSound
  <2>4. q[1] = p[1] /\ q[2] = gen.results[p[1]]
    OBVIOUS
  <2> HIDE DEF q
  <2>5. p[2] = q[2]
    BY <2>1, <2>3, <2>4 DEF EntitiesIdentified
  <2>6. QED
    BY <2>2, <2>4, <2>5
<1>2. QED
  BY <1>1, MapInvariance, PTL
=============================================================================
