-------------------------- MODULE InstructionFacts --------------------------
(***************************************************************************)
(* What the instruction visitor records of each LLVM instruction:          *)
(* FactGenerator/src/InstructionVisitor.cpp and its header.                *)
(*                                                                         *)
(* An instruction is a record [op, name, type, ops, attrs]: ops is LLVM's  *)
(* own operand list, in LLVM's order, and attrs holds what LLVM keeps      *)
(* beside the operands.  Visit(I) is the sequence of requests the visitor  *)
(* makes of the fact generator, in the order it makes them; the generator  *)
(* (module FactGenerator) carries them out, which is where refmodes are    *)
(* computed, so the order matters.  A predicate pred::group::name of the   *)
(* code is the pair <<group, name>>.                                       *)
(***************************************************************************)
EXTENDS Integers, Sequences, SequencesExt, LlvmEnums

CONSTANT LlvmMajor    \* the LLVM version the generator is compiled against

ASSUME LlvmMajorAssumption == LlvmMajor \in 13..15

-----------------------------------------------------------------------------
(* Requests.                                                               *)

Request(what, pred, value, index) ==
  [what |-> what, pred |-> pred, value |-> value, index |-> index]

Entity(g) == Request("entity", <<g, "instr">>, "", 0)             \* recordInstruction
Flag(g, n) == Request("flag", <<g, n>>, "", 0)                    \* a fact of arity one
Attribute(g, n, v) == Request("attribute", <<g, n>>, v, 0)
Ordinal(g, n, i, v) == Request("ordinal", <<g, n>>, v, i)         \* an indexed attribute
TypeOf(g, n, t) == Request("type", <<g, n>>, t, 0)                \* through recordType
Operand(g, n, v) == Request("operand", <<g, n>>, v, 0)            \* writeInstrOperand
IndexedOperand(g, n, i, v) == Request("indexed", <<g, n>>, v, i)
Source(v, var) == Request("source", <<"variable", "source_name">>, v, var)

When(condition, requests) == IF condition THEN requests ELSE <<>>

-----------------------------------------------------------------------------
(* LLVM's operand layout: where the accessors find what they return.       *)

Op(I, n) == I.ops[n + 1]                                          \* getOperand(n)
NumOperands(I) == Len(I.ops)
CalledOperand(I) == Last(I.ops)
ArgOperands(I) ==
  SubSeq(I.ops, 1, NumOperands(I) - IF I.op = "invoke" THEN 3 ELSE 1)
NormalDest(I) == Op(I, NumOperands(I) - 3)
UnwindDest(I) == Op(I, NumOperands(I) - 2)
(* br stores its successors last to first, behind the condition.           *)
BrSuccessor(I, i) == Op(I, NumOperands(I) - 1 - i)
(* The blocks control may pass to.                                         *)
Successors(I) ==
  IF I.op \in {"br", "switch", "indirectbr", "invoke"}
  THEN ToSet(SelectSeq(I.ops, LAMBDA v : v.kind = "block"))
  ELSE {}

-----------------------------------------------------------------------------
(* The templates for similar instructions.                                 *)

CastOps == {"trunc", "zext", "sext", "fptrunc", "fpext", "fptoui", "fptosi",
            "uitofp", "sitofp", "ptrtoint", "inttoptr", "bitcast"}

BinaryOps == {"add", "fadd", "sub", "fsub", "mul", "fmul", "sdiv", "fdiv",
              "udiv", "srem", "frem", "urem", "shl", "lshr", "ashr", "and",
              "or", "xor"}

VisitCastInst(I) ==
  << Entity(I.op), Operand(I.op, "from_operand", Op(I, 0)),
     TypeOf(I.op, "to_type", I.type) >>

(* "fast" stands for all the others; nuw, nsw and exact exist on integer   *)
(* operations only.                                                        *)
WriteOptimizationInfo(I) ==
  LET kept == IF "fast" \in I.attrs.flags
              THEN {"fast"}
              ELSE I.attrs.flags \cap {"nnan", "ninf", "nsz", "arcp", "acon", "apfn"}
      flags == kept \cup (I.attrs.flags \cap {"nuw", "nsw", "exact"})
  IN [i \in 1..Cardinality(flags) |->
        Attribute("instr", "flag", SetToSeq(flags)[i])]

VisitBinaryInst(I) ==
  << Entity(I.op), Operand(I.op, "first_operand", Op(I, 0)),
     Operand(I.op, "second_operand", Op(I, 1)) >> \o WriteOptimizationInfo(I)

(* The synchronisation scope and, unless it is empty, the ordering.        *)
WriteAtomicInfo(I) ==
  When(I.attrs.singlethread, <<Attribute("instr", "flag", "singlethread")>>)
  \o LET order == AtomicOrderingToString[I.attrs.ordering]
     IN When(order # "", <<Attribute(I.op, "ordering", order)>>)

(* LLVM 15 returns an alignment that is always there and is written as its *)
(* logarithm; before, zero stood for none and the bytes were written.      *)
WriteAlignment(I) ==
  IF LlvmMajor > 14
  THEN <<Attribute(I.op, "alignment", CHOOSE n \in 0..32 : 2 ^ n = I.attrs.align)>>
  ELSE When(I.attrs.align # 0, <<Attribute(I.op, "alignment", I.attrs.align)>>)

WriteCallingConv(I) ==
  When(I.attrs.cc # "C",
       <<Attribute(I.op, "calling_conv", CallingConvString(I.attrs.cc))>>)

WriteCondition(I) == <<Attribute(I.op, "condition", IcmpPredString[I.attrs.pred])>>

(* A numbered family of operands: the i-th element of s is written with    *)
(* index i - 1.                                                            *)
OperandsSlip(g, n, s) ==   \* a mistake: numbered from one
  [i \in 1..Len(s) |-> IndexedOperand(g, n, i, s[i])]
Operands(g, n, s) == [i \in 1..Len(s) |-> IndexedOperand(g, n, i - 1, s[i])]

ConstantIndices(I) ==
  [i \in 1..Len(I.attrs.indices) |-> Ordinal(I.op, "index", i - 1, I.attrs.indices[i])]
  \o <<Attribute(I.op, "nindices", Len(I.attrs.indices))>>

-----------------------------------------------------------------------------
(* Terminators.                                                            *)

VisitReturnInst(I) ==
  <<Entity("ret")>>
  \o IF I.ops # <<>> THEN <<Operand("ret", "operand", Op(I, 0))>>
                     ELSE <<Flag("ret", "void_")>>

(* The labels are read from the operand list, not with getSuccessor.       *)
VisitBranchInst(I) ==
  <<Entity("br")>>
  \o IF NumOperands(I) = 3
     THEN << Flag("br", "cond"), Operand("br", "condition", Op(I, 0)),
             Operand("br", "true_label", Op(I, 1)),
             Operand("br", "false_label", Op(I, 2)) >>
     ELSE << Flag("br", "uncond"), Operand("br", "uncond_label", Op(I, 0)) >>

(* The operands are the value, the default label and the cases, a constant *)
(* and a label each.                                                       *)
NumCases(I) == (NumOperands(I) - 2) \div 2

VisitSwitchInst(I) ==
  << Entity("switch_"), Operand("switch_", "operand", Op(I, 0)),
     Operand("switch_", "default_label", Op(I, 1)) >>
  \o [k \in 1..(2 * NumCases(I)) |->
        IndexedOperand("switch_", IF k % 2 = 1 THEN "case_value" ELSE "case_label",
                       (k - 1) \div 2, Op(I, k + 1))]
  \o <<Attribute("switch_", "ncases", NumCases(I))>>

VisitIndirectBrInst(I) ==
  <<Entity("indirectbr")>>
  \o Operands("indirectbr", "label", Tail(I.ops))
  \o << Attribute("indirectbr", "nlabels", NumOperands(I) - 1),
        Operand("indirectbr", "address", Op(I, 0)) >>

VisitInvokeInst(I) ==
  << Entity("invoke"), Operand("invoke", "func_operand", CalledOperand(I)) >>
  \o Operands("invoke", "arg", ArgOperands(I))
  \o << Operand("invoke", "normal_label", NormalDest(I)),
        Operand("invoke", "exception_label", UnwindDest(I)) >>
  \o WriteCallingConv(I)

VisitResumeInst(I) == << Entity("resume"), Operand("resume", "operand", Op(I, 0)) >>

VisitUnreachableInst(I) == <<Entity("unreachable")>>

-----------------------------------------------------------------------------
(* Memory.                                                                 *)

(* The size is the operand, a constant one unless an array is allocated.   *)
VisitAllocaInst(I) ==
  << Entity("alloca"), TypeOf("alloca", "type", I.attrs.allocated) >>
  \o When(I.attrs.array, <<Operand("alloca", "size", Op(I, 0))>>)
  \o WriteAlignment(I)

VisitLoadInst(I) ==
  << Entity("load"), Operand("load", "address", Op(I, 0)) >>
  \o When(I.attrs.ordering # "NotAtomic", WriteAtomicInfo(I))
  \o WriteAlignment(I)
  \o When(I.attrs.volatile, <<Flag("load", "is_volatile")>>)

VisitVAArgInst(I) ==
  << Entity("va_arg"), TypeOf("va_arg", "type", I.type),
     Operand("va_arg", "va_list", Op(I, 0)) >>

VisitStoreInst(I) ==
  << Entity("store"), Operand("store", "value", Op(I, 0)),
     Operand("store", "address", Op(I, 1)) >>
  \o When(I.attrs.ordering # "NotAtomic", WriteAtomicInfo(I))
  \o WriteAlignment(I)
  \o When(I.attrs.volatile, <<Flag("store", "is_volatile")>>)

WriteCmpXchgOrdering(order) ==
  When(order # "", <<Attribute("cmpxchg", "ordering", order)>>)

(* Both orderings go to one predicate, which cannot tell them apart.       *)
VisitAtomicCmpXchgInst(I) ==
  << Entity("cmpxchg"), Operand("cmpxchg", "address", Op(I, 0)),
     Operand("cmpxchg", "cmp_value", Op(I, 1)),
     Operand("cmpxchg", "new_value", Op(I, 2)) >>
  \o When(I.attrs.volatile, <<Flag("cmpxchg", "is_volatile")>>)
  \o When(I.attrs.singlethread, <<Attribute("instr", "flag", "singlethread")>>)
  \o WriteCmpXchgOrdering(AtomicOrderingToString[I.attrs.success])
  \o WriteCmpXchgOrdering(AtomicOrderingToString[I.attrs.failure])

WriteAtomicRMWOp(I) ==
  <<Attribute("atomicrmw", "operation", AtomicBinopString(LlvmMajor)[I.attrs.binop])>>

VisitAtomicRMWInst(I) ==
  << Entity("atomicrmw"), Operand("atomicrmw", "address", Op(I, 0)),
     Operand("atomicrmw", "value", Op(I, 1)) >>
  \o When(I.attrs.volatile, <<Flag("atomicrmw", "is_volatile")>>)
  \o WriteAtomicRMWOp(I)
  \o WriteAtomicInfo(I)

VisitFenceInst(I) == <<Entity("fence")>> \o WriteAtomicInfo(I)

(* A constant index asks, after the operand is written, for the integer of *)
(* the constant as well ("gepint"): the constant's refmode is only known   *)
(* to the generator.                                                       *)
VisitGetElementPtrInst(I) ==
  << Entity("getelementptr"), Operand("getelementptr", "base", Op(I, 0)) >>
  \o [i \in 1..(NumOperands(I) - 1) |->
        IF Op(I, i).kind = "const"
        THEN Request("gepindex", <<"getelementptr", "index">>, Op(I, i), i - 1)
        ELSE IndexedOperand("getelementptr", "index", i - 1, Op(I, i))]
  \o <<Attribute("getelementptr", "nindices", NumOperands(I) - 1)>>
  \o When(I.attrs.inbounds, <<Flag("getelementptr", "inbounds")>>)

-----------------------------------------------------------------------------
(* Aggregates and vectors.                                                 *)

VisitExtractValueInst(I) ==
  << Entity("extractvalue"), Operand("extractvalue", "base", Op(I, 0)) >>
  \o ConstantIndices(I)

VisitInsertValueInst(I) ==
  << Entity("insertvalue"), Operand("insertvalue", "base", Op(I, 0)),
     Operand("insertvalue", "value", Op(I, 1)) >>
  \o ConstantIndices(I)

VisitExtractElementInst(I) ==
  << Entity("extractelement"), Operand("extractelement", "base", Op(I, 0)),
     Operand("extractelement", "index", Op(I, 1)) >>

VisitInsertElementInst(I) ==
  << Entity("insertelement"), Operand("insertelement", "base", Op(I, 0)),
     Operand("insertelement", "value", Op(I, 1)),
     Operand("insertelement", "index", Op(I, 2)) >>

(* The mask is no operand any more; LLVM makes a constant of it.           *)
VisitShuffleVectorInst(I) ==
  << Entity("shufflevector"), Operand("shufflevector", "first_vector", Op(I, 0)),
     Operand("shufflevector", "second_vector", Op(I, 1)),
     Operand("shufflevector", "mask", I.attrs.mask) >>

-----------------------------------------------------------------------------
(* The others.                                                             *)

(* LLVM keeps the incoming blocks of a phi beside its operands.            *)
VisitPHINode(I) ==
  << Entity("phi"), TypeOf("phi", "type", I.type) >>
  \o [k \in 1..(2 * NumOperands(I)) |->
        LET i == (k + 1) \div 2
        IN IF k % 2 = 1 THEN IndexedOperand("phi", "pair_value", i - 1, I.ops[i])
                        ELSE IndexedOperand("phi", "pair_label", i - 1, I.attrs.incoming[i])]
  \o <<Attribute("phi", "npairs", NumOperands(I))>>

VisitSelectInst(I) ==
  << Entity("select"), Operand("select", "condition", Op(I, 0)),
     Operand("select", "first_operand", Op(I, 1)),
     Operand("select", "second_operand", Op(I, 2)) >>

(* A clause of array type (attrs.filters) is a filter, any other a catch.  *)
VisitLandingPadInst(I) ==
  << Entity("landingpad"), TypeOf("landingpad", "type", I.type) >>
  \o When(I.attrs.cleanup, <<Flag("landingpad", "cleanup")>>)
  \o [i \in 1..NumOperands(I) |->
        IndexedOperand("landingpad",
                       IF i - 1 \in I.attrs.filters THEN "filter_clause" ELSE "catch_clause",
                       i - 1, I.ops[i])]
  \o <<Attribute("landingpad", "nclauses", NumOperands(I))>>

VisitCallInst(I) ==
  << Entity("call"), Operand("call", "func_operand", CalledOperand(I)) >>
  \o Operands("call", "arg", ArgOperands(I))
  \o When(I.attrs.tail, <<Flag("call", "tail_opt")>>)
  \o When(I.attrs.cc # "C",
          <<Attribute("call", "calling_conv", CallingConvString(I.attrs.cc))>>)

(* A call of llvm.dbg.declare is a call, and names the variable that holds *)
(* the address unless that is undefined.                                   *)
VisitDbgDeclareInst(I) ==
  VisitCallInst(I)
  \o When(I.attrs.address.kind # "const" \/ I.attrs.address.sort # "undef",
          <<Source(I.attrs.source, I.attrs.address)>>)

VisitCmpInst(I) ==
  <<Entity(I.op)>> \o WriteCondition(I)
  \o << Operand(I.op, "first_operand", Op(I, 0)),
        Operand(I.op, "second_operand", Op(I, 1)) >>

(* fneg is the one unary instruction without a method of its own.          *)
VisitUnaryInstruction(I) ==
  When(I.op = "fneg", << Entity("fneg"), Operand("fneg", "operand", Op(I, 0)) >>)

VisitFreezeInst(I) == << Entity("freeze"), Operand("freeze", "operand", Op(I, 0)) >>

(* What LLVM's InstVisitor dispatches to; instructions without a method    *)
(* are reported as unknown and leave no fact of their own.                 *)
Visit(I) ==
  CASE I.op \in CastOps -> VisitCastInst(I)
    [] I.op \in BinaryOps -> VisitBinaryInst(I)
    [] I.op = "ret" -> VisitReturnInst(I)
    [] I.op = "br" -> VisitBranchInst(I)
    [] I.op = "switch" -> VisitSwitchInst(I)
    [] I.op = "indirectbr" -> VisitIndirectBrInst(I)
    [] I.op = "invoke" -> VisitInvokeInst(I)
    [] I.op = "resume" -> VisitResumeInst(I)
    [] I.op = "unreachable" -> VisitUnreachableInst(I)
    [] I.op = "alloca" -> VisitAllocaInst(I)
    [] I.op = "load" -> VisitLoadInst(I)
    [] I.op = "store" -> VisitStoreInst(I)
    [] I.op = "cmpxchg" -> VisitAtomicCmpXchgInst(I)
    [] I.op = "atomicrmw" -> VisitAtomicRMWInst(I)
    [] I.op = "fence" -> VisitFenceInst(I)
    [] I.op = "getelementptr" -> VisitGetElementPtrInst(I)
    [] I.op = "va_arg" -> VisitVAArgInst(I)
    [] I.op = "extractvalue" -> VisitExtractValueInst(I)
    [] I.op = "insertvalue" -> VisitInsertValueInst(I)
    [] I.op = "extractelement" -> VisitExtractElementInst(I)
    [] I.op = "insertelement" -> VisitInsertElementInst(I)
    [] I.op = "shufflevector" -> VisitShuffleVectorInst(I)
    [] I.op = "phi" -> VisitPHINode(I)
    [] I.op = "select" -> VisitSelectInst(I)
    [] I.op = "landingpad" -> VisitLandingPadInst(I)
    [] I.op = "call" -> VisitCallInst(I)
    [] I.op = "dbg.declare" -> VisitDbgDeclareInst(I)
    [] I.op \in {"icmp", "fcmp"} -> VisitCmpInst(I)
    [] I.op = "freeze" -> VisitFreezeInst(I)
    [] OTHER -> VisitUnaryInstruction(I)
=============================================================================
