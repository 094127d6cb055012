----------------------------- MODULE LlvmEnums -----------------------------
(***************************************************************************)
(* How the fact generator spells the enumerators of LLVM:                  *)
(* FactGenerator/src/LlvmEnums.cpp and the two tables at the end of        *)
(* InstructionVisitor.cpp.  An enumerator is its name; a table is a        *)
(* function from names to the strings written into facts.  "" is the       *)
(* result for which the callers write no fact at all.                      *)
(***************************************************************************)
EXTENDS Integers, TLC

(* LLVM numbers its calling conventions: CallingConv::ID is unsigned, not  *)
(* an enumeration, and more numbers exist than the table has.              *)
CallingConvToString ==
  [Fast |-> "fastcc", Cold |-> "coldcc", X86_FastCall |-> "x86_fastcallcc",
   X86_StdCall |-> "x86_stdcallcc", X86_ThisCall |-> "x86_thiscallcc",
   Intel_OCL_BI |-> "intel_ocl_bicc", ARM_AAPCS |-> "arm_aapcscc",
   ARM_AAPCS_VFP |-> "arm_aapcs_vfpcc", ARM_APCS |-> "arm_apcscc",
   MSP430_INTR |-> "msp430_intrcc", PTX_Device |-> "tx_device",
   PTX_Kernel |-> "ptx_kernel"]

(* The string for a convention in a release build, where the assertion     *)
(* after the switch is compiled away.                                      *)
CallingConvString(cc) ==
  IF cc \in DOMAIN CallingConvToString THEN CallingConvToString[cc] ELSE ""

ThreadLocalModeToString ==
  [NotThreadLocal |-> "", GeneralDynamicTLSModel |-> "thread_local",
   LocalDynamicTLSModel |-> "thread_local(localdynamic)",
   InitialExecTLSModel |-> "thread_local(initialexec)",
   LocalExecTLSModel |-> "thread_local(localexec)"]

LinkageToString ==
  [ExternalLinkage |-> "external", PrivateLinkage |-> "private",
   InternalLinkage |-> "internal", LinkOnceAnyLinkage |-> "linkonce",
   LinkOnceODRLinkage |-> "linkonce_odr", WeakAnyLinkage |-> "weak",
   WeakODRLinkage |-> "weak_odr", CommonLinkage |-> "common",
   AppendingLinkage |-> "appending", ExternalWeakLinkage |-> "extern_weak",
   AvailableExternallyLinkage |-> "available_externally"]

VisibilityToString ==
  [DefaultVisibility |-> "default", HiddenVisibility |-> "hidden",
   ProtectedVisibility |-> "protected"]

AtomicOrderingToString ==
  [NotAtomic |-> "", Unordered |-> "unordered", Monotonic |-> "monotonic",
   Acquire |-> "acquire", Release |-> "release", AcquireRelease |-> "acq_rel",
   SequentiallyConsistent |-> "seq_cst"]

(* The predicates of icmp and fcmp.                                        *)
IcmpPredString ==
  [FCMP_FALSE |-> "false", FCMP_OEQ |-> "oeq", FCMP_OGT |-> "ogt",
   FCMP_OGE |-> "oge", FCMP_OLT |-> "olt", FCMP_OLE |-> "ole",
   FCMP_ONE |-> "one", FCMP_ORD |-> "ord", FCMP_UNO |-> "uno",
   FCMP_UEQ |-> "ueq", FCMP_UGT |-> "ugt", FCMP_UGE |-> "uge",
   FCMP_ULT |-> "ult", FCMP_ULE |-> "ule", FCMP_UNE |-> "une",
   FCMP_TRUE |-> "true", ICMP_EQ |-> "eq", ICMP_NE |-> "ne",
   ICMP_SGT |-> "sgt", ICMP_SGE |-> "sge", ICMP_SLT |-> "slt",
   ICMP_SLE |-> "sle", ICMP_UGT |-> "ugt", ICMP_UGE |-> "uge",
   ICMP_ULT |-> "ult", ICMP_ULE |-> "ule"]

(* The operations of atomicrmw; FMax and FMin exist from LLVM 15 on.       *)
AtomicBinopString(LlvmMajor) ==
  [Xchg |-> "xchg", Add |-> "add", Sub |-> "sub", And |-> "and",
   Nand |-> "nand", Or |-> "or", Xor |-> "xor", Max |-> "max",
   Min |-> "min", UMax |-> "umax", UMin |-> "umin", FAdd |-> "fadd",
   FSub |-> "fsub"]
  @@ IF LlvmMajor > 14 THEN [FMax |-> "fmax", FMin |-> "fmin"] ELSE <<>>
============================================================================
