------------------------------ MODULE Refmodes ------------------------------
(***************************************************************************)
(* The reference modes ("refmodes") by which the fact generator names      *)
(* LLVM entities, and the stack of contexts they are computed from:        *)
(* FactGenerator/src/ContextManager.hpp and RefmodeEngine{,Impl}.cpp.      *)
(*                                                                         *)
(* The code joins the parts of a refmode with ':'; here a refmode is the   *)
(* sequence of its parts.  Numbers become strings as in the code, so that  *)
(* a value named "0" and the unnamed value number 0 look alike here too.   *)
(*                                                                         *)
(* M is an LLVM module: [path, functions, ...], a function [name, params,  *)
(* blocks, ...], a block [name, instrs].  A value of a function is given   *)
(* by its place: [kind |-> "arg", at |-> <<n>>], [kind |-> "block",        *)
(* at |-> <<b>>] or [kind |-> "instr", at |-> <<b, i>>].  An unnamed value *)
(* has the name "".                                                        *)
(***************************************************************************)
EXTENDS Integers, Sequences, FiniteSets, SequencesExt, TLC

(* iFunctionCtx = SIZE_MAX                                                 *)
NoFunction == 0

Arg(n) == [kind |-> "arg", at |-> <<n>>]
Block(b) == [kind |-> "block", at |-> <<b>>]
Instr(b, i) == [kind |-> "instr", at |-> <<b, i>>]

-----------------------------------------------------------------------------
(* The context manager: a record [contexts, iFunctionCtx, instrIndex,      *)
(* constantIndex].  The anchor of a context is the path of indices that    *)
(* leads to the function, block or instruction.                            *)

Context(sort, anchor, prefix) ==
  [sort |-> sort, anchor |-> anchor, prefix |-> prefix,
   isFunction |-> sort = "function"]

NewContextManager(M) ==
  [contexts |-> <<Context("module", <<>>, M.path)>>,
   iFunctionCtx |-> NoFunction, instrIndex |-> 0, constantIndex |-> 0]

(* Entering a function restarts the numbering of instructions, entering an *)
(* instruction that of constants.                                          *)
PushContext(M, cm, anchor) ==
  CASE Len(anchor) = 1 ->
         [cm EXCEPT !.contexts = Append(@, Context("function", anchor,
                                                   M.functions[anchor[1]].name)),
                    !.instrIndex = 0,
                    !.iFunctionCtx = Len(cm.contexts) + 1]
    [] Len(anchor) = 2 ->
         [cm EXCEPT !.contexts = Append(@, Context("block", anchor,
                                       M.functions[anchor[1]].blocks[anchor[2]].name))]
    [] OTHER ->
         [cm EXCEPT !.contexts = Append(@, Context("instr", anchor, ToString(cm.instrIndex))),
                    !.instrIndex = @ + 1,
                    !.constantIndex = 0]

PopContext(cm) ==
  [cm EXCEPT !.contexts = Front(@),
             !.iFunctionCtx = IF Last(cm.contexts).isFunction THEN NoFunction ELSE @]

(* The anchor of the enclosing function, <<>> if there is none.            *)
FunctionContext(cm) ==
  IF cm.iFunctionCtx = NoFunction \/ ~cm.contexts[cm.iFunctionCtx].isFunction
  THEN <<>>
  ELSE cm.contexts[cm.iFunctionCtx].anchor

-----------------------------------------------------------------------------
(* Qualification.                                                          *)

(* The prefixes of all contexts up to and including the first of the given *)
(* sort ("function" or "instr"), or of all if there is none of that sort,  *)
(* without those of basic blocks.                                          *)
WithContext(cm, sort) ==
  LET kept == {i \in DOMAIN cm.contexts : /\ cm.contexts[i].sort # "block"
                                          /\ \A j \in 1..(i - 1) : cm.contexts[j].sort # sort}
      place(n) == CHOOSE i \in kept : Cardinality({j \in kept : j <= i}) = n
  IN [n \in 1..Cardinality(kept) |-> cm.contexts[place(n)].prefix]

WithGlobalContext(cm) == <<cm.contexts[1].prefix>>

-----------------------------------------------------------------------------
(* Identifiers of values.                                                  *)

NameOf(F, v) ==
  CASE v.kind = "arg" -> F.params[v.at[1]].name
    [] v.kind = "block" -> F.blocks[v.at[1]].name
    [] v.kind = "instr" -> F.blocks[v.at[1]].instrs[v.at[2]].name

(* Unnamed arguments, then, block by block, an unnamed block and its       *)
(* unnamed instructions that have a value.                                 *)
ComputeNumbering(F) ==
  LET args == [n \in 1..Len(F.params) |-> Arg(n)]
      block(b) == <<Block(b)>> \o
                  SelectSeq([i \in 1..Len(F.blocks[b].instrs) |-> Instr(b, i)],
                            LAMBDA v : F.blocks[b].instrs[v.at[2]].type # "void")
      all == args \o FlattenSeq([b \in 1..Len(F.blocks) |-> block(b)])
  IN SelectSeq(all, LAMBDA v : NameOf(F, v) = "")

(* What the map gives for a value, 0 for one that has no number.           *)
NumberOf(F, v) ==
  LET at == SelectInSeq(ComputeNumbering(F), LAMBDA w : w = v)
  IN IF at = 0 THEN 0 ELSE at - 1

LocalId(F, v) ==
  "%" \o IF NameOf(F, v) # "" THEN NameOf(F, v) ELSE ToString(NumberOf(F, v))

(* refmodeOf: a constant is what LLVM prints for it; metadata is too,      *)
(* unless it wraps a value of the function, when it is put together from   *)
(* the value's type and identifier.                                        *)
RefmodeOf(M, cm, v) ==
  LET F == M.functions[FunctionContext(cm)[1]]
  IN CASE v.kind = "const" -> v.text
       [] v.kind = "meta" -> v.text
       [] v.kind = "localmeta" -> v.type \o " " \o LocalId(F, v.inner)
       [] OTHER -> LocalId(F, v)

-----------------------------------------------------------------------------
(* refmode<T>.                                                             *)

(* The instruction is always the one being visited, whichever is asked for. *)
InstructionRefmode(cm) ==
  Append(WithContext(cm, "function"), ToString(cm.instrIndex - 1))

(* The caller counts the constant.                                         *)
ConstantRefmodeSlip(M, cm, c) ==   \* a mistake: not qualified by the instruction
  WithContext(cm, "function") \o <<ToString(cm.constantIndex), RefmodeOf(M, cm, c)>>
ConstantRefmode(M, cm, c) ==
  WithContext(cm, "instr") \o <<ToString(cm.constantIndex), RefmodeOf(M, cm, c)>>

BasicBlockRefmode(M, cm, b) ==
  WithContext(cm, "function") \o <<"[basicblock]", RefmodeOf(M, cm, Block(b))>>

FunctionRefmode(cm, F) == Append(WithGlobalContext(cm), F.name)

InlineAsmRefmode(cm) == WithContext(cm, "instr") \o <<"", "<asm>">>

(* Global variables, aliases and functions seen as values.                 *)
GlobalValueRefmode(cm, name) == Append(WithGlobalContext(cm), "@" \o name)

ValueRefmode(M, cm, v) ==
  IF v.kind = "block"
  THEN BasicBlockRefmode(M, cm, v.at[1])
  ELSE Append(WithContext(cm, "function"), RefmodeOf(M, cm, v))
=============================================================================
