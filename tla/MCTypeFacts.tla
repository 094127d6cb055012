---------------------------- MODULE MCTypeFacts ----------------------------
(* A type graph with a recursive struct (a list node), nested aggregates,  *)
(* a function type that is reached through a pointer only, an opaque       *)
(* struct, and kinds the visitor does not handle.                          *)
EXTENDS TypeFacts, TLC

MCTypeID ==
  "void" :> "void" @@ "i8" :> "integer" @@ "i32" :> "integer" @@ "double" :> "double"
  @@ "x86_fp80" :> "x86_fp80" @@ "x86_mmx" :> "x86_mmx"
  @@ "%node" :> "struct" @@ "%node*" :> "pointer" @@ "%FILE" :> "opaque_struct"
  @@ "%FILE*" :> "pointer" @@ "[4 x %node]" :> "array" @@ "<2 x i32>" :> "fixed_vector"
  @@ "void (%FILE*, i32)" :> "function" @@ "void (%FILE*, i32)*" :> "pointer"
  @@ "{x86_mmx, double}" :> "struct" @@ "[2 x x86_fp80]" :> "array"

MCType == DOMAIN MCTypeID

MCElements == [t \in MCType |->
  CASE t = "%node" -> <<"i32", "%node*">>
    [] t = "%node*" -> <<"%node">>
    [] t = "%FILE*" -> <<"%FILE">>
    [] t = "[4 x %node]" -> <<"%node">>
    [] t = "<2 x i32>" -> <<"i32">>
    [] t = "void (%FILE*, i32)" -> <<"void", "%FILE*", "i32">>
    [] t = "void (%FILE*, i32)*" -> <<"void (%FILE*, i32)">>
    [] t = "{x86_mmx, double}" -> <<"x86_mmx", "double">>
    [] t = "[2 x x86_fp80]" -> <<"x86_fp80">>
    [] OTHER -> <<>>]

MCNumElements == "[4 x %node]" :> 4 @@ "<2 x i32>" :> 2 @@ "[2 x x86_fp80]" :> 2

(* The sizes of x86-64.                                                    *)
MCAllocSize ==
  "i8" :> 1 @@ "i32" :> 4 @@ "double" :> 8 @@ "x86_fp80" :> 16 @@ "x86_mmx" :> 8
  @@ "%node" :> 16 @@ "%node*" :> 8 @@ "%FILE*" :> 8 @@ "[4 x %node]" :> 64
  @@ "<2 x i32>" :> 8 @@ "void (%FILE*, i32)*" :> 8 @@ "{x86_mmx, double}" :> 16
  @@ "[2 x x86_fp80]" :> 32
MCSized == DOMAIN MCAllocSize
MCStoreSize == [t \in MCSized |-> IF t = "x86_fp80" THEN 10 ELSE MCAllocSize[t]]

MCFieldOffset == "%node" :> <<0, 8>> @@ "{x86_mmx, double}" :> <<0, 8>>

MCRecorded ==
  { {"[4 x %node]", "i8"}, {"%node*", "<2 x i32>"},
    {"void (%FILE*, i32)*", "%node", "{x86_mmx, double}"}, {"%FILE*", "i32", "void"},
    {"[2 x x86_fp80]", "i32", "%node", "%FILE*"} }

ASSUME MCSizes == SizesAsExpected
============================================================================
