---------------------------- MODULE MCSubobjects ---------------------------
(***************************************************************************)
(* Programs that write through one path to a pointer and read through      *)
(* another: an array at known and unknown indices, an array of arrays, an  *)
(* array in a struct, a heap block of structs used as an array, and a      *)
(* struct accessed by bytes; or copy what was written and read the copy.   *)
(*                                                                         *)
(* The programs with passes hand two allocations to one parameter, or to a *)
(* cell, and read or write through it and directly.                        *)
(***************************************************************************)
EXTENDS Addresses

MCElements ==
  "i8" :> <<>> @@ "i64" :> <<>> @@ "i8*" :> <<"i8">> @@ "i64*" :> <<"i64">> @@ "i64**" :> <<"i64*">>
  @@ "[3 x i64*]" :> <<"i64*">> @@ "[3 x i64*]*" :> <<"[3 x i64*]">>
  @@ "[2 x i64*]" :> <<"i64*">> @@ "[2 x [2 x i64*]]" :> <<"[2 x i64*]">>
  @@ "[2 x [2 x i64*]]*" :> <<"[2 x [2 x i64*]]">>
  @@ "[2 x i64*]*" :> <<"[2 x i64*]">> @@ "%S" :> <<"i64", "[2 x i64*]">> @@ "%S*" :> <<"%S">>
  @@ "%H" :> <<"i64*", "i64">> @@ "%H*" :> <<"%H">>
  @@ "%P" :> <<"i64", "i64*">> @@ "%P*" :> <<"%P">>

MCType == DOMAIN MCElements

MCKind == [t \in MCType |->
  CASE t \in {"i8", "i64"} -> "scalar"
    [] t \in {"%S", "%H", "%P"} -> "struct"
    [] t \in {"[3 x i64*]", "[2 x i64*]", "[2 x [2 x i64*]]"} -> "array"
    [] OTHER -> "pointer"]

MCLength == "[3 x i64*]" :> 3 @@ "[2 x i64*]" :> 2 @@ "[2 x [2 x i64*]]" :> 2
MCOffset == "%S" :> <<0, 8>> @@ "%H" :> <<0, 8>> @@ "%P" :> <<0, 8>>
MCSize == [t \in MCType |->
  CASE t = "i8" -> 1
    [] t \in {"[3 x i64*]", "%S"} -> 24
    [] t \in {"[2 x i64*]", "%H", "%P"} -> 16
    [] t = "[2 x [2 x i64*]]" -> 32
    [] OTHER -> 8]

-----------------------------------------------------------------------------
Known(n) == [known |-> TRUE, n |-> n]
Unknown == [known |-> FALSE, n |-> 0]

Static(type) ==
  [type |-> type, size |-> {MCSize[type]}, dynamic |-> FALSE, code |-> FALSE, constant |-> FALSE,
   region |-> "global", bytes |-> MCSize[type]]
Dynamic(type, bytes) == [Static(type) EXCEPT !.size = {}, !.dynamic = TRUE, !.region = "heap", !.bytes = bytes]

Gep(base, type, indices) == [base |-> base, type |-> type, indices |-> indices]
StoreTo(address, value) == [address |-> address, value |-> value]
LoadFrom(to, address) == [to |-> to, address |-> address]
CopyTo(to, from, size) == [to |-> to, from |-> from, size |-> size]
Pass(to, value) == [to |-> to, value |-> value]

Named(roots) == {<<<<r>>, r>> : r \in DOMAIN roots}

Program(roots, geps, assigns, stores, loads) ==
  [roots |-> roots, points_to |-> Named(roots), geps |-> geps, assigns |-> assigns,
   passes |-> {}, stores |-> stores, loads |-> loads, copies |-> {}]

(* A function is a region of its own.                                      *)
Code(f) == [Static("i64") EXCEPT !.code = TRUE, !.region = f]
Values == "x" :> Code("x") @@ "y" :> Code("y")

ArrayProgram ==
  Program("a" :> Static("[3 x i64*]") @@ Values,
    ( "p" :> Gep("a", "[3 x i64*]*", <<Known(0), Known(1)>>) @@
      "q" :> Gep("a", "[3 x i64*]*", <<Known(0), Unknown>>) ),
    {}, {StoreTo("p", "x"), StoreTo("q", "y")}, {LoadFrom("u", "q"), LoadFrom("w", "p")})

NestedProgram ==
  Program("g" :> Static("[2 x [2 x i64*]]") @@ "x" :> Code("x"),
    ( "p" :> Gep("g", "[2 x [2 x i64*]]*", <<Known(0), Unknown, Known(1)>>) @@
      "q" :> Gep("g", "[2 x [2 x i64*]]*", <<Known(0), Known(1), Unknown>>) ),
    {}, {StoreTo("p", "x")}, {LoadFrom("u", "q")})

StructProgram ==
  Program("s" :> Static("%S") @@ "x" :> Code("x"),
    ( "f" :> Gep("s", "%S*", <<Known(0), Known(1)>>) @@
      "p" :> Gep("f", "[2 x i64*]*", <<Known(0), Unknown>>) @@
      "q" :> Gep("s", "%S*", <<Known(0), Known(1), Known(1)>>) ),
    {}, {StoreTo("p", "x")}, {LoadFrom("u", "q")})

HeapProgram ==
  Program("h" :> Dynamic("%H", 48) @@ Values,
    ( "p" :> Gep("h", "%H*", <<Known(2)>>) @@
      "q" :> Gep("p", "%H*", <<Known(0), Known(0)>>) @@
      "r" :> Gep("h", "%H*", <<Unknown>>) @@
      "s" :> Gep("p", "%H*", <<Known(-1)>>) ),
    {}, {StoreTo("q", "x"), StoreTo("s", "y")}, {LoadFrom("u", "r")})

BytesProgram ==
  Program("h" :> Static("%H") @@ Values,
    ( "p" :> Gep("h", "%H*", <<Known(0)>>) @@
      "q" :> Gep("p", "i8*", <<Known(8)>>) @@
      "s" :> Gep("h", "%H*", <<Known(0), Known(1)>>) ),
    {}, {StoreTo("q", "x")}, {LoadFrom("u", "s")})

Copying(of, copies) == [of EXCEPT !.copies = copies]

(* A struct is copied.                                                     *)
CopiedStructProgram ==
  Copying(Program("s" :> Static("%P") @@ "t" :> Static("%P") @@ "x" :> Code("x"),
    ( "p" :> Gep("s", "%P*", <<Known(0), Known(1)>>) @@
      "q" :> Gep("t", "%P*", <<Known(0), Known(1)>>) ),
    {}, {StoreTo("p", "x")}, {LoadFrom("u", "q")}), {CopyTo("t", "s", Known(16))})

(* An element of a heap block is copied to another block.                  *)
CopiedElementProgram ==
  Copying(Program("h" :> Dynamic("%H", 32) @@ "k" :> Dynamic("%H", 32) @@ "x" :> Code("x"),
    ( "p" :> Gep("h", "%H*", <<Known(1)>>) @@
      "q" :> Gep("k", "%H*", <<Known(1)>>) @@
      "r" :> Gep("p", "%H*", <<Known(0), Known(0)>>) ),
    {}, {StoreTo("r", "x")}, {LoadFrom("u", "q")}), {CopyTo("q", "p", Known(16))})

(* A number of elements that is not known.                                 *)
CopiedBlockProgram ==
  Copying(Program("h" :> Dynamic("i64*", 24) @@ "k" :> Dynamic("i64*", 24) @@ Values,
    ( "p" :> Gep("h", "i64**", <<Known(2)>>) @@
      "q" :> Gep("h", "i64**", <<Unknown>>) @@
      "r" :> Gep("k", "i64**", <<Known(1)>>) ),
    {}, {StoreTo("p", "x"), StoreTo("q", "y")}, {LoadFrom("u", "r")}), {CopyTo("k", "h", Unknown)})

-----------------------------------------------------------------------------
Passing(roots, geps, passes, stores, loads) ==
  [Program(roots, geps, passes, stores, loads) EXCEPT !.passes = passes]

None == [v \in {} |-> <<>>]
Both == {Pass("q", "g"), Pass("q", "h")}
Pair(of) == "g" :> of @@ "h" :> of @@ "x" :> Code("x")

(* Written through the parameter, read directly.                           *)
DirectProgram ==
  Passing(Pair(Static("i64*")), None, Both, {StoreTo("q", "x")}, {LoadFrom("u", "h")})

(* Functions differ in region, the cell points to both.                    *)
FunctionsProgram ==
  Passing("g" :> Static("i64*") @@ Values, None, {Pass("q", "x"), Pass("q", "y")},
          {StoreTo("g", "q")}, {LoadFrom("u", "g")})

(* What a cell points to is unified as well.                               *)
CellProgram ==
  Passing("g" :> Static("i64**") @@ "c" :> Static("i64*") @@ "d" :> Static("i64*") @@ "x" :> Code("x"),
          None, {Pass("q", "g")}, {StoreTo("g", "c"), StoreTo("q", "d"), StoreTo("w", "x")},
          {LoadFrom("w", "q"), LoadFrom("u", "d")})

(* One of the two has no static size, and the index is beyond the other.   *)
SizesProgram ==
  Passing("g" :> [Static("i64*") EXCEPT !.region = "heap"] @@ "h" :> Dynamic("i64*", 24) @@ "x" :> Code("x"),
          "r" :> Gep("q", "i64**", <<Known(2)>>) @@ "s" :> Gep("h", "i64**", <<Known(2)>>), Both,
          {StoreTo("r", "x")}, {LoadFrom("u", "s")})

(* Elements at unknown and at known indices of unified arrays.             *)
ArraysProgram ==
  Passing(Pair(Static("[2 x i64*]")),
          ( "r" :> Gep("q", "[2 x i64*]*", <<Known(0), Unknown>>) @@
            "s" :> Gep("h", "[2 x i64*]*", <<Known(0), Known(1)>>) ), Both,
          {StoreTo("r", "x")}, {LoadFrom("u", "s")})

(* Elements at unknown and at known indices of heap arrays.                *)
HeapArraysProgram ==
  Passing("g" :> Dynamic("i64*", 16) @@ "h" :> Dynamic("i64*", 16) @@ Values,
          "r" :> Gep("q", "i64**", <<Known(1)>>) @@ "s" :> Gep("h", "i64**", <<Unknown>>), Both,
          {StoreTo("r", "x"), StoreTo("s", "y")}, {LoadFrom("u", "s")})

(* A copy to the parameter.                                                *)
CopiedPassProgram ==
  Copying(Passing(Pair(Static("%P")) @@ "t" :> Static("%P"),
    ( "p" :> Gep("t", "%P*", <<Known(0), Known(1)>>) @@
      "r" :> Gep("h", "%P*", <<Known(0), Known(1)>>) ), Both,
    {StoreTo("p", "x")}, {LoadFrom("u", "r")}), {CopyTo("q", "t", Known(16))})

MCPrograms ==
  {ArrayProgram, NestedProgram, StructProgram, HeapProgram, BytesProgram,
   CopiedStructProgram, CopiedElementProgram, CopiedBlockProgram,
   DirectProgram, FunctionsProgram, CellProgram, SizesProgram, ArraysProgram, HeapArraysProgram,
   CopiedPassProgram}

(* A constant and a variable.  A store through the parameter is dropped    *)
(* when the constant is the one that is chosen.                            *)
ConstantProgram ==
  Passing(("g" :> [Static("i64*") EXCEPT !.constant = TRUE]) @@ Pair(Static("i64*")), None, Both,
          {StoreTo("q", "x")}, {LoadFrom("u", "h")})

MCConstantProgram == {ConstantProgram}
=============================================================================
