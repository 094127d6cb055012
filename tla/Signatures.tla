----------------------------- MODULE Signatures -----------------------------
(***************************************************************************)
(* Points-to signatures of functions: how the fact generator reads the     *)
(* user's JSON file and turns the signatures of a function into facts      *)
(* (FactGenerator/src/Signatures.cpp).                                     *)
(*                                                                         *)
(* A JSON value is [json |-> "object", members |-> a sequence of           *)
(* [key, value]], [json |-> "array", items |-> a sequence],                *)
(* [json |-> "int", value |-> an integer], [json |-> "str", value |-> a    *)
(* string] or [json |-> "invalid"] for a text that is no JSON.  A member   *)
(* of the file has as key a regular expression, given as                   *)
(* [text, valid, matches]: whether std::regex accepts it and the names in  *)
(* which a search for it succeeds.                                         *)
(***************************************************************************)
EXTENDS Integers, Sequences

(* Outcomes of code that may throw std::invalid_argument or, for a regular *)
(* expression, std::regex_error: what it produced, and whether it threw.   *)
Threw(produced) == [thrown |-> TRUE, produced |-> produced]
Returned(produced) == [thrown |-> FALSE, produced |-> produced]

(* A loop that writes facts in every turn: the first turn that throws ends *)
(* it, and what was written stays written.                                 *)
UpToThrow(turns) ==
  LET throws == {i \in DOMAIN turns : turns[i].thrown}
      run == {i \in DOMAIN turns : \A j \in throws : i <= j}
  IN [thrown |-> throws # {}, produced |-> UNION {turns[i].produced : i \in run}]

-----------------------------------------------------------------------------
(* The signatures that exist: the predicate each is written to and the     *)
(* types of its arguments.                                                 *)

Arguments ==
  [ pts_none |-> <<>>, pts_return_alloc |-> <<>>, pts_return_alloc_once |-> <<>>,
    pts_return_aliases_arg |-> <<"int">>, pts_return_aliases_arg_reachable |-> <<"int">>,
    pts_return_points_to_global |-> <<"str">>, pts_return_aliases_global |-> <<"str">>,
    pts_return_aliases_global_reachable |-> <<"str">>,
    pts_arg_alloc |-> <<"int">>, pts_arg_alloc_once |-> <<"int">>,
    pts_arg_memcpy_arg |-> <<"int", "int">>,
    pts_arg_memcpy_arg_reachable |-> <<"int", "int">>,
    pts_arg_points_to_global |-> <<"int", "str">>,
    pts_arg_memcpy_global |-> <<"int", "str">>,
    pts_arg_memcpy_global_reachable |-> <<"int", "str">>,
    pts_global_memcpy_arg |-> <<"str", "int">>,
    pts_global_memcpy_arg_reachable |-> <<"str", "int">> ]

OtherAnalyses == {"dataflow", "output", "input"}

(* The argument at a place, <<>> when it has not the type asked for; names *)
(* of globals get their sigil.                                             *)
ExtractFromArray(item, type) ==
  IF item.json # type THEN <<>>
  ELSE IF type = "str" THEN <<"@" \o item.value>> ELSE <<item.value>>

(* The facts of one signature component: exactly one, or the code throws.  *)
WritePtsSignature(type, function, value) ==
  LET expected == Arguments[type]
      extracted == [i \in 1..Len(expected) |-> ExtractFromArray(value.items[i], expected[i])]
  IN IF /\ value.json = "array"
        /\ Len(value.items) = Len(expected)
        /\ \A i \in 1..Len(expected) : extracted[i] # <<>>
     THEN Returned({<< <<"signature", type>>, "@" \o function >>
                    \o [i \in 1..Len(expected) |-> extracted[i][1]]})
     ELSE Threw({})

(* One element of a function's list: an object with a single member.       *)
EmitComponent(function, component) ==
  CASE component.json # "object" \/ Len(component.members) # 1 -> Threw({})
    [] OTHER ->
         LET type == component.members[1].key
         IN IF type \in OtherAnalyses THEN Returned({})
            ELSE IF type \in DOMAIN Arguments
            THEN WritePtsSignature(type, function, component.members[1].value)
            ELSE Threw({})

EmitSignatures(function, components) ==
  UpToThrow([i \in DOMAIN components |-> EmitComponent(function, components[i])])

(* Reading the file: an object whose members are lists.  Whether the lists *)
(* hold signatures is not looked at here.                                  *)
PreprocessSignatures(file) ==
  IF \/ file.json # "object"
     \/ \E i \in 1..Len(file.members) :
          ~file.members[i].key.valid \/ file.members[i].value.json # "array"
  THEN Threw(<<>>)
  ELSE Returned([i \in 1..Len(file.members) |->
                   [regex |-> file.members[i].key,
                    components |-> file.members[i].value.items]])
=============================================================================
