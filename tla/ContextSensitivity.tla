------------------------- MODULE ContextSensitivity -------------------------
(***************************************************************************)
(* The context sensitivity on its way from the command line through a fact *)
(* file into the analysis: the enumerators of ContextSensitivity.hpp, the  *)
(* texts that stand for them, and what the Datalog code reads off a text   *)
(* (datalog/options/user-options.dl, datalog/context/interface.dl).        *)
(*                                                                         *)
(* The analysis looks at whole texts and at their first character, so a    *)
(* text is its first character and the rest.  C++ and Datalog each have    *)
(* texts of their own, which must be kept in sync.                         *)
(***************************************************************************)
EXTENDS Naturals

INSENSITIVE == [kind |-> "insensitive", k |-> 0]
Enumerators == {INSENSITIVE} \cup [kind : {"callsite", "caller"}, k : 1 .. 9]

Digit == <<"1", "2", "3", "4", "5", "6", "7", "8", "9">>

-----------------------------------------------------------------------------
(* C++.                                                                    *)

\* The cases of CALLER4 and above fall through to the default.
context_sensitivity_to_stringSlip(s) ==
    CASE s.kind = "callsite" -> <<Digit[s.k], "-callsite">>
      [] s.kind = "caller" /\ s.k < 4 -> <<Digit[s.k], "-caller">>
      [] OTHER -> <<"i", "nsensitive">>

context_sensitivity_to_string(s) ==
    CASE s.kind = "callsite" -> <<Digit[s.k], "-callsite">>
      [] s.kind = "caller" -> <<Digit[s.k], "-caller">>
      [] s.kind = "insensitive" -> <<"i", "nsensitive">>

\* operator>> knows the same constants, and sets the failbit for any other token.
Parses(token) ==
    \E s \in Enumerators : context_sensitivity_to_string(s) = token

Parse(token) ==
    CHOOSE s \in Enumerators : context_sensitivity_to_string(s) = token

-----------------------------------------------------------------------------
(* Datalog, where opts is the set of values user_options has for the key   *)
(* "context_sensitivity".                                                  *)

user_option_valid_value ==
    {<<"i", "nsensitive">>}
        \cup {<<Digit[n], "-callsite">> : n \in 1 .. 9}
        \cup {<<Digit[n], "-caller">> : n \in 1 .. 9}

user_option_invalid(opts) == opts \ user_option_valid_value

insensitive(opts) == <<"i", "nsensitive">> \in opts

\* to_number of the first character.
max_context_depth(opts) ==
    IF insensitive(opts) THEN {}
    ELSE {n \in 1 .. 9 : \E text \in opts : text[1] = Digit[n]}

\* Which calls, or their functions, become context items.
context_item_kind(opts) ==
    {kind \in {"callsite", "caller"} :
        \/ kind = "callsite" /\ <<"i", "nsensitive">> \in opts
        \/ \E n \in 1 .. 9 : <<Digit[n], IF kind = "callsite" THEN "-callsite" ELSE "-caller">> \in opts}

\* The options mean the sensitivity s to the analysis.
Means(opts, s) ==
    /\ user_option_invalid(opts) = {}
    /\ insensitive(opts) <=> s.kind = "insensitive"
    /\ s.kind # "insensitive" =>
          /\ max_context_depth(opts) = {s.k}
          /\ context_item_kind(opts) = {s.kind}
=============================================================================
