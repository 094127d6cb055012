---------------------------- MODULE MCFrontends -----------------------------
(***************************************************************************)
(* Disks with and without an output directory, with an input in it, and    *)
(* with a file in its place; command lines that are right or wrong in one  *)
(* place, in an order that lets each failure happen after the steps before *)
(* it; passes into a directory of their own and into the one factgen uses. *)
(***************************************************************************)
EXTENDS Frontends

MCModules == {"m", "n"}
MCNamesOf == "m" :> {"@f", "@g"} @@ "n" :> {"@f", "@h"}

MCAssertionRelations ==
    <<"assert_has_repr", "assert_bitcast_operand_in_same_function", "user_option_invalid">>

Bitcode(m) == [kind |-> "module", rows |-> {m}]
Plain(kind) == [kind |-> kind, rows |-> {}]

Sources ==
    <<>> :> Directory
    @@ <<"m.bc">> :> Bitcode("m")
    @@ <<"src">> :> Directory
    @@ <<"src", "m.bc">> :> Bitcode("m")
    @@ <<"src", "n.bc">> :> Bitcode("n")
    @@ <<"text">> :> Plain("text")
    @@ <<"signatures.json">> :> Plain("signatures")
    @@ <<"out">> :> Directory

MCFileSystems ==
    { Sources,
      <<"out", "n.bc">> :> Bitcode("n") @@ Sources,
      <<"out">> :> Plain("text") @@ Sources }

Callsite(k) == [kind |-> "callsite", k |-> k]
Caller(k) == [kind |-> "caller", k |-> k]

Command ==
    [kind |-> "factgen", parse |-> "ok", out |-> <<"out">>, files |-> << <<"m.bc">> >>,
     sensitivity |-> <<"2", "-callsite">>, signatures |-> <<"signatures.json">>,
     recursive |-> FALSE, force |-> FALSE]

MCCommands ==
    { Command,
      [Command EXCEPT !.force = TRUE, !.sensitivity = <<"9", "-caller">>],
      [Command EXCEPT !.files = << <<"m.bc">>, <<"src">> >>, !.recursive = TRUE,
                      !.out = <<"new">>],
      [Command EXCEPT !.files = << <<"src">> >>, !.recursive = TRUE,
                      !.out = <<"src", "facts">>, !.sensitivity = <<"i", "nsensitive">>],
      [Command EXCEPT !.files = << <<"out", "n.bc">>, <<"m.bc">> >>, !.force = TRUE],
      [Command EXCEPT !.files = << <<"out">>, <<"m.bc">> >>, !.recursive = TRUE,
                      !.force = TRUE, !.signatures = SENTINEL],
      [Command EXCEPT !.files = << <<"src">> >>],
      [Command EXCEPT !.files = << <<"m.bc">>, <<"text">> >>, !.force = TRUE],
      [Command EXCEPT !.out = <<"no", "out">>],
      [Command EXCEPT !.signatures = <<"no.json">>],
      [Command EXCEPT !.signatures = <<"text">>, !.force = TRUE],
      [Command EXCEPT !.sensitivity = <<"1", "-file">>],
      [Command EXCEPT !.parse = "error"],
      [Command EXCEPT !.parse = "help"],
      [Command EXCEPT !.parse = "missing"] }

Analysis ==
    [kind |-> "pass", analysis |-> "subset", module |-> "n", dir |-> <<"tmp", "facts">>,
     debug |-> FALSE, check |-> TRUE, sensitivity |-> Callsite(3), signatures |-> <<>>]

MCAnalyses ==
    { Analysis,
      [Analysis EXCEPT !.debug = TRUE, !.analysis = "unification", !.sensitivity = Caller(8)],
      [Analysis EXCEPT !.dir = <<"out">>, !.debug = TRUE, !.analysis = "debug", !.check = FALSE,
                       !.sensitivity = INSENSITIVE],
      [Analysis EXCEPT !.dir = <<"out">>, !.analysis = "debug"],
      [Analysis EXCEPT !.dir = <<"text">>],
      [Analysis EXCEPT !.dir = <<"text", "facts">>],
      [Analysis EXCEPT !.module = "m", !.signatures = <<"text">>] }

MCCommandLines == MCCommands \cup MCAnalyses
=============================================================================
