---------------------------- MODULE AliasOracle ----------------------------
(***************************************************************************)
(* What an alias query promises: it is asked about two pointers and, some  *)
(* time later, answers in one step.  The pointers are one and the same, or *)
(* the analysis found an allocation that both of them may point to, or the *)
(* two are apart.  The order in which the results are stored plays no      *)
(* part, and neither do the calling contexts they were found in.           *)
(***************************************************************************)
CONSTANTS
    Values,     \* the pointers a query may name
    Allocs      \* the abstract allocations

VARIABLES
    pointsTo,   \* what the analysis found for every pointer
    question,   \* the pair asked about
    answer      \* the answer given, or "pending"

NoAlias == "NoAlias"
MayAlias == "MayAlias"
MustAlias == "MustAlias"
Pending == "pending"

Answer(l, o) ==
    IF l = o THEN MustAlias
    ELSE IF pointsTo[l] \cap pointsTo[o] = {} THEN NoAlias
    ELSE MayAlias

OracleInit ==
    /\ pointsTo \in [Values -> SUBSET Allocs]
    /\ question \in Values \X Values
    /\ answer = Pending

AskQuestion ==
    /\ answer # Pending
    /\ question' \in Values \X Values
    /\ answer' = Pending
    /\ UNCHANGED pointsTo

GiveAnswer ==
    /\ answer = Pending
    /\ answer' = Answer(question[1], question[2])
    /\ UNCHANGED <<pointsTo, question>>

OracleSpec ==
    OracleInit /\ [][AskQuestion \/ GiveAnswer]_<<pointsTo, question, answer>>
=============================================================================
