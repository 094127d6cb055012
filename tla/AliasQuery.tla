----------------------------- MODULE AliasQuery -----------------------------
(***************************************************************************)
(* The alias query of the LLVM pass, PointerAnalysisAAResult::alias, over  *)
(* the vectors the result object keeps.  A query compares the two pointers *)
(* and then walks variable_points_to_ once, keeping the set of allocations *)
(* met for each pointer, and stops at the first allocation met for both.   *)
(* The result object is immutable and serves many queries.                 *)
(***************************************************************************)
EXTENDS Integers, Sequences

CONSTANTS
    Values,     \* the llvm::Value* a memory location may have as its pointer
    Variables,  \* those that are variables: instructions and arguments
    Allocs,     \* the names of the abstract allocations
    Contexts,   \* the numbers Souffle gives to contexts
    Results     \* the result objects the pass may construct

\* A row of var_points_to or of operand_points_to.
PointsToTuple ==
    [allocCtx : Contexts, to : Allocs, ptrCtx : Contexts, from : Values]

\* The part of PointerAnalysisAAResult that alias queries are about.
ResultObject ==
    [variable_points_to : Seq(PointsToTuple),
     operand_points_to : SUBSET PointsToTuple,
     alloc_may_alias : SUBSET (Allocs \X Allocs)]

\* operand_points_to is var_points_to with what constants point to added.
OperandsExtendVariables(r) ==
    \A t \in PointsToTuple :
        t.from \in Variables =>
            (t \in r.operand_points_to
                <=> \E i \in 1 .. Len(r.variable_points_to) :
                        r.variable_points_to[i] = t)

ASSUME ResultsAssumption ==
    /\ Variables \subseteq Values
    /\ \A r \in Results : r \in ResultObject /\ OperandsExtendVariables(r)

VARIABLES
    res,                    \* the result object
    location,               \* the pointers of the two memory locations
    other_location,
    next,                   \* the row of variable_points_to_ to visit next
    points_to_set,          \* allocations met so far for the first pointer
    other_points_to_set,    \* and for the second
    answer

vars == <<res, location, other_location, next, points_to_set,
          other_points_to_set, answer>>

NoAlias == "NoAlias"
MayAlias == "MayAlias"
MustAlias == "MustAlias"
Pending == "pending"

-----------------------------------------------------------------------------

\* The sets are members of the result object and outlive a query.
StartQueryStaleSlip(l, o) ==
    /\ location' = l
    /\ other_location' = o
    /\ next' = 1
    /\ answer' = Pending
    /\ UNCHANGED <<points_to_set, other_points_to_set>>

StartQuery(l, o) ==
    /\ location' = l
    /\ other_location' = o
    /\ next' = 1
    /\ points_to_set' = {}
    /\ other_points_to_set' = {}
    /\ answer' = Pending

Init ==
    /\ res \in Results
    /\ location \in Values
    /\ other_location \in Values
    /\ next = 1
    /\ points_to_set = {}
    /\ other_points_to_set = {}
    /\ answer = Pending

\* The result is kept and asked again.
Ask ==
    /\ answer # Pending
    /\ \E l, o \in Values : StartQuery(l, o)
    /\ UNCHANGED res

Return(a) ==
    /\ answer' = a
    /\ UNCHANGED <<res, location, other_location, next, points_to_set,
                   other_points_to_set>>

SamePointer ==
    /\ answer = Pending
    /\ location = other_location
    /\ Return(MustAlias)

Scanning == answer = Pending /\ location # other_location

Row == res.variable_points_to[next]

MoreRows == next <= Len(res.variable_points_to)

\* The row shows an allocation of one pointer that the other was seen to have.
IsCommon ==
    \/ Row.from = location /\ Row.to \in other_points_to_set
    \/ Row.from = other_location /\ Row.to \in points_to_set

FoundCommon ==
    /\ Scanning
    /\ MoreRows
    /\ IsCommon
    /\ Return(MayAlias)

Collect(set, from) == IF Row.from = from THEN set \cup {Row.to} ELSE set

VisitRow ==
    /\ Scanning
    /\ MoreRows
    /\ ~IsCommon
    /\ points_to_set' = Collect(points_to_set, location)
    /\ other_points_to_set' = Collect(other_points_to_set, other_location)
    /\ next' = next + 1
    /\ UNCHANGED <<res, location, other_location, answer>>

\* The last row is not visited.
ExhaustedSlip ==
    /\ Scanning
    /\ next >= Len(res.variable_points_to)
    /\ Return(NoAlias)

Exhausted ==
    /\ Scanning
    /\ ~MoreRows
    /\ Return(NoAlias)

Next == Ask \/ SamePointer \/ FoundCommon \/ VisitRow \/ Exhausted

Spec == Init /\ [][Next]_vars

-----------------------------------------------------------------------------

TypeOK ==
    /\ res \in Results
    /\ location \in Values
    /\ other_location \in Values
    /\ next \in 1 .. Len(res.variable_points_to) + 1
    /\ points_to_set \subseteq Allocs
    /\ other_points_to_set \subseteq Allocs
    /\ answer \in {NoAlias, MayAlias, MustAlias, Pending}

\* The allocations of a pointer among the first n rows, in any context.
SeenUpTo(v, n) ==
    {a \in Allocs : \E i \in 1 .. n :
        /\ res.variable_points_to[i].from = v
        /\ res.variable_points_to[i].to = a}

VariablePointsTo(v) == SeenUpTo(v, Len(res.variable_points_to))

OperandPointsTo(v) ==
    {a \in Allocs : \E t \in res.operand_points_to : t.from = v /\ t.to = a}

\* A query stops early on the evidence it has and must still answer as if it
\* had compared the whole sets, whatever the order of the rows and whatever
\* the contexts they carry (the loop of PointerAnalysisAAResult::alias).
AnswerCorrect ==
    /\ answer = MustAlias => location = other_location
    /\ answer = MayAlias =>
          VariablePointsTo(location) \cap VariablePointsTo(other_location) # {}
    /\ answer = NoAlias =>
          /\ location # other_location
          /\ VariablePointsTo(location) \cap VariablePointsTo(other_location) = {}

\* For two variables a NoAlias answer also holds of the operands: the
\* analysis found no allocation, in any context, that both may point to.
NoAliasOfVariables ==
    answer = NoAlias /\ {location, other_location} \subseteq Variables =>
        OperandPointsTo(location) \cap OperandPointsTo(other_location) = {}

\* "Answering may-alias and must-not-alias queries" (README.rst:15), for every
\* pointer a memory location may have: a NoAlias answer contradicts neither
\* what the analysis found the operands to point to, nor alloc_may_alias, which
\* "records *possible* (may) aliases, including implicit pointer aliases,
\* matching aliases, and subregion aliases"
\* (allocations-subobjects-aliases.dl:124).  It fails: alias() reads only
\* variable_points_to_, which has no row for a constant such as the address of
\* a global, and compares the names of allocations for equality.
NoAliasSound ==
    answer = NoAlias =>
        \A a \in OperandPointsTo(location), b \in OperandPointsTo(other_location) :
            a # b /\ <<a, b>> \notin res.alloc_may_alias

-----------------------------------------------------------------------------
(* The query implements the one-step oracle.                                *)

Oracle == INSTANCE AliasOracle WITH
    pointsTo <- [v \in Values |-> VariablePointsTo(v)],
    question <- <<location, other_location>>,
    answer <- answer

ImplementsOracle == Oracle!OracleSpec
=============================================================================
