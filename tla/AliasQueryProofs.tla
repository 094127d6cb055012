-------------------------- MODULE AliasQueryProofs --------------------------
(***************************************************************************)
(* Proofs about the alias query: its answer is that of the one-step oracle *)
(* for every result object, every order of its rows and every history of   *)
(* queries.                                                                *)
(***************************************************************************)
EXTENDS AliasQuery, TLAPS

Rows == res.variable_points_to

\* The sets hold what the rows visited so far say, and have nothing in common
\* while a query about two pointers runs.
ScanInv ==
    answer = Pending =>
        /\ points_to_set = SeenUpTo(location, next - 1)
        /\ other_points_to_set = SeenUpTo(other_location, next - 1)
        /\ location # other_location =>
              points_to_set \cap other_points_to_set = {}

IInv == TypeOK /\ ScanInv /\ AnswerCorrect

\* A result object has a sequence of rows.
LEMMA RowsAreTuples ==
    ASSUME TypeOK
    PROVE  /\ Rows \in Seq(PointsToTuple)
           /\ Len(Rows) \in Nat
           /\ \A i \in 1 .. Len(Rows) : Rows[i] \in PointsToTuple
  <1>1. res \in ResultObject
    BY ResultsAssumption DEF TypeOK
  <1>2. Rows \in Seq(PointsToTuple)
    BY <1>1 DEF ResultObject, Rows
  <1>3. \A T : \A s \in Seq(T) :
           Len(s) \in Nat /\ \A i \in 1 .. Len(s) : s[i] \in T
    OBVIOUS
  <1> HIDE DEF Rows
  <1> QED
    BY <1>2, <1>3

\* No row has been visited before the first one.
LEMMA SeenNothing == \A v : SeenUpTo(v, 0) = {}
  BY DEF SeenUpTo

\* Visiting a row adds its allocation to the set of the pointer it is about.
LEMMA SeenGrows ==
    ASSUME TypeOK, MoreRows, NEW v
    PROVE  SeenUpTo(v, next) = Collect(SeenUpTo(v, next - 1), v)
  <1>1. next \in 1 .. Len(Rows)
    BY RowsAreTuples DEF TypeOK, MoreRows, Rows
  <1>2. Row \in PointsToTuple
    BY <1>1, RowsAreTuples DEF Row, Rows
  <1>3. Row.to \in Allocs
    BY <1>2 DEF PointsToTuple
  <1>4. next \in Int /\ 1 .. next = (1 .. (next - 1)) \cup {next}
    BY <1>1, RowsAreTuples
  <1>5. ASSUME NEW a \in Allocs
        PROVE  a \in SeenUpTo(v, next) <=> a \in Collect(SeenUpTo(v, next - 1), v)
    BY <1>3, <1>4, <1>5 DEF SeenUpTo, Collect, Row
  <1>6. SeenUpTo(v, next) \subseteq Allocs
    BY DEF SeenUpTo
  <1>7. Collect(SeenUpTo(v, next - 1), v) \subseteq Allocs
    BY <1>3 DEF SeenUpTo, Collect
  <1> QED
    BY <1>5, <1>6, <1>7

\* A shorter walk has seen no more than a longer one.
LEMMA SeenMonotone ==
    ASSUME NEW v, NEW m \in Int, NEW n \in Int, m <= n
    PROVE  SeenUpTo(v, m) \subseteq SeenUpTo(v, n)
  BY DEF SeenUpTo

LEMMA InitIInv == Init => IInv
  <1> SUFFICES ASSUME Init PROVE IInv
    OBVIOUS
  <1>1. res \in ResultObject
    BY ResultsAssumption DEF Init
  <1>2. Rows \in Seq(PointsToTuple)
    BY <1>1 DEF ResultObject, Rows
  <1>3. Len(Rows) \in Nat
    BY <1>2
  <1>4. TypeOK
    BY <1>3 DEF Init, TypeOK, Rows, Pending
  <1>5. ScanInv
    BY SeenNothing DEF Init, ScanInv
  <1>6. AnswerCorrect
    BY DEF Init, AnswerCorrect, Pending, NoAlias, MayAlias, MustAlias
  <1> QED
    BY <1>4, <1>5, <1>6 DEF IInv

LEMMA AskPreserves ==
    ASSUME IInv, Ask
    PROVE  IInv'
  <1>1. PICK l \in Values, o \in Values : StartQuery(l, o)
    BY DEF Ask
  <1>2. Len(Rows) \in Nat /\ Rows' = Rows
    BY RowsAreTuples DEF IInv, Ask, Rows
  <1>3. TypeOK'
    BY <1>1, <1>2 DEF IInv, TypeOK, Ask, StartQuery, Rows, Pending
  <1>4. ScanInv'
    <2>1. \A v : SeenUpTo(v, 0)' = {}
      BY DEF SeenUpTo
    <2>2. next' - 1 = 0
      BY <1>1 DEF StartQuery
    <2> QED
      BY <1>1, <2>1, <2>2 DEF StartQuery, ScanInv, SeenUpTo
  <1>5. AnswerCorrect'
    BY <1>1 DEF StartQuery, AnswerCorrect, Pending, NoAlias, MayAlias, MustAlias
  <1> QED
    BY <1>3, <1>4, <1>5 DEF IInv

LEMMA VisitPreserves ==
    ASSUME IInv, VisitRow
    PROVE  IInv'
  <1> USE DEF IInv, VisitRow, Scanning
  <1>1. Len(Rows) \in Nat /\ next \in 1 .. Len(Rows) /\ Row.to \in Allocs
    <2>1. next \in 1 .. Len(Rows) /\ Len(Rows) \in Nat
      BY RowsAreTuples DEF TypeOK, MoreRows, Rows
    <2>2. Row \in PointsToTuple
      BY <2>1, RowsAreTuples DEF Row, Rows
    <2> QED
      BY <2>1, <2>2 DEF PointsToTuple
  <1>2. TypeOK'
    BY <1>1 DEF TypeOK, Collect, Rows, Pending
  <1>3. points_to_set' = SeenUpTo(location, next)
    BY SeenGrows DEF ScanInv
  <1>4. other_points_to_set' = SeenUpTo(other_location, next)
    BY SeenGrows DEF ScanInv
  <1>5. next' - 1 = next
    BY <1>1
  <1>6. points_to_set' \cap other_points_to_set' = {}
    BY DEF ScanInv, Collect, IsCommon
  <1>7. ScanInv'
    BY <1>3, <1>4, <1>5, <1>6 DEF ScanInv, SeenUpTo
  <1>8. AnswerCorrect'
    BY DEF AnswerCorrect, Pending, NoAlias, MayAlias, MustAlias
  <1> QED
    BY <1>2, <1>7, <1>8

\* The three ways to answer, each with what it knows of the two pointers.
LEMMA AnswersAreRight ==
    ASSUME IInv
    PROVE  /\ SamePointer => location = other_location /\ answer' = MustAlias
           /\ FoundCommon =>
                /\ location # other_location
                /\ VariablePointsTo(location)
                     \cap VariablePointsTo(other_location) # {}
                /\ answer' = MayAlias
           /\ Exhausted =>
                /\ location # other_location
                /\ VariablePointsTo(location)
                     \cap VariablePointsTo(other_location) = {}
                /\ answer' = NoAlias
  <1> USE DEF IInv
  <1>1. Len(Rows) \in Nat /\ next \in 1 .. Len(Rows) + 1
    BY RowsAreTuples DEF TypeOK, Rows
  <1>2. SamePointer => location = other_location /\ answer' = MustAlias
    BY DEF SamePointer, Return
  <1>3. ASSUME FoundCommon
        PROVE  /\ location # other_location
               /\ VariablePointsTo(location)
                    \cap VariablePointsTo(other_location) # {}
               /\ answer' = MayAlias
    <2>1. next \in 1 .. Len(Rows)
      BY <1>1, <1>3 DEF FoundCommon, MoreRows, Rows
    <2>2. Row \in PointsToTuple
      BY <2>1, RowsAreTuples DEF Row, Rows
    <2>3. Row.to \in VariablePointsTo(Row.from)
      BY <2>1, <2>2 DEF VariablePointsTo, SeenUpTo, Row, Rows, PointsToTuple
    <2>4. next - 1 \in Int /\ next - 1 <= Len(Rows)
      BY <1>1
    <2>5. \A v : SeenUpTo(v, next - 1) \subseteq VariablePointsTo(v)
      BY <1>1, <2>4, SeenMonotone DEF VariablePointsTo, Rows
    <2>6. /\ points_to_set \subseteq VariablePointsTo(location)
          /\ other_points_to_set \subseteq VariablePointsTo(other_location)
      BY <1>3, <2>5 DEF FoundCommon, Scanning, ScanInv
    <2>7. \/ Row.from = location /\ Row.to \in other_points_to_set
          \/ Row.from = other_location /\ Row.to \in points_to_set
      BY <1>3 DEF FoundCommon, IsCommon
    <2>8. Row.to \in VariablePointsTo(location)
                       \cap VariablePointsTo(other_location)
      BY <2>3, <2>6, <2>7
    <2> QED
      BY <1>3, <2>8 DEF FoundCommon, Scanning, Return
  <1>4. ASSUME Exhausted
        PROVE  /\ location # other_location
               /\ VariablePointsTo(location)
                    \cap VariablePointsTo(other_location) = {}
               /\ answer' = NoAlias
    <2>1. next - 1 = Len(Rows)
      BY <1>1, <1>4 DEF Exhausted, MoreRows, Rows
    <2>2. \A v : VariablePointsTo(v) = SeenUpTo(v, next - 1)
      BY <2>1 DEF VariablePointsTo, Rows
    <2>3. SeenUpTo(location, next - 1)
            \cap SeenUpTo(other_location, next - 1) = {}
      BY <1>4 DEF Exhausted, Scanning, ScanInv
    <2>4. VariablePointsTo(location)
            \cap VariablePointsTo(other_location) = {}
      BY <2>2, <2>3
    <2> QED
      BY <1>4, <2>4 DEF Exhausted, Scanning, Return
  <1> QED
    BY <1>2, <1>3, <1>4

LEMMA ReturnPreserves ==
    ASSUME IInv, SamePointer \/ FoundCommon \/ Exhausted
    PROVE  IInv'
  <1>1. PICK a \in {NoAlias, MayAlias, MustAlias} : Return(a)
    BY DEF SamePointer, FoundCommon, Exhausted
  <1>2. TypeOK'
    BY <1>1 DEF IInv, TypeOK, Return
  <1>3. ScanInv'
    BY <1>1 DEF ScanInv, Return, NoAlias, MayAlias, MustAlias, Pending
  <1>4. \A v : VariablePointsTo(v)' = VariablePointsTo(v)
    BY <1>1 DEF VariablePointsTo, SeenUpTo, Return
  <1>5. /\ location' = location
        /\ other_location' = other_location
        /\ VariablePointsTo(location)' = VariablePointsTo(location)
        /\ VariablePointsTo(other_location)' = VariablePointsTo(other_location)
    BY <1>1 DEF VariablePointsTo, SeenUpTo, Return
  <1>6. AnswerCorrect'
    BY <1>5, AnswersAreRight DEF AnswerCorrect, NoAlias, MayAlias, MustAlias
  <1> QED
    BY <1>2, <1>3, <1>6 DEF IInv

LEMMA StepIInv == IInv /\ [Next]_vars => IInv'
  <1> SUFFICES ASSUME IInv, [Next]_vars PROVE IInv'
    OBVIOUS
  <1>1. CASE Ask
    BY <1>1, AskPreserves
  <1>2. CASE VisitRow
    BY <1>2, VisitPreserves
  <1>3. CASE SamePointer \/ FoundCommon \/ Exhausted
    BY <1>3, ReturnPreserves
  <1>4. CASE UNCHANGED vars
    BY <1>4 DEF vars, IInv, TypeOK, ScanInv, AnswerCorrect, VariablePointsTo,
                SeenUpTo
  <1> QED
    BY <1>1, <1>2, <1>3, <1>4 DEF Next

\* The walk stays inside the vector and the sets hold allocations, for every
\* result object (the loop of alias()).
THEOREM TypeCorrectness == Spec => []TypeOK
  <1>1. IInv => TypeOK
    BY DEF IInv
  <1> QED
    BY InitIInv, StepIInv, <1>1, PTL DEF Spec

\* Whatever the rows, their order and their contexts, the answer is the one a
\* comparison of the two whole points-to sets gives (alias()).
THEOREM Correctness == Spec => []AnswerCorrect
  <1>1. IInv => AnswerCorrect
    BY DEF IInv
  <1> QED
    BY InitIInv, StepIInv, <1>1, PTL DEF Spec

\* For variables the rows that alias() reads are all there is.
LEMMA VariablesHaveAllRows ==
    ASSUME TypeOK, NEW v \in Variables
    PROVE  OperandPointsTo(v) \subseteq VariablePointsTo(v)
  <1>1. OperandsExtendVariables(res) /\ res \in ResultObject
    BY ResultsAssumption DEF TypeOK
  <1>2. ASSUME NEW a \in OperandPointsTo(v) PROVE a \in VariablePointsTo(v)
    <2>1. PICK t \in res.operand_points_to : t.from = v /\ t.to = a
      BY <1>2 DEF OperandPointsTo
    <2>2. t \in PointsToTuple
      BY <1>1 DEF ResultObject
    <2>3. PICK i \in 1 .. Len(res.variable_points_to) :
             res.variable_points_to[i] = t
      BY <1>1, <2>1, <2>2 DEF OperandsExtendVariables
    <2> QED
      BY <2>1, <2>3, <1>2 DEF VariablePointsTo, SeenUpTo, OperandPointsTo
  <1> QED
    BY <1>2

\* A NoAlias answer about two variables is sound for the analysis: they share
\* no allocation as operands, in any pair of contexts (alias()).
THEOREM VariablesSound == Spec => []NoAliasOfVariables
  <1>1. IInv => NoAliasOfVariables
    BY VariablesHaveAllRows DEF IInv, AnswerCorrect, NoAliasOfVariables
  <1> QED
    BY InitIInv, StepIInv, <1>1, PTL DEF Spec

-----------------------------------------------------------------------------
(* The refinement of the one-step oracle.                                   *)

PointsToMap == [v \in Values |-> VariablePointsTo(v)]

LEMMA MapUnchanged ==
    ASSUME UNCHANGED res
    PROVE  PointsToMap' = PointsToMap
  BY DEF PointsToMap, VariablePointsTo, SeenUpTo

LEMMA InitImplements == Init => Oracle!OracleInit
  <1> SUFFICES ASSUME Init PROVE Oracle!OracleInit
    OBVIOUS
  <1>1. PointsToMap \in [Values -> SUBSET Allocs]
    BY DEF PointsToMap, VariablePointsTo, SeenUpTo
  <1>2. <<location, other_location>> \in Values \X Values
    BY DEF Init
  <1> QED
    BY <1>1, <1>2 DEF Init, Oracle!OracleInit, Oracle!Pending, Pending, PointsToMap

LEMMA StepImplements ==
    ASSUME IInv, [Next]_vars
    PROVE  [Oracle!AskQuestion \/ Oracle!GiveAnswer]_
               <<PointsToMap, <<location, other_location>>, answer>>
  <1>1. ASSUME Ask PROVE Oracle!AskQuestion
    <2>1. PICK l \in Values, o \in Values : StartQuery(l, o)
      BY <1>1 DEF Ask
    <2>2. <<location, other_location>>' \in Values \X Values
      BY <2>1 DEF StartQuery
    <2>3. PointsToMap' = PointsToMap
      BY <1>1, MapUnchanged DEF Ask
    <2> QED
      BY <1>1, <2>1, <2>2, <2>3
      DEF Ask, StartQuery, Oracle!AskQuestion, Oracle!Pending, Pending,
          PointsToMap
  <1>2. ASSUME SamePointer \/ FoundCommon \/ Exhausted PROVE Oracle!GiveAnswer
    <2>1. PICK a \in {NoAlias, MayAlias, MustAlias} : Return(a)
      BY <1>2 DEF SamePointer, FoundCommon, Exhausted
    <2>2. PointsToMap' = PointsToMap
      BY <2>1, MapUnchanged DEF Return
    <2>3. answer = Pending
      BY <1>2 DEF SamePointer, FoundCommon, Exhausted, Scanning
    <2>4. location \in Values /\ other_location \in Values
      BY DEF IInv, TypeOK
    <2>5. Oracle!Answer(location, other_location) =
            IF location = other_location THEN MustAlias
            ELSE IF VariablePointsTo(location)
                      \cap VariablePointsTo(other_location) = {}
                 THEN NoAlias
            ELSE MayAlias
      BY <2>4 DEF Oracle!Answer, Oracle!NoAlias, Oracle!MayAlias,
                  Oracle!MustAlias, NoAlias, MayAlias, MustAlias
    <2>6. answer' = Oracle!Answer(location, other_location)
      BY <1>2, <2>5, AnswersAreRight
    <2> QED
      BY <2>1, <2>2, <2>3, <2>6
      DEF Return, Oracle!GiveAnswer, Oracle!Pending, Pending, PointsToMap
  <1>3. ASSUME VisitRow \/ UNCHANGED vars
        PROVE  UNCHANGED <<PointsToMap, <<location, other_location>>, answer>>
    <2>1. PointsToMap' = PointsToMap
      BY <1>3, MapUnchanged DEF VisitRow, vars
    <2> QED
      BY <1>3, <2>1 DEF VisitRow, vars
  <1> QED
    BY <1>1, <1>2, <1>3 DEF Next

\* The walk over the rows implements a comparison done in one step, whatever
\* was asked before (alias() keeps nothing from one query to the next).
THEOREM Implementation == Spec => ImplementsOracle
  <1>1. IInv /\ [Next]_vars =>
          [Oracle!AskQuestion \/ Oracle!GiveAnswer]_
              <<PointsToMap, <<location, other_location>>, answer>>
    BY StepImplements
  <1>2. Spec => []IInv
    BY InitIInv, StepIInv, PTL DEF Spec
  <1> QED
    BY <1>1, <1>2, InitImplements, PTL
    DEF Spec, ImplementsOracle, Oracle!OracleSpec, PointsToMap
=============================================================================
