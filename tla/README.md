# Verification of cclyzer++

cclyzer++ is a whole-program points-to analysis for LLVM IR.  A C++ *fact
generator* turns bitcode into relations; a Datalog program (Souffle) computes
points-to relations and a call graph from them; an LLVM pass answers alias
queries from the result.  The Datalog program, in `datalog/`, is the core: two
analyses (subset-based and unification-based) that are mutually recursive with
the construction of the call graph and of calling contexts.

These modules model the core as state machines whose state is the contents of
the relations and whose steps are applications of rules, and they relate its
results to what executions of the analysed program can do.

## 1. The system

| Component | Source | State (relations) | Operations | Interacts with |
|---|---|---|---|---|
| Contexts | `datalog/context/interface.dl`, `drop.dl` | `context`, `context_depth`, `drop_last`, `merge` | rules that make a callee context from a call and a caller context | reads reachability from the call graph, gives `merge` to it (same stratum) |
| Call graph | `datalog/points-to/interprocedural.dl`, `callgraph/entry-points.dl` | `reachable_context`, `callgraph_edge` | roots, direct and indirect calls, interprocedural assignments | points-to sets of function pointers in, edges out |
| Subset analysis | `datalog/points-to/core.dl`, `subset.dl`, `assignment.dl`, `allocations.dl`, `argv.dl`, `at-exit.dl`, `constant-*.dl` | `var_points_to`, `ptr_points_to`, `called_at_exit` | one rule per kind of instruction, alias and match rules | all of the above, subobjects, signatures, type indications |
| Unification analysis | `datalog/points-to/unification.dl`, `region.dl` | `unify0`, `unify`, choice relations | one fact kept per key (choice-domain), the others unified with it; union-find by subsumption; canonical representatives | as the subset analysis |
| Subobjects and aliases | `allocations-subobjects*.dl`, `field-sensitivity.dl`, `allocations-sizes.dl` | subregions, `alloc_aliases`, `alloc_matches`, sizes | make subregions from types and from `getelementptr` | grows while the analyses run |
| memcpy, signatures, type back-propagation, C++ | `memcpy.dl`, `signatures.dl`, `type-back-propagation.dl`, `cplusplus*.dl`, ... | extra allocations and points-to facts | rules fed by and feeding the analyses | both analyses |
| Options, schema, symbol lookup, assertions, export | `options/`, `schema/`, `symbol-lookup/`, `assertions.dl`, `export/` | non-recursive relations | projections and checks | inputs and outputs |
| Fact generator | `FactGenerator/` | stack of refmode contexts and counters, result map, cache of variables, recorded types, one stream per predicate | visit modules, functions, blocks, instructions, constants; read signatures; accumulate types; the command line | LLVM in, fact files and (in the pass) the result map out |
| LLVM pass | `src/PAInterface.cpp`, `PointerAnalysis.cpp` | temporary directory, Souffle program, result object | generate, load, run, check assertions, extract, remove; `alias()`, `pointsTo()` | fact generator, Souffle program, LLVM's alias analysis |

What makes the core hard:

* *Mutual recursion.*  Contexts are made by calls that are reachable in
  contexts; indirect calls depend on points-to sets that depend on calls.
  Souffle evaluates all this in one recursive stratum, in rounds and in an
  order chosen by its optimizer.  Each property is therefore claimed of every
  order, and most of them of every intermediate state.
* *Deletion.*  The union-find of the unification analysis deletes tuples
  (`<=`, subsumption) that other rules may already have used.
* *Choice.*  The unification analysis keeps the first fact per variable, region
  and type that happens to be derived; which one it is depends on the optimizer.
* *Joins that fail silently.*  A missing `drop_last`, a context that differs
  from the one used elsewhere, an allocation without a representative: each
  loses facts without any error, and a points-to analysis that loses facts is
  unsound.  The repository's own `assertions.dl` guards some of these joins.
* *Names as keys.*  The two halves of the program agree on nothing but strings:
  the refmode of an entity, computed from a mutable stack of contexts while
  facts are written, is the key under which everything is joined later.  A
  counter that restarts at the wrong moment names two entities alike.
* *Process-wide state.*  The generator is a static variable that refers to the
  writer it was first made with; the pass may run again in the same process, may
  be killed, and shares a directory with other processes.

What makes each component correct: contexts are the k most recent context
items, bounded, and there is one for every reachable call; the union-find
computes the equivalence closure and loses nothing; the subset analysis covers
every execution, and contexts add precision and nothing else; the unification
analysis covers the subset analysis, whatever it chose; every entity has
one name and every name one entity; what is loaded into the analysis is about
the module it was asked about; an alias query answers as the whole points-to
sets do.

## 2. Modules

| Module | Models |
|---|---|
| `ContextOps` | options, context items, contexts of roots, and `Push`, the closed form of `merge` |
| `Contexts` | the rules of `interface.dl`, one action per rule, over an environment that makes calls reachable |
| `ContextsProofs` | theorems about `Contexts` |
| `UnionFind` | `unify0`, `unify`, the subsumption clause, `is_repr`, `unify_repr` |
| `UnionFindProofs` | theorems about `UnionFind` |
| `PointsTo` | the subset analysis with its call graph, one action per rule or group of rules with one head |
| `Execution` | `PointsTo`, followed by executions of the analysed program (the reference for soundness) |
| `PointsToProofs` | theorems about `PointsTo`, and about `Execution` that the analysis is sound |
| `ContextFree` | what the analysis promises whatever its contexts are: an analysis of facts without contexts |
| `StripCtx` | `strip-context-projections.dl`, and that under them `PointsTo` is a `ContextFree` |
| `MCProgram` | the program that `PointsTo` and `Execution` are checked on |
| `TypeLayout` | `type-compatibility.dl` and what the rules on subobjects ask of types |
| `Subobjects` | `allocations-subobjects.dl`: subregions, their offsets and sizes; `allocations-subobjects-aliases.dl`: `alloc_aliases` and `alloc_matches` |
| `FieldSensitivity` | `field-sensitivity.dl`: `getelementptr` index by index; and the rules of `subset.dl` that use aliases and matches |
| `Memcpy` | `memcpy.dl`: the pairs of parts of which one is copied to the other, and the rule that copies |
| `Unification` | `unification.dl`: choices, `unify0`, loads from classes, sizes of unified allocations |
| `Addresses` | the five above run to their end, followed by executions on byte addresses (the reference for what subregions stand for) |
| `AddressesProofs` | theorems about `alloc_matches`, `alloc_aliases` and `unify0` |
| `TypeFacts` | `Types.cpp` and `TypeVisitor.cpp`: the worklist that accumulates types, the facts of each kind of type, and their sizes as `type.dl` reads them |
| `TypeFactsProofs` | theorems about `TypeFacts` |
| `LlvmEnums` | the tables that spell LLVM's enumerators |
| `InstructionFacts` | `InstructionVisitor`: what is recorded of every instruction, as a sequence of requests |
| `Refmodes` | `ContextManager` and `RefmodeEngineImpl`: the stack of contexts and the names computed from it |
| `Signatures` | the reader of the signature file |
| `FactGenerator` | `processModule` and what it calls, one action per turn of a loop: the requests carried out, with the variable cache, the result map, constants, globals, functions and signatures |
| `SchemaConstraints` | the `schema_invalid_*` and `schema_sanity` constraints of the Datalog schema, evaluated on the generated facts, and the properties of the generator |
| `FactGeneratorProofs` | theorems about `FactGenerator` and the properties of `SchemaConstraints` |
| `AliasOracle` | the promise of an alias query, answered in one step from whole points-to sets |
| `AliasQuery` | `PointerAnalysisAAResult::alias`: the walk over the rows, with the two sets it fills |
| `AliasQueryProofs` | theorems about `AliasQuery`, among them that it implements `AliasOracle` |
| `ContextSensitivity` | the texts of the context sensitivity: parsed in C++, printed into a fact, read by `user-options.dl` and `interface.dl` |
| `FactFiles` | the disk, `FactWriter` with its streams, and the static `FactGenerator` |
| `FactgenExe` | `Options` and `main` of factgen, one action per handler |
| `AnalysisPass` | `runOnModule`: from the temporary directory to the result object |
| `Frontends` | both front ends as processes over one disk, with kills, and a second run of the pass in a process |
| `FrontendsProofs` | theorems about `Frontends` |
| `MC*` | instances for TLC |

Operators are named after the relations and macros they translate
(`context_item_by_invoc`, `operand_points_to`, `is_repr`, ...), actions after
what the rule does.  Tuples keep the column order of the relation, except that
`AllocWithContext` pairs are records in `UnionFind`.  A definition whose name
contains `Slip` is a plausible mistake in the definition that follows it; it is
not used by the model and serves to test the properties.

### Rules as actions

A rule adds tuples and, but for subsumption, never removes any.  In
`Contexts` and `PointsTo` an action adds everything its rule derives from the
present state.  In `UnionFind`, where deletion makes the order matter, an
action adds or removes *one* tuple: a round of Souffle's semi-naive evaluation
is a sequence of such steps, so every evaluation order is a behaviour.
`PointsTo!Round` is one iteration of the loop that Souffle compiles the
stratum to: every rule at once.  `PointsTo!Derives` is coarser than all of
these, any derivable tuples at once; the theorems about `PointsTo` are proved
of `Derives` steps, hence of every order.

### Composition

`ContextOps` is shared by `Contexts` and `PointsTo`.  `PointsTo` uses `Push`
where the code joins with `merge`; `Contexts` is where that is justified
(`MergeIsPush`: `merge` contains nothing else, and when the rules have ended it
has a tuple for every reachable call).  `Execution` and `StripCtx` extend
`PointsTo`.  `StripCtx` instantiates `ContextFree` under the projections of
`strip-context-projections.dl`: the two have the same rules, the one over
relations with contexts and the other without.

`PointsTo` and `FieldSensitivity` are two views of the subset analysis.  The
first has calls and contexts, and allocations without parts; the second has
parts of allocations, in one function and without contexts, because subregions
depend on types and not on contexts.  `FieldSensitivity` extends `Subobjects`,
with which it shares one stratum: a step of `Addresses` is a rule of either.
`Memcpy` adds its rules to that stratum.
`Unification` extends these, and has their rules a second time, as an instance
over its own relations.  On a program that passes allocations to parameters,
`Addresses` runs rounds of the unification analysis until they add nothing, and
then the rules of the subset analysis.  That order suffices: subregions, aliases
and matches belong to both analyses and only grow, no rule of the unification
analysis reads a fact of the subset analysis, and what the first leaves behind
is what the second would otherwise find in an earlier order.  The end of the
rules is `Fixpoint`: both sets of rules add nothing.

`FactGenerator` carries out what `InstructionFacts` asks for, in its order,
with names from `Refmodes` and facts from `Signatures` and `LlvmEnums`;
`SchemaConstraints` extends it with the other side of the interface, the
constraints under which the Datalog code expects the facts.  `Frontends`
composes `FactgenExe` and `AnalysisPass` over the objects and the disk of
`FactFiles`.  A kill is an action of `Frontends` and may fall between any two
steps of either; it loses the objects of the process, and of what a stream had
buffered any part, or nothing.

### Abstractions

* `UnionFind` identifies contexts and allocations with their `ord()`.  The
  facts of `unify0` come from the rest of the analysis: any of `UnifyFacts`
  may arrive at any time.
* `Contexts` takes as parameters which calls go to functions with one call
  site and which declared types carry no pointers (`drop.dl` computes both
  from the program, before the recursive stratum).
* `PointsTo` takes as parameters the input relations of the program, the
  relations that are computed before its stratum (`call_instr_fn_target`,
  `constant_points_to`, `type_compatible`, ...), and `alloc_aliases` and
  `alloc_matches`, which `Subobjects` computes.  Three assumptions say what such relations look like:
  `ProgramAssumption` (columns), `LocalityAssumption` (variables and constants
  belong to one function, the results of an instruction to the function of the
  instruction, argv to main: `schema/operand.dl:31`, `assertions.dl:260`) and
  `AliasAssumption` (aliases are an equivalence, by
  `allocations-subobjects-aliases.dl:33-47`).  `assign_instr` and `alloca_or_malloc` stand for the
  instructions before the test for a reachable function; that test is part of
  the actions.
* An allocation of `Subobjects` is the sequence of its root and its components,
  where the code concatenates strings; a component is a field, a known index or
  the star.  A root has the type and size that the rules for basic allocations
  give it.  `pointer_index` and `array_indices` are computed at the beginning,
  as in the code, whose stratum for them comes first.
* `Addresses` has objects that are ranges of bytes and pointers that are an
  object and an offset.  It assumes of the program what the analysis assumes of
  C: an address computed by `getelementptr` stays inside its object (one past
  the end is tracked nowhere, see `index_in_bounds`), and an index into an array
  stays inside the array.  A first index that is not a constant moves by at most
  `MaxIndex` elements.  A copy moves the pointers that lie in its bytes, and its size is
  what both objects have room for.
* `Unification` takes `unify` for the equivalence closure of `unify0` and a
  representative for its first element: `UnionFind` models the rules that compute
  them, and proves that they do (`ReprsAreClasses`).  The order of allocations
  is the one in which their names first occur (`ord`), any for the roots.  A
  round applies all rules at once, as a turn of Souffle's loop does, so the
  orders that it leaves open are: which fact is kept when several of a key
  arrive in a round, the round in which each call is found, and the order of
  names.  The call graph and contexts are those of `PointsTo`; here a call is
  the arguments and results that it passes.
* `TypeFacts` knows a type by its printed form; the type graph, the sizes and
  the sets of recorded types are parameters.  The two loops over hash sets take
  their elements in any order.
* A refmode is the sequence of its parts where the code joins them with `:`
  (`Refmodes`); numbers are turned into strings as in the code, because a value
  named `0` and the unnamed value 0 must look alike.  A constant keeps its kind,
  operands and value; its text is a parameter.
* `InstructionFacts` gives an instruction LLVM's own operand list, so that the
  visitor's positions (`getOperand(i)`, the reversed labels of a branch) are
  modelled and not assumed.  A fact of arity n is a tuple.
* `Signatures` has JSON values; a regular expression is whether it is valid and
  what it matches.
* `AliasQuery` has any result object with the vectors the code keeps;
  `OperandsExtendVariables` is the relation of the two by `core.dl:78-90`.
* `FactFiles` abstracts a fact to the module it is about, because the
  properties ask whose facts arrive; the one of `user_options` keeps its text.
  `Slots` are the places on the stack at which a `FactWriter` may be built,
  since the generator keeps the address of the first.

## 3. Runs

| Run | Instance and bounds | Checks |
|---|---|---|
| `union_find` | 2 contexts x 2 allocations, 5 `unify0` facts, 8,112 states | `ParentsAreSound`, `NothingOrphaned`, `RepresentativesExist`, `RepresentativesAreClasses`, `ParentsOnlyDescend`, `Settles` |
| `contexts` | 2 functions, 3 calls, at most 3 reachable calls, k up to 3, all options, 165,493 states | `TypeOK`, `MergeIsPush`, `DepthAndDropLastExact`, `EveryCallGetsContext` |
| `subset_analysis` | `MCProgram` without the elements of argv, `inttoptr` and two loads, call-site contexts, k = 2, 40,996 states | `VarPointsToImpliesReachable`, `AllocWithCtxComplete`, `Settles`, `ImplementsContextFree` |
| `argv_insensitive` | `MCProgram`, insensitive | `VarPointsToImpliesReachable` is violated |
| `execution` | `MCProgram`, all three sensitivities, k = 2, 3 objects, 4 frames, 314,640 states | `Sound` |
| `subobjects` | 15 programs, objects of up to 6 words, `MaxIndex` = 3, 56,779 states | `PointersCovered`, `AliasesAreDefinite`, `MatchesAreInstances`, `SizesWithinParent`, `CoversSubset`, `RegionsNotMerged` |
| `unification_inhabited` | a constant and a variable global passed to one parameter, stored through it and loaded | `SubsetImpliesUnification` is violated |
| `type_facts` | a graph of 16 types, 5 sets of recorded types, any order, 2,444 states | `AccumulatesContained`, `ComponentsDescribed`, `TypesHaveOneSize`, `Finishes` |
| `fact_generator` | `MCPrograms`: modules with every kind of instruction and constant, several modules, signature files, 6,366 states | `ContextsNested`, `EntitiesIdentified`, `VariablesOwned`, `ResultMapComplete`, `ControlFlowRebuilt`, `SchemaSatisfied`, `SignaturesComplete`, `TypesRecorded` |
| `alias_query` | 2 variables, a global, 2 allocations, 2 contexts, every result of at most 3 rows, 19,698 states | `NoAliasOfVariables`, `ImplementsOracle` |
| `alias_soundness` | 3 allocations, at most 2 rows | `NoAliasSound` is violated |
| `frontends` | 3 disks, the command lines of `MCFrontends`, 2 processes, 2 runs of the pass in one, 613,196 states | `CompleteOnSuccess`, `ForeignFilesKept`, `SensitivityReachesAnalysis`, `ResultOfThisModule`, `WorkFilesKept` |

**union_find.**  The five facts join four elements along two paths, so that one
element is united first as the larger and later as the smaller end, through
parents that are stale by then.  `ParentsAreSound` and `NothingOrphaned` hold
in every intermediate state.  The two properties of representatives hold
whenever the rules have settled (`Fixpoint`): they are `assert_has_repr` and
`assert_unique_repr` of `assertions.dl`, strengthened to what these are for
(same representative exactly when related by `unify0`).  `Settles` says that
the non-monotone stratum settles after every burst of facts.

**contexts.**  One call never carries pointers, one goes to a function with a
single call site, one is ordinary; with k up to 3 all three `drop_last` rules
matter.  Three reachable calls suffice to exceed each k by one, because a
context of depth k is made by k calls and `MergeDeep` needs the one after
them (for k = 3 the root's own item is the first).  `Finished` is a state to
which no rule has anything to add; in such states `MergeIsPush` is
`assert_reachable_calls_have_contexts` per calling context, and
`DepthAndDropLastExact` says that no context is without a depth or a
`drop_last`.  `EveryCallGetsContext` says that it gets there.

**subset_analysis.**  `MCProgram` has a function called from two sites with
different arguments, one that copies and returns its parameter, one that
returns a new object, a callback through a global table, a handler registered
by `atexit`, a destructor registered by `__cxa_atexit` with a global object, a
store to the first field of that object (an alias of it), argv with an element
and its string, and `inttoptr`.  One call passes no pointers and three go to
functions with one call site, so dropped contexts and items occur.  Its comment
lists it.  The run applies the rules in every order; the loads that nothing
depends on are left out because they multiply the orders and add no
dependency.  The two assertions are checked in *every* state, not only at the
end, because rules of the same stratum rely on them (`core.dl:45`).
`VarPointsToImpliesReachable` allows reachability that a rule is about to
derive; in a fixpoint that is reachability itself, as in the assertion.  The
match rules (`subset.dl:57-71`) are actions, but no operand of the program
points to the element at any index, which only `getelementptr` yields, so they
derive nothing here; they do in the run `subobjects`.  `ImplementsContextFree` is a refinement: each
step of the analysis is, without its contexts, one that the instructions of
reachable functions and the edges of the call graph justify, so that no interplay
of k, dropped items and returns makes up a flow.

**argv_insensitive.**  A disagreement: `argv_var_points_to` and
`at_exit_var_points_to` use `main_context` and `exit_context` in every mode,
but in insensitive mode `main` and the handlers are reachable in the empty
context only.  `assert_var_points_to_implies_reachable` is violated by a
`bitcast` of argv, and the facts are lost to all instructions that look in the
empty context.  Where the other runs analyse insensitively they leave the
two features out.

**execution.**  The analysis reaches its fixpoint first, and then the program
runs, with every interleaving of its own steps.
`Sound` says that no frame, variable binding or memory cell of any
execution is missing from the analysis.  A frame executes the instructions of
its function in any order and number, so control flow is over-approximated.  The analysis is
run in rounds here; orders are the business of `subset_analysis` and of the
proofs.  Three objects make two instances of one allocation in different
contexts next to main's own, and four frames a chain below the callback.  In
insensitive mode argv and `__cxa_atexit` are left out, where the analysis is
known to miss them.

**subobjects.**  Each program stores through one path and loads through another:
an array at a known and at an unknown index, in both directions; an array of
arrays, where the unknown index comes first in one path and second in the other,
so that the two allocations have no star in common and neither matches the
other; an array behind a field; a heap block of unknown size used as an array of
structs, with a negative step from an element; a field found by a byte offset.  Three programs write to one object, copy it and
read the copy: a struct, an element of a heap block to an element of another, and
an unknown number of elements.
The rules come in every order.  `PointersCovered` is soundness where it depends
on numbers: every address that a variable holds, by arithmetic or out of memory
that was written through another pointer, is among the offsets that one of its
allocations stands for.  `AliasesAreDefinite` compares symbolic addresses, in
which each star is a variable times the size of an element, so that two aliases
agree whatever the stars are.  `MatchesAreInstances` says what the star patterns
of the code's comment are, and that the five rules find them all.
`SizesWithinParent` is `assert_size_sum_less_than_parent`.  Objects of up to six
words hold two levels of arrays; `MaxIndex` reaches from any element to any other
of the array of the heap program.  The programs have no variable first index from
an element and no decayed array with an index that is not tracked: there
`PointersCovered` fails (section 6).

Seven further programs pass allocations to one parameter, so that they are
unified: a store through the parameter and a load from either; two functions,
which must not be unified; a cell with two contents, which are; a block of known
size with one of unknown size; arrays, and heap blocks used as arrays, at known
and at unknown indices; a struct copied to the parameter.  Calls are found in any round, any of the facts that
arrive together may be kept, and names come in any order.  `CoversSubset`
("more precise", `assertions.dl:282`) is stronger than the assertions
`assert_*_inhabited`: each fact of the subset analysis is there, up to unification.
`RegionsNotMerged` says that whatever was chosen, a function is never unified
with data, nor the heap with a global, though `unify0` is also filled from
aliases and from subregions at the same paths.  The programs avoid what
section 6 lists.

**unification_inhabited.**  A disagreement: a variable that the subset analysis
gives a fact has none in the unification analysis, contrary to
`assertions.dl:293-294`.  Stores want a `ptr_compatible_allocation`, and the
constant global that is kept for both is none.

**type_facts.**  A struct that contains a pointer to itself, arrays and vectors
of structs, a function type and an opaque struct that occur below a pointer
only, and the kinds the visitor ignores.  `AccumulatesContained` is the closure
that a depth-first worklist over a cyclic graph must compute;
`ComponentsDescribed` says that no fact names a type that has none of its own;
`TypesHaveOneSize` is `assert_type_has_size`, `assert_type_unique_size` and
`assert_array_type_size`, across the size that the generator writes and the one
that `type.dl` computes.

**fact_generator.**  Each program is a different stretch of the code: one with
every instruction and every kind of constant, one with named and unnamed
values, nested constant expressions and inline assembly, several modules,
a function with a body that has a signature before one that has none, and
signature files that are right or wrong in one place.  The states are the turns
of the loops of `processModule`, and within an instruction one state for each
request of the visitor, so that an invariant is checked between any two facts
of an instruction; the generator is deterministic but for the order of the
members of a JSON object, so the inputs are what varies.  A constant is written
with all it contains in one step, its operands in the order of the recursive
calls (`Reached`, a recursive function over the given `Constants`).
`ProgramsAssumption` and `ConstantsAssumption` say what LLVM guarantees of a
module that it could parse; TLC evaluates them here.  `EntitiesIdentified` is what the context stack is for:
within a program, no two entities that facts are about have the same refmode,
in spite of counters that restart; `ResultMapComplete` that the map the pass
reads back has every value, by the names in the facts.  `VariablesOwned`
is about the functions without a signature, also after one that leaves its
parameters in the cache of variables (section 6).  `ControlFlowRebuilt`
evaluates the rules for successors and basic blocks on the facts and compares
with the blocks of the module; of a conditional branch it compares the pair of
labels and not which is which.  What a signature that throws leaves behind is the
business of the run `frontends`.  `SchemaSatisfied` runs the two sides of the
interface against each other.

**alias_query.**  Every sequence of up to three rows, hence every order and
repetition: two rows suffice for a common allocation, the third is one that
must not matter.  The refinement maps the rows to points-to sets.

**alias_soundness.**  A disagreement: README.rst promises answers to may-alias
queries, but `alias()` reads the rows of variables only, and compares names of
allocations for equality.  The address of a global has no such row, and
elements of one array may overlap under two names (`alloc_may_alias`, which
nothing reads): both are answered NoAlias.

**frontends.**  Two processes suffice for a directory that another process
filled, left half-written or still has open streams for; two runs in one
process for the statics.  The command lines are right, or wrong in one place,
so that every early exit happens with what was done before it.  The properties
of a result are claimed of the first run in a process: what a second run does
is listed in section 6.  `ResultOfThisModule` also says that a first run is not
ended by a relation that is missing or of another shape, in any of the three
analyses; `WorkFilesKept` what is in the directory after a run that returns,
and after one that a failed assertion ends.  `CompleteOnSuccess` is what a signature
that throws must not break.

### Fairness

Liveness is checked under weak fairness of the rules and nothing else.
Souffle evaluates the rules of a stratum until none changes a relation, which
is what weak fairness of a rule says: a rule that could add or remove a tuple
is eventually applied.  `UnionFind` asks fairness of the disjunction of its
rules only (some rule is applied while any can be), `PointsTo` as well;
`Contexts` asks it of each rule, since its environment may go on making calls
reachable.  Nothing is assumed of the environments: facts and calls need never
arrive.  `TypeFacts` (`Finishes`) asks fairness of its step: a loop that runs
goes on running.  The other modules state no fairness: a process may be killed
at any time, and a query is one call.

## 4. Theorems

Proved with TLAPS, for every value of the constants.

`UnionFindProofs`, from `OrdAssumption` (ord() gives naturals) and
`UnifyFactsAssumption`:

* `TypeCorrect`, `Soundness`, `NoOrphans`, `Descent`,
  `EveryAllocationHasRepr`, `ReprsAreClasses`.
* The inductive invariant `IInv` adds to the checked properties that every
  element that occurs in `unify` has a parent that nothing dominates.  Souffle's
  clause deletes a tuple only in favour of a smaller parent of the *same*
  element, and the order is well-founded (least elements of sets of naturals),
  which is why a smallest parent exists in the first place and why it survives.
  That a smallest parent is its own only parent needs the fixpoint: reflexivity
  and transitivity must have been applied.  That two related elements end up
  with one representative is proved against the set-theoretic definition of
  the closure (`SameClass`): the elements that share a representative form a
  set that respects `unify0`.

`ContextsProofs`, from `ContextOpsAssumption` and `ContextsAssumption`:

* `TypeCorrect`, `MergesArePushes`, `ContextsAreBounded`,
  `DepthAndDropLastCorrect`.
* `IInv` is the conjunction of what these say of every state with `Closed`
  (contexts used by calls, merges and depths are in `context`).  `MergeDeep`
  joins three growing relations, so that it computes `Push` depends on the
  exactness of `context_depth` and `drop_last`, and that on the shape of
  contexts.
* That nothing is missing when the rules have ended needs a second invariant.
  The depth of a context comes from that of its tail, and its `drop_last` from
  that of the tail of its tail, so both need the tails to be contexts.  But the
  rules do not keep `context` closed under tails: a context that `drop_last` adds
  has as its tail the front of another context's tail, which is added later if
  at all.  `Supported` says that wherever the rules may end from here
  (`Ended`, for any further contexts, depths and pairs), they end with a set of
  contexts that has the tail and the front of each of its members and includes
  all present contexts.  Each rule keeps this, by induction over the length of
  contexts (`WholeIsTotal`, `WholeGrows`); a state in which the rules *have* ended
  is such an end of its own.  The induction takes the least length at which a
  context lacks one of the two.

`PointsToProofs`, from `ContextOpsAssumption`, `ProgramAssumption`,
`LocalityAssumption` and `AliasAssumption`:

* `TypeCorrect`, `AllocationsKnown`, `FactsAreReachable`, and
  `ContextsOnlyAddPrecision`, the refinement of `ContextFree`, for every program,
  sensitivity and k.  For each head relation a lemma says that what the rules
  derive, without contexts, is among what the rules of `ContextFree` derive from
  the projections; it rests on the type invariant only, as every join on a
  context is also a join on what is left of it.
* The first three are invariants of `Derives`, of which every rule
  (`RulesDerive`) and every round (`RoundDerives`) is a case.
* `AllocWithCtxComplete` holds of what a rule adds because it holds of the
  facts that the rule reads, up to aliases: this needs `AliasAssumption`, as
  the alias rules walk from one name to another.
* For `FactsAreReachable`, `LocatedInv` adds that the caller of each call graph
  edge is reachable in the edge's caller context, and that every variable with
  a fact, also a parameter, belongs to a function that is or is about to be
  reachable in the fact's context.  Without the first the result of a call
  could be assigned in a context in which the caller is not reachable, and
  without the second a copy of a parameter could.  `AssignFacts` has no test
  for the context of the copy; that it needs none is this theorem.  It is
  proved under `ArgvIsLocated`: no argv, or a context-sensitive mode.  The run
  `argv_insensitive` shows that the hypothesis cannot be dropped.

* `LeastResult`, `LeastInRounds`, `OneResult`: the order of rules does not matter.
  `On(r)` is the module over the relations of a record r, so that "every
  fixpoint of the rules" is a quantifier over records.  For each head relation
  a lemma says that the rules are monotone: what they derive from relations
  within r they also derive from r (`FactsMonotone`, `CallGraphMonotone`,
  `AtExitMonotone`, `LoadsMonotone`, `StoresMonotone`).  Hence `Least`: no
  `Derives` step leaves any fixpoint of the rules with the same options, which
  needs no type invariant.  Two fixpoints that are reached are within each
  other.  `OneResult` has the relations of the second evaluation primed.  The
  rules of the unification analysis with its choice relations are not of this
  kind: there the order does matter (section 6).

Also in `PointsToProofs`, about `Execution`, from the same assumptions and
`ExecutionAssumption`:

* `Soundness`: every execution of every program stays within what the analysis
  has derived, for every sensitivity and k and without a bound on frames or
  objects (`MaxFrames` and `MaxObjects` are any naturals).  `MachineTypeCorrect`.
* The invariant says: until the analysis ends, the machine has not started;
  afterwards the relations are a fixpoint, and each frame, each cell, each
  registered handler and *each call under way* is known: for adjacent frames
  the call graph has the edge with both contexts (`StackCovered`).  The last
  part is what makes returns work: `Returned` puts the value into the caller
  context of the edge, and that must be the context of the frame below, which
  k-limiting and dropping do not determine.
* Hypothesis `RootContextsInUse`: context-sensitive, or neither argv nor
  `__cxa_atexit`.  In insensitive mode facts for those two go to
  `main_context` and `exit_context`, in which nothing runs.

`TypeFactsProofs`, from `TypeAssumption`:

* `TypeCorrectness`; `Accumulation`: for every type graph, recursive or not, and
  every order of both loops, the accumulated types are the least set that has
  the recorded types and is closed under components.  The invariant says that
  every recorded type is accumulated or still waiting, and that the components
  of an accumulated type are accumulated or on the worklist; the other
  direction is against any closed set that has the recorded types.
* `References`: once all is written, every type that a fact names has facts of its
  own, or is of a kind that the visitor only reports.  `Sizes`: every type has
  one size, across those that the generator writes and those that `type.dl`
  gives (`x86_fp80` excepted, section 6).  Its hypothesis `SizesAsExpected` is
  what this asks of LLVM: types without structure go by their names, all but
  functions and opaque structs have a size, and the data layout pads no basic
  type.  TLC evaluates it on the graph of `MCTypeFacts`.

`AddressesProofs`, from `TypeLayoutAssumption` (finitely many types; sizes and the
offsets of fields are numbers, the first field is at 0) and
`SubobjectsAssumption` (basic allocations and `getelementptr` have types, and the
latter has indices):

* `RegionsStaySeparate`: `unify0` never relates allocations of different regions,
  whatever is kept and whenever calls are found.  `unify0` is filled with the
  subregions of a pair at the same paths, and from aliases; the invariant
  therefore says of the facts that choice-domain has kept that their allocations
  exist, and of paths and aliases that they never leave their root, from which
  a part has its region.
* `MatchesAreOrdered`: `alloc_matches` only relates an allocation to the same
  with stars for some of its indices.  `InstanceIrreflexive`,
  `InstanceTransitive` and `InstanceAsymmetric` make that a strict order, the
  "partial-order" without its reflexive part of
  `allocations-subobjects-aliases.dl:83-89`.  `Matches`: when the rules have
  ended, the five rules have found every such pair, so a load from a star finds
  every store to an instance of it.
* `AliasesShareStart`: two aliases are one allocation followed by zero indices
  and first fields, so that no star and no index other than 0 separates them.
  `Definite`: they have the same symbolic address, whatever elements the stars
  stand for.  `AliasesAreComplete`: when the rules have ended, `alloc_aliases`
  is *exactly* this relation.  `SameStartReflexive`, `SameStartSymmetric` and
  `SameStartTransitive` make it an equivalence, which is what `AliasAssumption`
  asks of the parameter of `PointsTo`.
* The invariant adds that allocations are finite paths, that the part of a path
  before its last component is an allocation too, that the last component fits
  the type of what is before it, and that a component that is a star is *the*
  star: the rule for an index and a star looks at the kind of a component only.
  Transitivity of aliases takes the shorter of two common paths.  The theorems
  about the end of the rules go component by component along a path, from what
  two allocations share to where they end; each step is a rule that, at the
  fixpoint, has been applied.  The same walk shows that a component at offset
  0 adds nothing to the symbolic address, which is the sum along the path.

`FrontendsProofs`, from `FrontendsAssumption` (disks are file systems, command
lines have their kinds), `FactFilesAssumption` (the predicates are finitely many
strings, `user_options` and `type` among them): for any disk, any number of
processes of both kinds one after another, a kill between any two steps, and any
number of runs of the pass in one process.

* `TypeCorrect`: the disk remains a file system, with every directory of every
  file; the directory that a process was given is there while it works in it; a
  writer writes to that directory and no other.
* `ForeignFiles`: `FilesOK` adds that nothing is touched before the output
  directory is prepared, and that without `--force` factgen goes on with an
  empty directory only.
* `FirstResult` and `WorkFiles`: `PassOK` follows one run from the empty files to
  the rows in the streams, on the disk, in the database and in the result
  object.  A stream truncates its file, so what a killed process left in the
  directory does not survive; the claims about the result need a generator that
  is new (`FirstRunOK`), those about the directory hold of every run.
  `FirstResult` has `RelationsAgree` as a hypothesis: that the names and columns
  of the relations that are read are those of the relations that are written is a
  formula without parameters, but about the concatenation of strings, which are opaque to
  the provers.  TLC computes it: in the run every analysis gets to `Extract`, which
  ends the run with a failure if it is false.
* `Complete`: `FactgenOK` says of every turn of the loop that the files to read
  are those that are done and those still in the list, that the streams have
  the rows of exactly the former, and that no file to read is in the output
  directory (`ToRead`), so that no write of factgen changes what it has yet to
  read.
* `Sensitivity`: the text that C++ prints for a sensitivity, or accepts, is one
  that the two Datalog rules read as the same kind and depth.

`FactGeneratorProofs`, from `ProgramsAssumption` and `ConstantsAssumption`, for every
list of programs, any number of modules, functions, blocks and instructions:

* `Invariance`, with which `ContextsFollow` is immediate: `Place` says that the
  counters point into the program, `Stack` which contexts are on the stack in
  each stage.  The stack must be known exactly, down to its members, because
  leaving an instruction, a block or a function pops without looking.
* `TypesOfFactsRecorded`: `HasTypes`, that every fact with a type names a recorded
  one.  It is kept by each operation that `Describes`: it adds facts and types, no
  signature, and no type in a fact that is not recorded, and leaves the walk
  where it is.  Of the visitor this needs that no kind of instruction asks for
  a fact with a type other than by `recordType`, and none for a signature
  (`Harmless`, `VisitorAsks`), for any operands, indices and clauses.
* `OnlySignaturesSign`, an action property from the same invariant.
  `SignaturesWritten`: `SignaturesSoFar` says, of each function of each module, that
  if the walk is past it the signatures of all matching expressions are in the
  facts, and that no other signatures are.  The order of the members of the file
  is any bijection, so the invariant keeps which entry came from which member,
  in both directions (`SignaturesRead`).
* `ResultsFound`: `MapInv` says that a refmode in the map leads to an entity for
  which it was made, and that each entity that results can name has its refmode
  in the map, unless it is the refmode of a result of the current function that
  has yet to be visited: an operand may be named before its instruction, as in
  a loop.  That the debt is paid when the function is left needs that the
  instruction is given the same refmode as the operand was, in a context two
  deeper or not (`LocalRefmode`), and that LLVM has operands that are results of
  the same function only (`OwnValue`).  The map also has the texts of constants
  as keys, which are no refmodes (`Long`).  The hypothesis `EntitiesIdentified` is
  needed, since `std::map::insert` keeps the first of two entities of one refmode.
* Constants are data of any depth.  What is proved of `WriteConstant` holds
  whatever `Reached` lists, so no induction is needed.

`AliasQueryProofs`, from `ResultsAssumption`:

* `TypeCorrectness`, `Correctness`, `VariablesSound`, `Implementation`.  The
  invariant says that the two sets hold exactly the allocations of the rows
  visited so far and that no allocation is in both: the walk returns at the
  first.  `Implementation` maps the walk to stutters of `AliasOracle` and its
  return to the answer.

Only model-checked, and why:

* Liveness (`Settles`, `EveryCallGetsContext`, `Finishes`), which is out of the
  prover's reach: that the rules end.  What holds when they do is proved.
* Of the fact generator, `EntitiesIdentified`: whether names identify entities
  rests on how numbers are turned into strings and on which names a program
  uses, and to the provers strings are opaque.  `VariablesOwned` rests on it too:
  a parameter that stayed in the cache must not have the refmode of a variable of
  the function that is written next.  `ControlFlowRebuilt` and
  `SchemaSatisfied` need much more of a program than that it is well-formed: that
  it is one LLVM's verifier accepts, instruction by instruction.
* `PointersCovered` and `CoversSubset`, which do not hold of every program
  (section 6 lists what breaks them), so there is no theorem without a
  description of the programs that avoid it.
* `SizesWithinParent`, which is about how LLVM lays out structs and about sums
  over the fields of a type.

## 5. Not modelled

The components marked `not_modelled` in `PROJECT.json`, and of the ones marked
`partly`:

* Of the analyses: `getelementptr` constant expressions and vectors, the types
  and sizes of basic allocations, the copies that signatures ask for, the rules that give
  signatures their meaning, type back-propagation, C++ classes and exceptions,
  and variadic parameters (`interprocedural.dl:214-239`); of the unification
  analysis, what it has for these, its contexts, and handlers at exit.  See the plan.
* Of the fact generator: the text of refmodes and constants, demangling, debug
  locations, and `PyFactGen.cpp`, which no build target contains.
* Of the pass: its registration with the pass managers, and when LLVM discards
  a result.
* Symbol lookup, the relations of `lift.dl`, export and statistics are non-recursive
  projections of other relations; a model of them would repeat them.  The
  projections of the schema that rename columns are left out for the same
  reason, its constraints are not.
* Scripts, tests, containers and documentation are no part of the analysis.

## 6. Discrepancies

Three disagreements between the code and what it says of itself are runs:
`argv_insensitive`, `alias_soundness` and `unification_inhabited`.  The following were met while
translating.  Where they concern modelled code the model does as the code does.

Fact generator:

* The labels of a conditional branch are written exchanged: operands 1 and 2 of
  LLVM's branch are the false and the true label, in this order
  (`InstructionVisitor.cpp:234`).  The pair of successors is the same.
* `indirectbr-instr.dl:63-68` calls every `indirectbr` invalid, because it wants
  an `i8` for an address that LLVM, and the comment at `:29`, give the type
  `i8*`.  `SchemaSatisfied` says that exactly these are reported.
* A function with a body and a signature leaves its parameters in the cache of
  variables (`FactGenerator.cpp:86`): they are written as variables of the next
  function with a body and no signature, or, if there is none, not at all.
* A calling convention that is not in the table becomes an empty string in a
  release build, and then no fact (`LlvmEnums.cpp:37`).
* `type.dl:121` computes 16 bytes for an `x86_fp80`, whose store size is 10.
* Integer constants of up to 16 bits are written as unsigned
  (`InstructionVisitor.cpp:477`, `Constants.cpp:52`): an index -1 of type `i16`
  reads as 65535.
* Several modules with different data layouts in one run rewrite each other's
  sizes of the same type.

Front ends:

* `-check-datalog-assertions` with the debug analysis always throws: two names it
  looks up, `assert_bitcast_operand_in_same_function` (`PAInterface.cpp:66`, the
  relation is `..._same_func`, `assertions.dl:261`) and
  `debuginfo_invalid_entry` (`:80`), are declared nowhere.
* `doc/usage.rst` lists `1-file` to `9-file` as sensitivities; neither the parser nor
  `user-options.dl` accepts them.
* A run of the pass removes its directory, also one that the user named and that
  existed before.
* A second run of the pass in a process writes through the generator of the
  first, whose writer is gone, and returns a result map that has the values of
  both modules.
* factgen with `--force` empties the output directory before it looks at its
  inputs and signatures.
* With no input module, no `user_options` fact is written, and the default that
  `user-options.dl` provides is not what `context/interface.dl:21-28` reads.
* A signature file of the name `SENTINEL` is ignored.

Subobjects (the programs of the run `subobjects` avoid these):

* `field-sensitivity.dl:291-297` wants an array type where its siblings, and
  the comment above it, say pointer: a variable first index from `some_alloc[4]`
  gives nothing, and `PointersCovered` is violated by such a program.
* `field-sensitivity.dl:251-258` asks that the offset be a multiple of the size
  of the array, not of its elements (`:254` takes the size of `?allocType`): from
  a pointer to an element of an array that is a subregion, a step to an index
  that no `getelementptr` has as a constant gives nothing.
* `allocations-subobjects.dl:496-509` provide for additional space behind the
  last field of a struct, but the parent of a field is a subregion, whose size is
  that of its type, and never dynamic: neither additional space nor a dynamic
  size reaches a last field.
* A byte offset (`field-sensitivity.dl:335-363`) finds a field of a subregion
  only: a pointer to a basic allocation has no fields until an index has been
  applied to it.

Copies (the programs of the run `subobjects` avoid these; with a program that does
what is described, `PointersCovered`, or `CoversSubset` for the last, is violated):

* `rec_memcpy` starts from the two allocations that the operands point to, which
  may be at different levels: `&t` is the basic allocation `t`, `&h[1]` is an
  element.  Then the parts of `t` are its elements and the parts of `h[1]` its
  fields, and a field at an offset other than 0 is not copied.  The comment at
  `memcpy.dl:57-62` wants such pairs to be equivalent, and says that the use of
  `alloc_aliases` for them was removed.  `struct P t = h[1];` is of this form.
* A load from `[*]` sees what was stored at a known index (`subset.dl:57-63`), a
  copy from `[*]` does not: `rec_memcpy` joins with `ptr_points_to` of the very
  allocation (`subset.dl:140-142`).
* A copy that starts at an element copies that element only.  With a known size
  larger than the element it is not made at all (`memcpy.dl:91-101`), with an
  unknown size the elements that follow are left out.
* In the unification analysis the sizes are those of the allocation that was kept,
  without `unify_allocation_size`: a copy that fits one of two unified
  allocations is dropped when the smaller one was kept.

Unification (the programs of `CoversSubset` avoid these):

* Whether a store is made depends on the allocation that choice-domain kept, as
  `ptr_compatible_allocation` is no part of the key and is not copied between
  unified allocations (`unification.dl:177-181`): the run `unification_inhabited`.
* Loads read the cells of every allocation that is unified with the address
  (`unification.dl:187-222`), but the star patterns of `alloc_matches` are followed
  from the allocations themselves only.  A load from a field of `[*]` misses what
  was stored in that field of an element at a known index of another array that
  is unified with this one.
* Allocations that are unified below their root unify their direct parts only:
  `alloc_subregion_at_path` (`allocations-subobjects.dl:274-298`) has paths of
  no or one component, or the whole path from a basic allocation.
* Sizes are copied between a representative and its elements, from
  `allocation_size` and not from `unify_allocation_size`
  (`unification.dl:607-613`): of three unified allocations, two elements do not
  get each other's sizes, although the comment (`:598-601`) says they should.

## 7. Plan

1. *done*: `UnionFind`, `Contexts`, `PointsTo`, `Execution`; types,
   instructions, refmodes, signatures and the fact generator; the front ends
   and the pass; the alias query; the theorems of section 4.
2. *done*: `TypeLayout`, `Subobjects`, `FieldSensitivity`, `Addresses` and
   their theorems; `Memcpy`.  Left: constant-expression `getelementptr`, type
   back-propagation.
3. *done*: `Unification` with its choice relations, composed with the subset
   analysis; `ContextFree` and the proof that `PointsTo` refines it.
4. Left to model: the rules that give signatures their meaning, C++ classes and
   exceptions, the renaming of allocations in `lift.dl`.
5. Theorems, *done*: `alloc_aliases` and `alloc_matches` are what they should be
   at the fixpoint; the front ends; types and their sizes; `context_depth`,
   `drop_last` and `merge` are total when the rules end; the result of the subset
   analysis does not depend on the order of rules; the fact generator's contexts,
   types, signatures and result map.  Left: `VariablesOwned`, where
   names identify entities; `ControlFlowRebuilt`.
