---------------------------- MODULE AnalysisPass ----------------------------
(***************************************************************************)
(* LegacyPointerAnalysis::runOnModule: generate facts for a module into a  *)
(* directory, let a Souffle program load them and run, check assertions,   *)
(* read the result out of the program's relations and remove the directory *)
(* (src/PointerAnalysis.cpp, src/PAInterface.cpp, Wrapper.cpp).            *)
(*                                                                         *)
(* args has the fields analysis, module, dir, debug, check, sensitivity    *)
(* (an enumerator) and signatures (a path, or <<>> for none).              *)
(***************************************************************************)
EXTENDS FactFiles

CONSTANTS
    assertion_relations,    \* the names checkAssertions looks up, in order
    DeclaredAssertions      \* those the Datalog code declares

VARIABLES
    database,   \* the input relations of the Souffle program
    assertions, \* what became of each assertion relation
    result      \* the result object, or NoResult

passVars == <<database, assertions, result>>

NoDatabase == [p \in Registry |-> {}]
NoResult == [of |-> {}, values |-> <<>>]

Analyses == {"debug", "subset", "unification"}

-----------------------------------------------------------------------------
(* The relations that are read, by name.                                   *)

Final(which, name) ==
    IF which = "unification" THEN "unification." \o name \o "_final"
    ELSE "subset." \o name

Lifted(which, name) ==
    IF which = "unification" THEN "unification_lift." \o name
    ELSE "subset_lift." \o name

callgraph_edge(which) ==
    IF which = "unification" THEN "unification.callgraph.callgraph_edge"
    ELSE "subset.callgraph.callgraph_edge"

\* relation -> the types its columns are extracted as.
Extracted(which) ==
    "context_to_string" :> <<"int", "string">>
    @@ callgraph_edge(which) :> <<"int", "Value", "int", "Value">>
    @@ Final(which, "var_points_to") :> <<"int", "string", "int", "Value">>
    @@ Lifted(which, "alloc_may_alias_ctx") :> <<"int", "string", "string">>
    @@ Lifted(which, "alloc_must_alias_ctx") :> <<"int", "string", "string">>
    @@ Lifted(which, "alloc_subregion_ctx") :> <<"int", "string", "string">>
    @@ Lifted(which, "alloc_contains_ctx") :> <<"int", "string", "string">>
    @@ Final(which, "ptr_points_to") :> <<"int", "string", "int", "string">>
    @@ Final(which, "operand_points_to") :> <<"int", "string", "int", "Value">>
    @@ "global_allocation_by_variable" :> <<"Value", "string">>
    @@ Lifted(which, "allocation_size_ctx") :> <<"int", "string", "int">>
    @@ Lifted(which, "allocation_by_instr_ctx") :> <<"int", "Value", "int", "string">>

\* What export/subset.dl writes and export/unification.dl, whose relations
\* have the same columns; a context is a record.
OutputsOf(points_to, suffix, lift) ==
    "context_to_string" :> <<"context", "symbol">>
    @@ points_to \o "callgraph.callgraph_edge" :> <<"context", "entity", "context", "entity">>
    @@ points_to \o "var_points_to" \o suffix :> <<"context", "allocation", "context", "entity">>
    @@ points_to \o "operand_points_to" \o suffix :> <<"context", "allocation", "context", "entity">>
    @@ points_to \o "ptr_points_to" \o suffix :> <<"context", "allocation", "context", "allocation">>
    @@ lift \o "alloc_may_alias_ctx" :> <<"context", "allocation", "allocation">>
    @@ lift \o "alloc_must_alias_ctx" :> <<"context", "allocation", "allocation">>
    @@ lift \o "alloc_subregion_ctx" :> <<"context", "allocation", "allocation">>
    @@ lift \o "alloc_contains_ctx" :> <<"context", "allocation", "allocation">>
    @@ "global_allocation_by_variable" :> <<"entity", "allocation">>
    @@ lift \o "allocation_size_ctx" :> <<"context", "allocation", "number">>
    @@ lift \o "allocation_by_instr_ctx" :> <<"context", "entity", "context", "allocation">>

Outputs(program) ==
    (IF program = "unification" THEN <<>> ELSE OutputsOf("subset.", "", "subset_lift."))
    @@ (IF program = "subset" THEN <<>>
        ELSE OutputsOf("unification.", "_final", "unification_lift."))

ColumnReads(column, type) ==
    CASE type = "int" -> column \in {"context", "number"}
      [] type = "Value" -> column = "entity"
      [] type = "string" -> column \in {"entity", "allocation", "symbol"}

\* No getRelation of the run returns nullptr or a relation of another shape.
RelationsMatch(which) ==
    \A r \in DOMAIN Extracted(which) :
        /\ r \in DOMAIN Outputs(which)
        /\ Len(Extracted(which)[r]) = Len(Outputs(which)[r])
        /\ \A i \in DOMAIN Extracted(which)[r] :
              ColumnReads(Outputs(which)[r][i], Extracted(which)[r][i])

-----------------------------------------------------------------------------
(* runOnModule.                                                            *)

\* All directories on the way to a path, and the path.
Ancestors(path) == {SubSeq(path, 1, n) : n \in 0 .. Len(path)}

CanCreateAll(path) == \A d \in Ancestors(path) : Exists(d) => IsDirectory(d)

CreateDirectories ==
    /\ pc = "create" /\ (Exists(args.dir) \/ CanCreateAll(args.dir))
    /\ IF Exists(args.dir) THEN UNCHANGED disk
       ELSE disk' = Create(Ancestors(args.dir))
    /\ pc' = "writers"
    /\ UNCHANGED <<writer, generator, args, outcome>>
    /\ UNCHANGED passVars

OpenWriters ==
    /\ pc = "writers" /\ IsDirectory(args.dir)
    /\ \E slot \in Slots : OpenWriter(args.dir, slot)
    /\ pc' = "facts"
    /\ UNCHANGED <<args, outcome>>
    /\ UNCHANGED passVars

\* create_directories throws if it meets another kind of file on the way.
CreateDirectoriesFails ==
    /\ pc = "create" /\ ~Exists(args.dir) /\ ~CanCreateAll(args.dir)
    /\ pc' = "ended" /\ outcome' = "abort"
    /\ UNCHANGED <<disk, writer, generator, args>>
    /\ UNCHANGED passVars

\* create_directory throws if the path is another kind of file.
OpenWritersFails ==
    /\ pc = "writers" /\ ~IsDirectory(args.dir)
    /\ pc' = "ended" /\ outcome' = "abort"
    /\ UNCHANGED <<disk, writer, generator, args>>
    /\ UNCHANGED passVars

SignaturesUsable ==
    args.signatures = <<>>
        \/ (Exists(args.signatures) /\ disk[args.signatures].kind = "signatures")

GenerateFacts ==
    /\ pc = "facts" /\ SignaturesUsable
    /\ ProcessModule(args.module, args.sensitivity)
    /\ pc' = "leave"
    /\ UNCHANGED <<disk, args, outcome>>
    /\ UNCHANGED passVars

\* Nothing catches an exception of the signatures; a dangling writer may also
\* end the process.
GenerateFactsFails ==
    /\ pc = "facts" /\ (~SignaturesUsable \/ Dangling)
    /\ LET rows == RowsOf(args.module, args.sensitivity)
       IN Die("abort", IF Dangling THEN writer.unflushed ELSE rows)
    /\ UNCHANGED <<generator, args>>
    /\ UNCHANGED passVars

\* The writer lives as long as the pass.
LeaveFactgenModuleSlip ==
    /\ pc = "leave"
    /\ pc' = "load"
    /\ UNCHANGED <<disk, writer, generator, args, outcome>>
    /\ UNCHANGED passVars

\* The writer is a local variable of factgen_module.
LeaveFactgenModule ==
    /\ pc = "leave"
    /\ CloseWriter
    /\ pc' = "load"
    /\ UNCHANGED <<generator, args, outcome>>
    /\ UNCHANGED passVars

\* An assertion relation is not declared, or not kept by the program, or
\* empty, or it is not; the debug program keeps all that are declared.
PossibleAssertions ==
    {a \in [ToSet(assertion_relations) -> {"absent", "empty", "failed"}] :
        \A r \in DOMAIN a :
            /\ r \notin DeclaredAssertions => a[r] = "absent"
            /\ r \in DeclaredAssertions /\ args.analysis = "debug" => a[r] # "absent"}

\* Of the files printAll writes, one stands for all.
ResultPath(dir) == Append(dir, "results")
WithResult(dir, rows) == Overlay([path \in {ResultPath(dir)} |-> Results(rows)], disk)

RunPointerAnalysis ==
    /\ pc = "load"
    /\ database' = [p \in Registry |-> disk[FactPath(args.dir, p)].rows]
    /\ assertions' \in PossibleAssertions
    /\ disk' = IF args.debug
               THEN WithResult(args.dir, disk[FactPath(args.dir, "type")].rows)
               ELSE disk
    /\ pc' = "check"
    /\ UNCHANGED <<writer, generator, args, outcome, result>>

\* checkAssertions throws at the first relation that has a tuple or, if it is
\* expected, is not there.
AssertionThrows(expect) ==
    \E i \in DOMAIN assertion_relations :
        \/ assertions[assertion_relations[i]] = "failed"
        \/ expect /\ assertions[assertion_relations[i]] = "absent"

CheckAssertions ==
    /\ pc = "check"
    /\ IF args.check /\ AssertionThrows(args.analysis = "debug")
       THEN pc' = "ended" /\ outcome' = "abort"
       ELSE pc' = "extract" /\ UNCHANGED outcome
    /\ UNCHANGED <<disk, writer, generator, args>>
    /\ UNCHANGED passVars

LoadedModules == UNION {database[p] : p \in Registry \ {"user_options", "type"}}

\* The names in the result are names of the modules that were loaded.
NamesInResult == UNION {NamesOf[m] : m \in LoadedModules}

\* getRelation must find the relation; a name without a value ends the
\* process with exit(EXIT_FAILURE).
ExtractionEnds ==
    IF ~RelationsMatch(args.analysis) THEN "assertion"
    ELSE IF ~(NamesInResult \subseteq DOMAIN generator.results) THEN "failure"
    ELSE "none"

Extract ==
    /\ pc = "extract"
    /\ outcome' = ExtractionEnds
    /\ IF ExtractionEnds = "none"
       THEN /\ result' = [of |-> LoadedModules,
                          values |-> [n \in NamesInResult |-> generator.results[n]]]
            /\ pc' = "remove"
       ELSE /\ pc' = "ended"
            /\ UNCHANGED result
    /\ UNCHANGED <<disk, writer, generator, args, database, assertions>>

\* The fact files are removed, and not the directory.
RemovedSlip(dir) == {FactPath(dir, p) : p \in Registry}

Removed(dir) == {path \in DOMAIN disk : IsPrefix(dir, path)}

RemoveWorkFiles ==
    /\ pc = "remove"
    /\ disk' = IF args.debug THEN disk ELSE Without(Removed(args.dir))
    /\ pc' = "ended" /\ outcome' = "success"
    /\ UNCHANGED <<writer, generator, args>>
    /\ UNCHANGED passVars

PassNext ==
    \/ CreateDirectories
    \/ CreateDirectoriesFails
    \/ OpenWriters
    \/ OpenWritersFails
    \/ GenerateFacts
    \/ GenerateFactsFails
    \/ LeaveFactgenModule
    \/ RunPointerAnalysis
    \/ CheckAssertions
    \/ Extract
    \/ RemoveWorkFiles
=============================================================================
