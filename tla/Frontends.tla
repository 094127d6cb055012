----------------------------- MODULE Frontends ------------------------------
(***************************************************************************)
(* Processes of the two front ends, one after the other, over one disk.    *)
(* A process may be killed at any moment; what it held in memory is lost,  *)
(* and what its streams had not flushed may be.  A process that runs the   *)
(* pass may run it again, on another module, with its static variables as  *)
(* they are.                                                               *)
(***************************************************************************)
EXTENDS FactgenExe, AnalysisPass

CONSTANTS
    FileSystems,    \* the disks to start from
    CommandLines,   \* args of the processes that may be started
    MaxProcesses,   \* bounds: processes in a behaviour,
    MaxRuns         \* and runs of the pass in a process

Path == Seq(STRING)

\* What may stand on a command line.
FactgenCommands ==
    [kind : {"factgen"}, parse : {"ok", "error", "help", "missing"}, out : Path,
     files : Seq(Path), sensitivity : STRING \X STRING, signatures : Path,
     recursive : BOOLEAN, force : BOOLEAN]
PassCommands ==
    [kind : {"pass"}, analysis : Analyses, module : Modules, dir : Path, debug : BOOLEAN,
     check : BOOLEAN, sensitivity : Enumerators, signatures : Path]

\* A finite tree of files: what a file is in exists, and bitcode has a module.
IsFileSystem(d) ==
    /\ IsFiniteSet(DOMAIN d) /\ DOMAIN d \subseteq Path
    /\ \A path \in DOMAIN d : \A n \in 0 .. Len(path) : SubSeq(path, 1, n) \in DOMAIN d
    /\ \A path \in DOMAIN d : d[path].kind = "module" => \E m \in Modules : d[path].rows = {m}

ASSUME FrontendsAssumption ==
    /\ \A d \in FileSystems : IsFileSystem(d)
    /\ \A a \in CommandLines : a \in FactgenCommands \/ a \in PassCommands

VARIABLES
    before,     \* the disk when the process started
    processes,  \* processes so far
    runs        \* runs so far in this process, with the modules they were about

vars == <<disk, writer, generator, args, pc, outcome, inputFiles, passVars,
          before, processes, runs>>

FirstStep(a) == IF a.kind = "factgen" THEN "parse" ELSE "create"

Init ==
    /\ disk \in FileSystems
    /\ args \in CommandLines
    /\ writer = NoWriter /\ generator = NoGenerator
    /\ pc = FirstStep(args) /\ outcome = "none"
    /\ inputFiles = <<>>
    /\ database = NoDatabase /\ assertions = <<>> /\ result = NoResult
    /\ before = disk
    /\ processes = 1
    /\ runs = 1

FactgenStep ==
    /\ args.kind = "factgen"
    /\ FactgenNext
    /\ UNCHANGED passVars
    /\ UNCHANGED <<before, processes, runs>>

PassStep ==
    /\ args.kind = "pass"
    /\ PassNext
    /\ UNCHANGED <<inputFiles, before, processes, runs>>

Kill ==
    /\ pc # "ended"
    /\ Die("killed", writer.unflushed)
    /\ UNCHANGED <<generator, args, inputFiles, before, processes, runs>>
    /\ UNCHANGED passVars

\* Statics are those of a new process; the disk is as the last one left it.
StartProcess ==
    /\ pc = "ended"
    /\ processes < MaxProcesses
    /\ args' \in CommandLines
    /\ generator' = NoGenerator
    /\ pc' = FirstStep(args') /\ outcome' = "none"
    /\ inputFiles' = <<>>
    /\ database' = NoDatabase /\ assertions' = <<>> /\ result' = NoResult
    /\ before' = disk
    /\ processes' = processes + 1
    /\ runs' = 1
    /\ UNCHANGED <<disk, writer>>

\* PointerAnalysis::run: the options, and the generator, are those of the
\* process.
RunAgain ==
    /\ args.kind = "pass" /\ pc = "ended" /\ outcome = "success"
    /\ runs < MaxRuns
    /\ \E m \in Modules : args' = [args EXCEPT !.module = m]
    /\ pc' = "create" /\ outcome' = "none"
    /\ database' = NoDatabase /\ assertions' = <<>> /\ result' = NoResult
    /\ before' = disk
    /\ runs' = runs + 1
    /\ UNCHANGED <<disk, writer, generator, inputFiles, processes>>

Next == FactgenStep \/ PassStep \/ Kill \/ StartProcess \/ RunAgain

Spec == Init /\ [][Next]_vars

-----------------------------------------------------------------------------

Factgen == args.kind = "factgen"
Pass == args.kind = "pass"

\* The files of the module that were on the command line, or in the
\* directories on it.
Inputs ==
    {f \in DOMAIN disk : /\ ~IsDirectory(f)
                         /\ \E d \in ToSet(args.files) :
                               d = f \/ (IsDirectory(d) /\ Below(d, f))}

\* If factgen succeeds, the files hold the facts of all inputs and nothing
\* else: none was skipped, lost in a stream, or left by an earlier process
\* (factgen and main in Main.cpp).
CompleteOnSuccess ==
    Factgen /\ outcome = "success" /\ args.parse = "ok" =>
        LET read == {f \in Inputs : ~Below(args.out, f)} IN
        /\ \A f \in read : disk[f].kind = "module"
        /\ \A p \in Registry \ {"user_options"} :
              disk[FactPath(args.out, p)].rows = UNION {disk[f].rows : f \in read}

\* Files the process was not asked to replace are as they were when it
\* started, however it ended: all of them without --force, else those
\* outside of the output directory; for the pass those outside of its
\* directory (Options::set_output_dir, remove_all in runOnModule).
ForeignFilesKept ==
    \A path \in DOMAIN before :
        \/ Factgen /\ args.force /\ Below(args.out, path)
        \/ Pass /\ IsPrefix(args.dir, path)
        \/ Exists(path) /\ disk[path] = before[path]

\* The sensitivity the user asked for is what the Datalog code reads off the
\* facts: its own list of texts, the first character as the depth ("This
\* needs to be kept in sync with user_options.dl", ContextSensitivity.hpp:73).
SensitivityReachesAnalysis ==
    /\ Pass /\ pc \in {"check", "extract", "remove"} /\ runs = 1 =>
          Means(database["user_options"], args.sensitivity)
    /\ Factgen /\ outcome = "success" /\ args.parse = "ok" =>
          LET opts == disk[FactPath(args.out, "user_options")].rows IN
          opts = {} \/ Means(opts, Parse(args.sensitivity))

\* The first result of a process is about its module: every name in it is
\* mapped to the value of that module (relationToVector, result_map_).  The
\* first run never fails to read what the analysis computed: in no variant of
\* the analysis is a relation missing or of another shape, and no name is
\* without a value.
ResultOfThisModule ==
    Pass /\ runs = 1 =>
        /\ outcome \notin {"assertion", "failure"}
        /\ outcome = "success" =>
              /\ result.of = {args.module}
              /\ DOMAIN result.values = NamesOf[args.module]
              /\ \A n \in DOMAIN result.values : result.values[n] = <<args.module, n>>

\* The run ended by an exception or exit after the facts had been loaded.
ThrewAfterLoad == outcome \in {"abort", "assertion", "failure"} /\ database # NoDatabase

\* What is in the directory is what the analysis loaded, and computed from it.
FactsAsLoaded ==
    \A p \in Registry : /\ Exists(FactPath(args.dir, p))
                        /\ disk[FactPath(args.dir, p)].rows = database[p]
ResultsWritten ==
    Exists(ResultPath(args.dir)) /\ disk[ResultPath(args.dir)].rows = database["type"]

\* "Keep intermediate files generated by datalog": a run that returns leaves
\* the facts and results of its module with -debug-datalog, and else nothing
\* of the directory, also if it was there before.  A run that a failed
\* assertion or extraction ends leaves the facts it failed on in any case:
\* remove_all is at the end of runOnModule only.
WorkFilesKept ==
    Pass =>
        /\ ThrewAfterLoad \/ (outcome = "success" /\ args.debug) => FactsAsLoaded
        /\ (ThrewAfterLoad \/ outcome = "success") /\ args.debug => ResultsWritten
        /\ outcome = "success" /\ ~args.debug => ~\E path \in DOMAIN disk : IsPrefix(args.dir, path)
=============================================================================
