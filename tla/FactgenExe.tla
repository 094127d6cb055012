----------------------------- MODULE FactgenExe -----------------------------
(***************************************************************************)
(* The factgen executable: its command line (FactGenerator/src/Options.cpp)*)
(* and its driver (FactGenerator/src/Main.cpp).  One action per handler,   *)
(* in the order in which the constructor of Options and main call them.    *)
(*                                                                         *)
(* args has the fields parse (what boost makes of the words), out, files,  *)
(* sensitivity (a text), signatures (a path or SENTINEL), recursive and    *)
(* force.                                                                  *)
(***************************************************************************)
EXTENDS FactFiles

VARIABLE inputFiles     \* the files still to be read

SENTINEL == <<"SENTINEL">>

Exit(status) ==
    /\ pc' = "ended"
    /\ outcome' = status

Continue(next) ==
    /\ pc' = next
    /\ UNCHANGED outcome

-----------------------------------------------------------------------------
(* Options.                                                                *)

\* Values are parsed first, then --help is looked at, and only then are
\* required options missed.
ParseCommandLine ==
    /\ pc = "parse"
    /\ \/ /\ args.parse = "error" \/ ~Parses(args.sensitivity)
          /\ Exit("failure")
       \/ /\ args.parse = "help" /\ Parses(args.sensitivity)
          /\ Exit("success")
       \/ /\ args.parse = "missing" /\ Parses(args.sensitivity)
          /\ Exit("failure")
       \/ /\ args.parse = "ok" /\ Parses(args.sensitivity)
          /\ Continue("outdir")
    /\ UNCHANGED <<disk, writer, generator, args, inputFiles>>

Contents(dir) == {path \in DOMAIN disk : Below(dir, path)}

\* Old contents are removed without being asked for.
PreparedSlip(out, force) ==
    IF ~Exists(out) THEN Create({out}) ELSE Without(Contents(out))

\* What set_output_dir makes of the disk before it checks that it is empty.
Prepared(out, force) ==
    IF ~Exists(out) THEN Create({out})
    ELSE IF force THEN Without(Contents(out))
    ELSE disk

SetOutputDir ==
    /\ pc = "outdir"
    /\ \/ /\ ~Exists(args.out) /\ ~CanCreate(args.out)      \* filesystem_error
          /\ Exit("abort")
          /\ UNCHANGED disk
       \/ /\ Exists(args.out) /\ ~IsDirectory(args.out)
          /\ Exit("failure")
          /\ UNCHANGED disk
       \/ /\ IF Exists(args.out) THEN IsDirectory(args.out) ELSE CanCreate(args.out)
          /\ disk' = Prepared(args.out, args.force)
          /\ IF IsEmptyDirectory(args.out) \/ args.force
             THEN Continue("inputs")
             ELSE Exit("failure")
    /\ UNCHANGED <<writer, generator, args, inputFiles>>

\* The files a path on the command line stands for, in the order of the
\* directory iterator.
FilesOf(path) ==
    IF IsDirectory(path)
    THEN SetToSeqs({p \in Contents(path) : ~IsDirectory(p)})
    ELSE {<<path>>}

Acceptable(path) == Exists(path) /\ (IsDirectory(path) => args.recursive)

SetInputFiles ==
    /\ pc = "inputs"
    /\ \/ /\ \E i \in DOMAIN args.files : ~Acceptable(args.files[i])
          /\ Exit("failure")
          /\ UNCHANGED inputFiles
       \/ /\ \A i \in DOMAIN args.files : Acceptable(args.files[i])
          /\ \E lists \in [DOMAIN args.files ->
                              UNION {FilesOf(args.files[i]) : i \in DOMAIN args.files}] :
                /\ \A i \in DOMAIN args.files : lists[i] \in FilesOf(args.files[i])
                /\ inputFiles' = FlattenSeq(lists)
          /\ Continue("signatures")
    /\ UNCHANGED <<disk, writer, generator, args>>

SetSignatures ==
    /\ pc = "signatures"
    /\ IF args.signatures = SENTINEL \/ Exists(args.signatures)
       THEN Continue("open")
       ELSE Exit("failure")
    /\ UNCHANGED <<disk, writer, generator, args, inputFiles>>

-----------------------------------------------------------------------------
(* factgen.                                                                *)

OpenFactWriter ==
    /\ pc = "open"
    /\ \E slot \in Slots : OpenWriter(args.out, slot)
    /\ Continue("generate")
    /\ UNCHANGED <<args, inputFiles>>

Input == Head(inputFiles)
Parsed == disk[Input].kind = "module"
Module == CHOOSE m \in disk[Input].rows : TRUE

SignaturesValid ==
    args.signatures # SENTINEL => disk[args.signatures].kind = "signatures"

GenerateModule ==
    /\ pc = "generate" /\ inputFiles # <<>> /\ Parsed /\ SignaturesValid
    /\ ProcessModule(Module, Parse(args.sensitivity))
    /\ inputFiles' = Tail(inputFiles)
    /\ UNCHANGED <<disk, args, pc, outcome>>

\* Only ParseException is caught: invalid_argument ends the process in the
\* middle of a module.
ThrowInvalidSignature ==
    /\ pc = "generate" /\ inputFiles # <<>> /\ Parsed /\ ~SignaturesValid
    /\ LET rows == RowsOf(Module, Parse(args.sensitivity))
       IN Die("abort", [p \in Registry |-> writer.unflushed[p] \cup rows[p]])
    /\ UNCHANGED <<generator, args, inputFiles>>

\* The failure to parse a file is not noticed.
ThrowParseExceptionSlip ==
    /\ pc = "generate" /\ inputFiles # <<>> /\ ~Parsed
    /\ inputFiles' = Tail(inputFiles)
    /\ UNCHANGED <<disk, writer, generator, args, pc, outcome>>

\* Unwinding destroys the writer: the facts of earlier files stay.
ThrowParseException ==
    /\ pc = "generate" /\ inputFiles # <<>> /\ ~Parsed
    /\ CloseWriter
    /\ Exit("failure")
    /\ UNCHANGED <<generator, args, inputFiles>>

Finish ==
    /\ pc = "generate" /\ inputFiles = <<>>
    /\ CloseWriter
    /\ Exit("success")
    /\ UNCHANGED <<generator, args, inputFiles>>

FactgenNext ==
    \/ ParseCommandLine
    \/ SetOutputDir
    \/ SetInputFiles
    \/ SetSignatures
    \/ OpenFactWriter
    \/ GenerateModule
    \/ ThrowInvalidSignature
    \/ ThrowParseException
    \/ Finish
=============================================================================
