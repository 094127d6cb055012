----------------------------- MODULE FactFiles ------------------------------
(***************************************************************************)
(* The files through which the fact generator and the analysis talk, and   *)
(* the objects of a process that write them: the FactWriter with one       *)
(* compressed stream per predicate, and the FactGenerator, a static        *)
(* variable that refers to the writer it was first made with.  Shared by   *)
(* the two front ends, the factgen executable and the LLVM pass.           *)
(*                                                                         *)
(* A path is the sequence of names from the working directory on.  A       *)
(* fact is abstracted to the module it is about; of the fact of            *)
(* user_options, which names no module, the model keeps the text.          *)
(***************************************************************************)
EXTENDS Naturals, Sequences, SequencesExt, FiniteSets, TLC, ContextSensitivity

CONSTANTS
    Modules,        \* LLVM modules
    NamesOf,        \* module -> the refmodes of its entities
    Registry,       \* the registered predicates
    Slots           \* where on the stack a FactWriter may be constructed

ASSUME FactFilesAssumption ==
    /\ \A m \in Modules : IsFiniteSet(NamesOf[m])
    /\ {"user_options", "type"} \subseteq Registry /\ Registry # {"user_options", "type"}
    /\ Registry \cup {"results"} \subseteq STRING /\ "results" \notin Registry
    /\ IsFiniteSet(Registry)

VARIABLES
    disk,       \* path -> what is there
    writer,     \* the living FactWriter, or NoWriter
    generator,  \* the instance of FactGenerator, or NoGenerator
    args,       \* the command line of the process
    pc,         \* what the process does next
    outcome     \* how the process, or a run of the pass in it, ended

Directory == [kind |-> "directory", rows |-> {}]
Facts(rows) == [kind |-> "facts", rows |-> rows]
Results(rows) == [kind |-> "results", rows |-> rows]

NoWriter == [dir |-> <<>>, slot |-> 0, unflushed |-> [p \in Registry |-> {}]]
NoGenerator == [slot |-> 0, types |-> {}, results |-> <<>>]

\* What top says, and elsewhere what bottom says.
Overlay(top, bottom) ==
    [x \in DOMAIN top \cup DOMAIN bottom |-> IF x \in DOMAIN top THEN top[x] ELSE bottom[x]]

-----------------------------------------------------------------------------
(* The file system.                                                        *)

Exists(path) == path \in DOMAIN disk
IsDirectory(path) == Exists(path) /\ disk[path].kind = "directory"
Below(dir, path) == IsStrictPrefix(dir, path)
IsEmptyDirectory(dir) == \A path \in DOMAIN disk : ~Below(dir, path)

\* create_directory needs the parent; create_directories makes it.
CanCreate(path) == IsDirectory(Front(path))
Create(dirs) == Overlay(disk, [d \in dirs |-> Directory])
Without(paths) == [path \in DOMAIN disk \ paths |-> disk[path]]

FactPath(dir, p) == Append(dir, p)

-----------------------------------------------------------------------------
(* Rows that a module gives rise to.                                       *)

\* The types of all modules the generator has seen: they are never cleared.
RowsOf(m, sensitivity) ==
    [p \in Registry |->
        CASE p = "user_options" -> {context_sensitivity_to_string(sensitivity)}
          [] p = "type" -> generator.types \cup {m}
          [] OTHER -> {m}]

\* The disk once streams have been flushed: added[p] reaches the file of p.
Flushed(dir, added) ==
    [path \in DOMAIN disk |->
        IF \E p \in Registry : path = FactPath(dir, p)
        THEN Facts(disk[path].rows \cup added[Last(path)])
        ELSE disk[path]]

\* Writing through the destroyed writer reaches no file of the living one.
Dangling == generator.slot # writer.slot

-----------------------------------------------------------------------------
(* Operations.                                                             *)

\* FactWriter's constructor opens, and so truncates, a file for every
\* registered predicate; getInstance keeps a generator it already has.
OpenWriter(dir, slot) ==
    /\ disk' = Overlay([path \in {FactPath(dir, p) : p \in Registry} |-> Facts({})], disk)
    /\ writer' = [dir |-> dir, slot |-> slot, unflushed |-> [p \in Registry |-> {}]]
    /\ generator' = IF generator = NoGenerator
                    THEN [NoGenerator EXCEPT !.slot = slot]
                    ELSE generator

\* processModule and writeTypes.  insert keeps the value a name already has.
ProcessModule(m, sensitivity) ==
    LET rows == RowsOf(m, sensitivity) IN
    /\ writer' = IF Dangling THEN writer
                 ELSE [writer EXCEPT !.unflushed =
                          [p \in Registry |-> @[p] \cup rows[p]]]
    /\ generator' = [generator EXCEPT
          !.types = @ \cup {m},
          !.results = Overlay(@, [n \in NamesOf[m] |-> <<m, n>>])]

\* FactWriter's destructor: every stream is flushed.
CloseWriter ==
    /\ disk' = Flushed(writer.dir, writer.unflushed)
    /\ writer' = NoWriter

\* The process ends without unwinding: of each stream, what had reached the
\* file is kept.
Die(how, rows) ==
    /\ IF writer = NoWriter THEN UNCHANGED disk
       ELSE \E kept \in SUBSET Registry :
               disk' = Flushed(writer.dir,
                          [p \in Registry |-> IF p \in kept THEN rows[p] ELSE {}])
    /\ writer' = NoWriter
    /\ pc' = "ended"
    /\ outcome' = how
=============================================================================
