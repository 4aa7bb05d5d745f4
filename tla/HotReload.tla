------------------------------ MODULE HotReload ------------------------------
(***************************************************************************)
(* Hot reload (src/hotreload/scml_hot_reload.hpp): the loop of README.md   *)
(* that polls a bytecode file, triggers the tick and updates the VM, next  *)
(* to a compiler (src/compiler/compiler.c) that rewrites the file in       *)
(* place.  The compiler is another process: it may open, fill and close,   *)
(* or remove, the file between any two system calls of poll.               *)
(*                                                                         *)
(* The file is read in one piece; a prefix of it does not load (see        *)
(* Toolchain).  The clock of the file system is coarse: it may or may not  *)
(* have ticked since the last write.                                       *)
(***************************************************************************)
EXTENDS GameLoop

CONSTANTS
    Absent, Partial,   \* no file; a prefix of one
    Failing,           \* a compilation that will find an error
    Idle,
    MaxCompiles        \* bound: compilations per behaviour

ASSUME HotReloadAssumption ==
    /\ MaxCompiles \in Nat
    /\ {Absent, Partial, Failing, Idle} \cap Programs = {}
    /\ Cardinality({Absent, Partial, Failing, Idle}) = 4

VARIABLES
    file,        \* Absent, Partial, or a program
    mtime,       \* its time stamp
    compiler,    \* Idle, or what the running compilation will produce
    compiles,    \* history: compilations that reached the output file
    fresh,       \* history: the last write changed the time stamp
    behind,      \* history: it changed since a version was last loaded
    lastWrite_

fileVars   == <<file, mtime, compiler, compiles, fresh>>
watchVars  == <<lastWrite_, behind>>
reloadVars == <<gvars, fileVars, watchVars>>

-----------------------------------------------------------------------------
(* scml_compile_files, from fopen(output_path, "wb") on.                   *)

\* Opening the file truncates it, which is a write like the one that fills it.
Written ==
    /\ mtime' \in {mtime, mtime + 1}
    /\ fresh' = (mtime' # mtime)
    /\ behind' = (behind \/ mtime' # mtime)

OpenOutput ==
    /\ compiler = Idle /\ compiles < MaxCompiles
    /\ file' = Partial /\ Written
    /\ compiler' \in Programs \cup {Failing}
    /\ compiles' = compiles + 1

CloseOutput ==
    /\ compiler \in Programs
    /\ file' = compiler /\ Written
    /\ compiler' = Idle
    /\ UNCHANGED compiles

\* An unresolved label, or a string that is too long.
RemoveOutput ==
    /\ compiler = Failing
    /\ file' = Absent /\ compiler' = Idle
    /\ UNCHANGED <<mtime, fresh, behind, compiles>>

\* The compiler is killed: nobody removes the unfinished file.
CompilerDies ==
    /\ compiler # Idle
    /\ compiler' = Idle
    /\ UNCHANGED <<file, mtime, fresh, behind, compiles>>

Compile ==
    /\ OpenOutput \/ CloseOutput \/ RemoveOutput \/ CompilerDies
    /\ UNCHANGED <<gvars, lastWrite_>>

-----------------------------------------------------------------------------
(* SCML_HotReload.                                                         *)

\* watch() comes first: a version written between the two is reloaded.
Watch ==
    /\ phase = "init"
    /\ lastWrite_' = IF file = Absent THEN lastWrite_ ELSE mtime
    /\ phase' = "start"
    /\ UNCHANGED <<vars, running, ok, fileVars, behind>>

\* vm.loadScript(path) && vm.run() of a host that starts.
LoadScript ==
    /\ phase = "start" /\ file \in Programs
    /\ LoadFile(file)
    /\ running' = TRUE /\ phase' = "poll"
    /\ behind' = FALSE
    /\ UNCHANGED <<ok, fileVars, lastWrite_>>

PollExists ==
    /\ phase = "poll" /\ ~running
    /\ phase' = IF file = Absent THEN "tick" ELSE "stat"
    /\ UNCHANGED <<vars, running, ok, fileVars, watchVars>>

ClearNothing == UNCHANGED vars                                       \* fault

ClearStaleEvents == ClearEvents

Remember == lastWrite_' = mtime

\* Fault: the time stamps are compared as whole seconds.
SeenInSeconds == mtime \div 2 = lastWrite_ \div 2

Seen == mtime = lastWrite_

\* last_write_time throws if the file is gone by now; nobody catches it.
PollStat ==
    /\ phase = "stat"
    /\ \/ /\ file = Absent /\ phase' = "terminated"
          /\ UNCHANGED <<vars, lastWrite_>>
       \/ /\ file # Absent /\ Seen /\ phase' = "tick"
          /\ UNCHANGED <<vars, lastWrite_>>
       \/ /\ file # Absent /\ ~Seen /\ phase' = "reload"
          /\ Remember
          /\ ClearStaleEvents
    /\ UNCHANGED <<running, ok, fileVars, behind>>

\* vm_->loadScript(path) && vm_->run()
PollLoad ==
    /\ phase = "reload" /\ phase' = "tick"
    /\ \/ file \in Programs /\ LoadFile(file) /\ running' = TRUE /\ behind' = FALSE
       \/ file \notin Programs /\ UNCHANGED <<vars, running, behind>>
    /\ UNCHANGED <<ok, fileVars, lastWrite_>>

Poll == PollExists \/ PollStat \/ PollLoad

\* vm.triggerEvent("ON_TICK"); vm.update();
Tick ==
    /\ phase = "tick" /\ ~running
    /\ \/ TriggerEvent(ON_TICK)
       \/ QueueFull /\ UNCHANGED vars
    /\ running' = TRUE /\ phase' = "poll"
    /\ UNCHANGED <<ok, fileVars, watchVars>>

Run == RunStep /\ UNCHANGED <<fileVars, watchVars>>

HotInit ==
    /\ GameInit
    /\ file \in Programs /\ mtime = 1
    /\ compiler = Idle /\ compiles = 0
    /\ lastWrite_ = 0 /\ fresh = TRUE /\ behind = TRUE

Host == Watch \/ LoadScript \/ Poll \/ Tick \/ Run

HotNext == Host \/ Compile

(* The host's loop goes on; nothing is assumed of the compiler.            *)
HotSpec == HotInit /\ [][HotNext]_reloadVars /\ WF_reloadVars(Host)

-----------------------------------------------------------------------------
(* Properties.                                                             *)

HotTypeOK ==
    /\ TypeOK
    /\ phase \in {"init", "start", "poll", "stat", "reload", "tick", "terminated"}
    /\ running \in BOOLEAN /\ ok \in BOOLEAN
    /\ file \in Programs \cup {Absent, Partial}
    /\ compiler \in Programs \cup {Idle, Failing}
    /\ compiles \in 0 .. MaxCompiles
    /\ mtime \in 1 .. 2 * MaxCompiles + 1 /\ lastWrite_ \in 0 .. mtime
    /\ fresh \in BOOLEAN /\ behind \in BOOLEAN

Binds(program, e, to) ==
    \E i \in DOMAIN program :
        program[i].op = "bind" /\ program[i].event = e /\ program[i].to = to

(* Every bound handler was bound by the code that is loaded: no event      *)
(* starts at an address of a version that was replaced, whichever steps of *)
(* the compiler fall between those of poll ("clears stale event bindings", *)
(* README.md).                                                             *)
HandlersOfThisVersion ==
    \A e \in DOMAIN events : \A i \in DOMAIN events[e] :
        Binds(code, e, events[e][i])

TickStarts ==
    running /\ HandlersOf(ON_TICK) # <<>> /\ pc = HandlersOf(ON_TICK)[1]

(* If the compiler leaves a complete file behind whose time stamp is not   *)
(* that of the write before, that version ends up loaded and goes on       *)
(* handling ticks, although poll may have met the file empty or half       *)
(* written and does not try again for the same time stamp; unless a file   *)
(* that vanished between two calls of poll terminated the host.            *)
LastVersionServes ==
    \A program \in Programs :
        <>[](file = program /\ fresh /\ phase # "terminated")
            => <>[](code = program) /\ []<>TickStarts

(* While it is bound, the tick's handler starts again and again, although  *)
(* the script floods the queue with events nobody handles and handlers     *)
(* fail: a full queue only delays it, since every update serves at least   *)
(* one activation.                                                         *)
TicksHandled ==
    <>[](HandlersOf(ON_TICK) # <<>> /\ phase # "terminated") => []<>TickStarts

(* Another version of the script, whose time stamp differs from that of    *)
(* the version loaded last, is reloaded: "watches a `.scmlbin` file,       *)
(* reloads it when the timestamp changes" (README.md).  False: poll        *)
(* remembers the time stamp of a file it could not load yet.               *)
ChangedFileReloads ==
    []<>~(file \in Programs \ {code} /\ behind /\ phase # "terminated")
=============================================================================
