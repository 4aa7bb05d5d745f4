------------------------------- MODULE GameLoop -------------------------------
(***************************************************************************)
(* The two game hosts of the repository driving one VM: the loop that      *)
(* README.md and examples/gameplay_embed.cpp show, and the class           *)
(* SCML_GameRuntime (src/runtime/game_runtime.hpp).  They differ in what   *)
(* they do when the event queue refuses a trigger: the loop updates the VM *)
(* all the same, SCML_GameRuntime does not.                                *)
(* scml_vm_run and scml_vm_update (one function) are a loop of steps until *)
(* one returns 0 (success) or -1 (failure).                                *)
(***************************************************************************)
EXTENDS ScmlVM

CONSTANTS ON_START, ON_TICK

ASSUME TickAssumption == {ON_START, ON_TICK} \subseteq EventNames

VARIABLES
    phase,     \* "init", "start" or "loop": what the host does next
    running,   \* a run or update is in progress
    ok         \* what the last run, or refused trigger, returned

gvars == <<vars, phase, running, ok>>

GameInit ==
    /\ Init
    /\ phase = "init" /\ running = FALSE /\ ok = TRUE

InitScript ==
    /\ phase = "init" /\ phase' = "start"
    /\ \E program \in Programs : LoadFile(program)
    /\ UNCHANGED <<running, ok>>

RunOnce == running' = FALSE                                          \* fault

RunUntilRest == running' = (rc' = 1)

RunStep ==
    /\ running /\ Step
    /\ RunUntilRest
    /\ ok' = IF rc' = 1 THEN ok ELSE rc' = 0
    /\ UNCHANGED phase

\* vm.triggerEvent(e) && vm.run()
TriggerThenRun(e) ==
    /\ ~running
    /\ \/ TriggerEvent(e) /\ running' = TRUE /\ UNCHANGED ok
       \/ QueueFull /\ ok' = FALSE /\ UNCHANGED <<vars, running>>
    /\ phase' = "loop"

\* vm.triggerEvent(e); vm.run();
TriggerAndRun(e) ==
    /\ ~running
    /\ \/ TriggerEvent(e)
       \/ QueueFull /\ UNCHANGED vars
    /\ running' = TRUE /\ phase' = "loop"
    /\ UNCHANGED ok

\* SCML_GameRuntime::start and ::tick.
RuntimeStart == phase = "start" /\ TriggerThenRun(ON_START)
RuntimeTick  == phase = "loop"  /\ TriggerThenRun(ON_TICK)

\* The loop of README.md.
LoopStart == phase = "start" /\ TriggerAndRun(ON_START)
LoopTick  == phase = "loop"  /\ TriggerAndRun(ON_TICK)

RuntimeNext == InitScript \/ RuntimeStart \/ RuntimeTick \/ RunStep

LoopNext == InitScript \/ LoopStart \/ LoopTick \/ RunStep

(* A game calls its tick every frame, and a run that has begun goes on.    *)
RuntimeSpec == GameInit /\ [][RuntimeNext]_gvars /\ WF_gvars(RuntimeNext)

LoopSpec == GameInit /\ [][LoopNext]_gvars /\ WF_gvars(LoopNext)

-----------------------------------------------------------------------------
(* Properties.                                                             *)

GameTypeOK ==
    /\ TypeOK
    /\ phase \in {"init", "start", "loop"}
    /\ running \in BOOLEAN
    /\ ok \in BOOLEAN

(* The host goes on updating the VM, as the loop in README.md does in      *)
(* every iteration.                                                        *)
KeepsUpdating == []<>running

=============================================================================
