----------------------------- MODULE EventHistory -----------------------------
(***************************************************************************)
(* ScmlVM with history variables: which trigger each queued activation     *)
(* came from, and what became of it.  They observe the VM and never        *)
(* restrain it, except that MaxTriggers keeps the history finite.          *)
(***************************************************************************)
EXTENDS ScmlVM

CONSTANTS
    MaxTriggers,   \* the host triggers and loads no more after so many triggers
    MaxLoads       \* the host loads a script so many times

ASSUME MaxTriggersAssumption == MaxTriggers \in Nat /\ MaxLoads \in Nat

VARIABLES
    triggered,  \* number of triggers accepted; the n-th is called trigger n
    owner,      \* slot -> the trigger its activation came from, 0 if free
    log,        \* the handlers started, in order
    dropped,    \* triggers whose event had no handler when they were served
    cleared,    \* triggers removed by scml_vm_clear_events
    loads       \* number of times a script was loaded

histVars == <<triggered, owner, log, dropped, cleared, loads>>
hvars == <<vars, histVars>>

Waiting == {owner[s] : s \in Slots} \ {0}

HistInit ==
    /\ Init
    /\ triggered = 0 /\ owner = [s \in Slots |-> 0] /\ log = <<>>
    /\ dropped = {} /\ cleared = {} /\ loads = 0

\* What a step writes into the ring belongs to trigger id.
OwnedBy(id) ==
    owner' = [s \in Slots |-> CASE event_queue'[s] = NoItem         -> 0
                                [] event_queue'[s] = event_queue[s] -> owner[s]
                                [] OTHER                            -> id]

RecordTrigger ==
    /\ triggered' = triggered + 1
    /\ OwnedBy(triggered + 1)
    /\ UNCHANGED <<log, dropped, cleared, loads>>

RecordDispatch ==
    /\ OwnedBy(owner[event_head])
    /\ log' = Append(log, [id    |-> owner[event_head],
                           index |-> Oldest.index,
                           of    |-> Len(HandlersOf(Oldest.event))])
    /\ UNCHANGED <<triggered, dropped, cleared, loads>>

RecordDrop ==
    /\ OwnedBy(owner[event_head])
    /\ dropped' = dropped \cup {owner[event_head]}
    /\ UNCHANGED <<triggered, log, cleared, loads>>

RecordClear ==
    /\ owner' = [s \in Slots |-> 0]
    /\ cleared' = cleared \cup Waiting
    /\ UNCHANGED <<triggered, log, dropped, loads>>

RecordServing ==
    CASE QueueEmpty               -> UNCHANGED histVars
      [] ~QueueEmpty /\ Runnable  -> RecordDispatch
      [] ~QueueEmpty /\ ~Runnable -> RecordDrop

HistStep ==
    \/ ServingStep /\ RecordServing
    \/ StepTrigger /\ IF rc' = 1 THEN RecordTrigger ELSE UNCHANGED histVars
    \/ PlainStep /\ UNCHANGED histVars

HistNext ==
    \/ HistStep
    \/ /\ triggered < MaxTriggers
       /\ \/ \E e \in EventNames : TriggerEvent(e) /\ RecordTrigger
          \/ /\ loads < MaxLoads /\ loads' = loads + 1
             /\ \E program \in Programs : LoadFile(program)
             /\ UNCHANGED <<triggered, owner, log, dropped, cleared>>
    \/ \E e \in EventNames, h \in HostHandlers : BindEvent(e, h) /\ UNCHANGED histVars
    \/ ClearEvents /\ RecordClear

HistSpec == HistInit /\ [][HistNext]_hvars

(* Every host in the repository keeps calling run or update, in a loop     *)
(* that steps the VM until it rests or fails: the VM's steps are fair, the *)
(* API calls are not.  (A host that did nothing but reload could starve    *)
(* the queue for ever; MaxLoads rules it out.)                             *)
FairHistSpec == HistSpec /\ WF_hvars(HistStep)

-----------------------------------------------------------------------------
(* Properties.                                                             *)

HistTypeOK ==
    /\ triggered \in Nat
    /\ owner \in [Slots -> 0 .. triggered]
    /\ \A s \in Slots : owner[s] # 0 <=> Live(s)
    /\ log \in Seq([id : 1 .. triggered, index : Nat, of : Nat])
    /\ dropped \subseteq 1 .. triggered
    /\ cleared \subseteq 1 .. triggered
    /\ loads \in 0 .. MaxLoads

(* A trigger is queued at most once: continuing an event never forks it.   *)
OneActivationPerTrigger ==
    \A s, t \in Slots : owner[s] = owner[t] /\ owner[s] # 0 => s = t

Finished(id) == \E k \in DOMAIN log : log[k].id = id /\ log[k].index + 1 = log[k].of

(* Every accepted trigger is accounted for: it waits in the queue, or all  *)
(* the handlers bound to its event were started, or its event had no       *)
(* handler and none was started, or the host cleared the events.  In       *)
(* particular the full queue never swallows a continuation.                *)
NothingLost ==
    \A id \in 1 .. triggered :
        \/ id \in Waiting
        \/ Finished(id)
        \/ id \in dropped /\ \A k \in DOMAIN log : log[k].id # id
        \/ id \in cleared

(* The handlers of one trigger start in the order they were bound, none    *)
(* skipped and none twice, however the threads of other events are         *)
(* interleaved with them.                                                  *)
HandlersInOrder ==
    \A k \in DOMAIN log :
        log[k].index = Cardinality({j \in 1 .. k - 1 : log[j].id = log[k].id})

(* Triggers are served first come first served: an event's first handler   *)
(* starts (or its drop happens) before that of any later trigger.          *)
FirstComeFirstServed ==
    \A k \in DOMAIN log :
        log[k].index = 0 =>
            \A id \in 1 .. log[k].id - 1 :
                \/ id \in dropped \cup cleared
                \/ \E j \in 1 .. k - 1 : log[j].id = id

(* Every queued trigger leaves the queue, served to its last handler,      *)
(* dropped or cleared, although handlers fail, trigger further events and  *)
(* share the queue: each error costs the failing run only.  (Scripts add   *)
(* at most three triggers to MaxTriggers in the instances checked.)        *)
EventuallySettled ==
    \A id \in 1 .. MaxTriggers + 3 :
        (id \in Waiting) ~> (id \notin Waiting)

=============================================================================
