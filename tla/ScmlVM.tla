-------------------------------- MODULE ScmlVM --------------------------------
(***************************************************************************)
(* The SCML virtual machine (src/vm/vm.c): threads of control, call        *)
(* frames, variable tables, the event registry and the event queue.        *)
(*                                                                         *)
(* One action is one call of the VM's C API made by a host between two     *)
(* steps (load, trigger, bind, clear), or one scml_vm_step.  The VM has no *)
(* threads of its own; "thread" below is a run of instructions that ends   *)
(* with HALT, END_THREAD or the end of the code.                           *)
(*                                                                         *)
(* Data is abstracted: an instruction occupies one address (the encoding   *)
(* in bytes is not the subject here), "store" is STORE, "compute" is any   *)
(* instruction that writes its result to a variable, "fail" any that finds *)
(* an error, and a native function is an external call that returns some   *)
(* value or fails.                                                         *)
(***************************************************************************)
EXTENDS Naturals, Integers, Sequences, FiniteSets

CONSTANTS
    Programs,                 \* the bytecode images a host may load
    EventNames,
    GlobalNames,              \* names that start with $
    LocalNames,               \* the other names
    Values,                   \* what a variable holds; 0 when it is created
    HostHandlers,             \* addresses a host binds through the C API
    SCML_VARS_MAX,
    SCML_LOCAL_VARS_MAX,
    SCML_CALL_STACK_MAX,
    SCML_EVENTS_MAX,
    SCML_EVENT_HANDLERS_MAX,
    SCML_EVENT_QUEUE_MAX,
    RETVAL,                   \* the name $RETVAL
    NoItem                    \* content of a queue slot nobody owns

Names == GlobalNames \cup LocalNames

Instruction ==
         [op : {"nop", "halt", "end_thread", "return", "fail", "truncated",
                "native"}]
    \cup [op : {"call", "jmp"}, to : Nat]
    \cup [op : {"store", "compute"}, name : Names, value : Values]
    \cup [op : {"if_eq"}, name : Names, value : Values, to : Nat]
    \cup [op : {"bind"}, event : EventNames, to : Nat]
    \cup [op : {"trigger"}, event : EventNames]

ASSUME QueueAssumption == SCML_EVENT_QUEUE_MAX \in Nat \ {0}
ASSUME CallsAssumption == SCML_CALL_STACK_MAX \in Nat
ASSUME NamesAssumption == RETVAL \in GlobalNames /\ 0 \in Values
ASSUME HandlersAssumption ==
    SCML_EVENT_HANDLERS_MAX \in Nat \ {0} /\ HostHandlers \subseteq Nat
ASSUME NoItemAssumption == NoItem \notin [event : EventNames, index : Nat]
ASSUME ProgramsAssumption == Programs \subseteq Seq(Instruction)

VARIABLES
    code,         \* the loaded program
    pc,
    halted,
    calls,        \* call frames, the active one last
    globals,      \* name -> value, for the names created so far
    events,       \* event name -> addresses of its handlers, in bind order
    event_queue,  \* the ring: slot -> activation
    event_head,   \* slot of the oldest activation
    event_tail,   \* first free slot
    rc            \* what the last scml_vm_step returned: 1, 0 or -1

threadVars == <<code, pc, halted, calls, globals>>
queueVars  == <<event_queue, event_head, event_tail>>
vars       == <<threadVars, events, queueVars, rc>>

\* A table without entries.
NoEntries == [x \in {} |-> 0]

Slots      == 0 .. SCML_EVENT_QUEUE_MAX - 1
Activation == [event : EventNames, index : Nat]
Tables     == UNION {[S -> Values] : S \in SUBSET Names}
Frame      == [return_pc : Nat, locals : Tables]

-----------------------------------------------------------------------------
(* The event registry.                                                     *)

HandlersOf(e) == IF e \in DOMAIN events THEN events[e] ELSE <<>>

CanBind(e) ==
    IF e \in DOMAIN events
    THEN Len(events[e]) < SCML_EVENT_HANDLERS_MAX
    ELSE Cardinality(DOMAIN events) < SCML_EVENTS_MAX

\* events after one more handler of e.
Bound(e, handler_pc) ==
    [n \in DOMAIN events \cup {e} |->
        IF n = e THEN Append(HandlersOf(e), handler_pc) ELSE events[n]]

-----------------------------------------------------------------------------
(* The event queue: a ring of slots that keeps one slot free.              *)

SuccNoWrap(i) == i + 1                                               \* fault

Succ(i) == (i + 1) % SCML_EVENT_QUEUE_MAX

QueueEmpty == event_head = event_tail

NeverFull == FALSE                                                   \* fault

QueueFull == Succ(event_tail) = event_head

Oldest == event_queue[event_head]

\* Number of queued activations, as the memory dump computes it.
Queued == (event_tail + SCML_EVENT_QUEUE_MAX - event_head) % SCML_EVENT_QUEUE_MAX

Slot(k) == (event_head + k - 1) % SCML_EVENT_QUEUE_MAX

\* The queue's content from the oldest to the newest activation.
QueueSeq == [k \in 1 .. Queued |-> event_queue[Slot(k)]]

\* Fault: a trigger jumps the queue.
EnqueueFirst(item) ==
    LET first == (event_head + SCML_EVENT_QUEUE_MAX - 1) % SCML_EVENT_QUEUE_MAX IN
    /\ event_queue' = [event_queue EXCEPT ![first] = item]
    /\ event_head' = first
    /\ UNCHANGED event_tail

Enqueue(item) ==
    /\ event_queue' = [event_queue EXCEPT ![event_tail] = item]
    /\ event_tail' = Succ(event_tail)
    /\ UNCHANGED event_head

SameHandlerAgain(item) == item                                       \* fault

Continuation(item) == [event |-> item.event, index |-> item.index + 1]

\* The oldest activation names a handler that is bound.
Runnable == Oldest.index < Len(HandlersOf(Oldest.event))

HasMoreHandlers == Oldest.index + 1 < Len(HandlersOf(Oldest.event))

ContinueInPlace ==                                                   \* fault
    /\ event_queue' = [event_queue EXCEPT ![event_head] = Continuation(Oldest)]
    /\ UNCHANGED <<event_head, event_tail>>

\* Fault: the continuation is queued and the activation stays queued, too.
ContinueWithoutPop ==
    /\ UNCHANGED event_head
    /\ IF QueueFull
       THEN UNCHANGED <<event_queue, event_tail>>
       ELSE /\ event_queue' = [event_queue EXCEPT ![event_tail] = Continuation(Oldest)]
            /\ event_tail' = Succ(event_tail)

\* Fault: the continuation is offered to the queue before the oldest
\* activation has left its slot, and a full queue refuses it.
ContinueBeforePop ==
    IF QueueFull
    THEN /\ event_queue' = [event_queue EXCEPT ![event_head] = NoItem]
         /\ event_head' = Succ(event_head)
         /\ UNCHANGED event_tail
    ELSE /\ event_queue' = [event_queue EXCEPT ![event_head] = NoItem,
                                               ![event_tail] = Continuation(Oldest)]
         /\ event_head' = Succ(event_head)
         /\ event_tail' = Succ(event_tail)

\* The oldest activation leaves its slot, then its continuation is offered
\* to the queue; a refusal is ignored, as dispatch_next_event ignores what
\* queue_event_handler returns.
PopAndContinue ==
    /\ event_head' = Succ(event_head)
    /\ IF Succ(event_tail) = event_head'
       THEN /\ event_queue' = [event_queue EXCEPT ![event_head] = NoItem]
            /\ UNCHANGED event_tail
       ELSE /\ event_queue' = [event_queue EXCEPT ![event_head] = NoItem,
                                                  ![event_tail] = Continuation(Oldest)]
            /\ event_tail' = Succ(event_tail)

Pop ==
    /\ event_queue' = [event_queue EXCEPT ![event_head] = NoItem]
    /\ event_head' = Succ(event_head)
    /\ UNCHANGED event_tail

\* dispatch_next_event finds a handler: it starts at its address.
DispatchHandler ==
    /\ ~QueueEmpty /\ Runnable
    /\ IF HasMoreHandlers THEN PopAndContinue ELSE Pop
    /\ pc' = HandlersOf(Oldest.event)[Oldest.index + 1]
    /\ halted' = FALSE

\* dispatch_next_event drops an activation without a handler.  It does not
\* look at the next one: the call ends there.
DropActivation == ~QueueEmpty /\ ~Runnable /\ Pop

NothingQueued == QueueEmpty /\ UNCHANGED queueVars

DispatchFails == DropActivation \/ NothingQueued

-----------------------------------------------------------------------------
(* Variables: $ names and names used outside calls are global, the others  *)
(* belong to the active frame.                                             *)

Top == calls[Len(calls)]

IsLocal(x) == x \in LocalNames /\ calls # <<>>

Scope(x) == IF IsLocal(x) THEN Top.locals ELSE globals

\* set_var finds x, or has room to create it.
CanSet(x) ==
    \/ x \in DOMAIN Scope(x)
    \/ Cardinality(DOMAIN Scope(x)) < (IF IsLocal(x) THEN SCML_LOCAL_VARS_MAX
                                                     ELSE SCML_VARS_MAX)

Assigned(scope, x, v) ==
    [n \in DOMAIN scope \cup {x} |-> IF n = x THEN v ELSE scope[n]]

SetVar(x, v) ==
    IF ~CanSet(x) THEN UNCHANGED <<globals, calls>>
    ELSE IF IsLocal(x)
    THEN /\ calls' = [calls EXCEPT ![Len(calls)] =
                          [return_pc |-> Top.return_pc,
                           locals    |-> Assigned(Top.locals, x, v)]]
         /\ UNCHANGED globals
    ELSE /\ globals' = Assigned(globals, x, v)
         /\ UNCHANGED calls

\* eval of a variable operand: a missing name reads as 0.
Eval(x) == IF x \in DOMAIN Scope(x) THEN Scope(x)[x] ELSE 0

-----------------------------------------------------------------------------
(* scml_vm_step.                                                           *)

AtEnd == halted \/ pc >= Len(code)

Instr == code[pc + 1]

\* Fetch and decode an instruction of one of the given kinds.
Fetch(ops) == ~AtEnd /\ Instr.op \in ops

Succeed == rc' = 1 /\ UNCHANGED code
FailAndRetry == rc' = -1 /\ UNCHANGED <<code, pc>>                   \* fault
\* An error return: the program counter is already past the instruction.
Fail == rc' = -1 /\ pc' = pc + 1 /\ UNCHANGED code

\* No instruction to run: the oldest activation starts a handler, ...
StepDispatch ==
    /\ AtEnd /\ DispatchHandler
    /\ Succeed
    /\ UNCHANGED <<calls, globals, events>>

\* ... or the VM comes to rest.
StepIdle ==
    /\ AtEnd /\ DispatchFails
    /\ halted' = TRUE /\ rc' = 0
    /\ UNCHANGED <<code, pc, calls, globals, events>>

StepTruncated ==
    /\ Fetch({"truncated"})
    /\ halted' = TRUE /\ rc' = -1
    /\ UNCHANGED <<code, pc, calls, globals, events, queueVars>>

StepHalt ==
    /\ Fetch({"halt"})
    /\ halted' = TRUE /\ pc' = pc + 1 /\ Succeed
    /\ UNCHANGED <<calls, globals, events, queueVars>>

StepEndThread ==
    /\ Fetch({"end_thread"})
    /\ \/ DispatchHandler
       \/ DispatchFails /\ halted' = TRUE /\ pc' = pc + 1
    /\ Succeed
    /\ UNCHANGED <<calls, globals, events>>

StepReturn ==
    /\ Fetch({"return"})
    /\ IF calls = <<>>
       THEN Fail /\ UNCHANGED calls
       ELSE /\ pc' = Top.return_pc
            /\ calls' = SubSeq(calls, 1, Len(calls) - 1)
            /\ Succeed
    /\ UNCHANGED <<halted, globals, events, queueVars>>

StepCall ==
    /\ Fetch({"call"})
    /\ IF Len(calls) >= SCML_CALL_STACK_MAX
       THEN Fail /\ UNCHANGED calls
       ELSE /\ pc' = Instr.to
            /\ calls' = Append(calls, [return_pc |-> pc + 1, locals |-> NoEntries])
            /\ Succeed
    /\ UNCHANGED <<halted, globals, events, queueVars>>

\* CALL by name and CALL_NATIVE: the host's function returns a value, or is
\* missing or fails.
StepNative ==
    /\ Fetch({"native"})
    /\ \/ \E v \in Values : SetVar(RETVAL, v) /\ pc' = pc + 1 /\ Succeed
       \/ Fail /\ UNCHANGED <<globals, calls>>
    /\ UNCHANGED <<halted, events, queueVars>>

\* STORE reports a full table, the instructions that compute do not.
StepStore ==
    /\ Fetch({"store", "compute"})
    /\ SetVar(Instr.name, Instr.value)
    /\ pc' = pc + 1
    /\ rc' = IF Instr.op = "compute" \/ CanSet(Instr.name) THEN 1 ELSE -1
    /\ UNCHANGED <<code, halted, events, queueVars>>

StepJump ==
    /\ Fetch({"jmp", "if_eq", "nop"})
    /\ pc' = IF \/ Instr.op = "jmp"
                \/ Instr.op = "if_eq" /\ Eval(Instr.name) = Instr.value
             THEN Instr.to
             ELSE pc + 1
    /\ Succeed
    /\ UNCHANGED <<halted, calls, globals, events, queueVars>>

StepFail ==
    /\ Fetch({"fail"})
    /\ Fail
    /\ UNCHANGED <<halted, calls, globals, events, queueVars>>

StepBind ==
    /\ Fetch({"bind"})
    /\ IF CanBind(Instr.event)
       THEN /\ events' = Bound(Instr.event, Instr.to)
            /\ pc' = pc + 1 /\ Succeed
       ELSE Fail /\ UNCHANGED events
    /\ UNCHANGED <<halted, calls, globals, queueVars>>

StepTrigger ==
    /\ Fetch({"trigger"})
    /\ IF QueueFull
       THEN Fail /\ UNCHANGED queueVars
       ELSE /\ Enqueue([event |-> Instr.event, index |-> 0])
            /\ pc' = pc + 1 /\ Succeed
    /\ UNCHANGED <<halted, calls, globals, events>>

\* The steps that call dispatch_next_event.
ServingStep == StepDispatch \/ StepIdle \/ StepEndThread

\* The steps that leave the queue alone.
PlainStep ==
    \/ StepTruncated \/ StepHalt \/ StepReturn \/ StepCall \/ StepNative
    \/ StepStore \/ StepJump \/ StepFail \/ StepBind

Step == ServingStep \/ StepTrigger \/ PlainStep

-----------------------------------------------------------------------------
(* The rest of the C API.                                                  *)

Init ==
    /\ code = <<>> /\ pc = 0 /\ halted = FALSE
    /\ calls = <<>> /\ globals = NoEntries /\ events = NoEntries
    /\ event_queue = [s \in Slots |-> NoItem]
    /\ event_head = 0 /\ event_tail = 0
    /\ rc = 1

\* A successful scml_vm_load_file; one that fails changes nothing.  Frames,
\* variables, bindings and queued activations all survive.
LoadFile(program) ==
    /\ code' = program /\ pc' = 0 /\ halted' = FALSE
    /\ UNCHANGED <<calls, globals, events, queueVars, rc>>

BindEvent(e, handler_pc) ==
    /\ CanBind(e)
    /\ events' = Bound(e, handler_pc)
    /\ UNCHANGED <<threadVars, queueVars, rc>>

TriggerEvent(e) ==
    /\ ~QueueFull
    /\ Enqueue([event |-> e, index |-> 0])
    /\ UNCHANGED <<threadVars, events, rc>>

ClearBindingsOnly ==                                                 \* fault
    /\ events' = NoEntries
    /\ UNCHANGED <<threadVars, queueVars, rc>>

ClearEvents ==
    /\ events' = NoEntries
    /\ event_queue' = [s \in Slots |-> NoItem]
    /\ event_head' = 0 /\ event_tail' = 0
    /\ UNCHANGED <<threadVars, rc>>

\* scml_vm_set_int, _float and _string.
SetVariable(x, v) == SetVar(x, v) /\ UNCHANGED <<code, pc, halted, events, queueVars, rc>>

Next ==
    \/ Step
    \/ \E program \in Programs : LoadFile(program)
    \/ \E e \in EventNames, h \in HostHandlers : BindEvent(e, h)
    \/ \E e \in EventNames : TriggerEvent(e)
    \/ ClearEvents
    \/ \E x \in Names, v \in Values : SetVariable(x, v)

Spec == Init /\ [][Next]_vars

-----------------------------------------------------------------------------
(* Properties.                                                             *)

(* The types of the VM's state.                                            *)
TypeOK ==
    /\ code \in Programs \cup {<<>>}
    /\ pc \in Nat
    /\ halted \in BOOLEAN
    /\ calls \in Seq(Frame)
    /\ Len(calls) <= SCML_CALL_STACK_MAX
    /\ globals \in Tables
    /\ DOMAIN events \subseteq EventNames
    /\ events \in [DOMAIN events -> Seq(Nat)]
    /\ \A e \in DOMAIN events : Len(events[e]) \in 1 .. SCML_EVENT_HANDLERS_MAX
    /\ event_queue \in [Slots -> Activation \cup {NoItem}]
    /\ event_head \in Slots
    /\ event_tail \in Slots
    /\ rc \in {1, 0, -1}

\* Slot s lies between head and tail, going round the ring.
Live(s) ==
    IF event_head <= event_tail
    THEN event_head <= s /\ s < event_tail
    ELSE event_head <= s \/ s < event_tail

(* The slots between head and tail, and no others, own an activation: no   *)
(* queued name is overwritten or read after it was freed, whatever the     *)
(* order of triggers, dispatches and clears, and even when the ring is     *)
(* full (event_queue in vm.c).                                             *)
RingOwned == \A s \in Slots : Live(s) <=> event_queue[s] # NoItem

(* An activation that has started always has a next handler bound: once an *)
(* event's first handler ran, its remaining handlers cannot turn into a    *)
(* dropped activation, because clearing the bindings clears the queue.     *)
StartedStaysRunnable ==
    \A s \in Slots :
        /\ event_queue[s] # NoItem
        /\ event_queue[s].index > 0
        => event_queue[s].index < Len(HandlersOf(event_queue[s].event))

(* Every step of the VM and every API call acts on the queue and on the    *)
(* bindings as the abstract event delivery does: no activation is lost,    *)
(* duplicated or overtaken, each handler but the last hands over to the    *)
(* next one, and a continuation is never refused, although                 *)
(* dispatch_next_event would not notice if it were.                        *)
Delivery == INSTANCE EventDelivery
                WITH q        <- QueueSeq,
                     bound    <- [e \in EventNames |-> Len(HandlersOf(e))],
                     Capacity <- SCML_EVENT_QUEUE_MAX - 1
ImplementsDelivery == Delivery!Spec

(* A failed step is never retried: the VM is past the instruction or       *)
(* halted, and it kept its frames, bindings and queued activations, so the *)
(* host's next run goes on with what was queued.                           *)
FailedStepSkips ==
    [][rc' = -1 /\ Step => /\ pc' > pc \/ halted'
                           /\ UNCHANGED <<calls, events, queueVars>>]_vars

(* A handler starts outside all calls, so that its names without $ are     *)
(* global: only "variables inside calls are local to the active frame"     *)
(* (README.md).  False: a thread that ends inside a call leaves its frame. *)
HandlersStartOutsideCalls ==
    [][ServingStep /\ ~QueueEmpty /\ Runnable => calls = <<>>]_vars

=============================================================================
