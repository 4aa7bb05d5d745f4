------------------------------ MODULE ScmlVM_proof ------------------------------
(***************************************************************************)
(* Proofs about ScmlVM for every program, every ring size and every limit. *)
(***************************************************************************)
EXTENDS ScmlVM, TLAPS

-----------------------------------------------------------------------------
(* Type correctness.                                                       *)

ThreadType ==
    /\ code \in Programs \cup {<<>>}
    /\ pc \in Nat
    /\ halted \in BOOLEAN
    /\ rc \in {1, 0, -1}

FramesType ==
    /\ calls \in Seq(Frame)
    /\ Len(calls) <= SCML_CALL_STACK_MAX
    /\ globals \in Tables

EventsType ==
    /\ DOMAIN events \subseteq EventNames
    /\ events \in [DOMAIN events -> Seq(Nat)]
    /\ \A e \in DOMAIN events : Len(events[e]) \in 1 .. SCML_EVENT_HANDLERS_MAX

QueueType ==
    /\ event_queue \in [Slots -> Activation \cup {NoItem}]
    /\ event_head \in Slots
    /\ event_tail \in Slots

(* The next slot of the ring is a slot: the one after, or the first.       *)
LEMMA SuccValue ==
    \A i \in Slots : /\ Succ(i) = IF i + 1 = SCML_EVENT_QUEUE_MAX THEN 0 ELSE i + 1
                     /\ Succ(i) \in Slots
BY QueueAssumption DEF Slots, Succ

(* What the VM fetches is an instruction of the language.                  *)
LEMMA FetchedInstr ==
    ASSUME ThreadType, ~AtEnd
    PROVE  Instr \in Instruction
<1>1. code \in Seq(Instruction)
  <2>1. CASE code = <<>>  BY <2>1
  <2>2. CASE code \in Programs  BY <2>2, ProgramsAssumption
  <2>. QED  BY <2>1, <2>2 DEF ThreadType
<1>2. pc + 1 \in 1 .. Len(code)
  BY <1>1 DEF ThreadType, AtEnd
<1>. QED  BY <1>1, <1>2 DEF Instr

(* The operands of an instruction have the types its opcode gives them.    *)
LEMMA OperandTypes ==
    ASSUME NEW ins \in Instruction
    PROVE  /\ ins.op \in {"call", "jmp", "if_eq", "bind"} => ins.to \in Nat
           /\ ins.op \in {"bind", "trigger"} => ins.event \in EventNames
           /\ ins.op \in {"store", "compute"} => ins.name \in Names /\ ins.value \in Values
BY DEF Instruction

(* Assigning a variable in a table yields a table.                         *)
LEMMA AssignedType ==
    ASSUME NEW t \in Tables, NEW n \in Names, NEW v \in Values
    PROVE  Assigned(t, n, v) \in Tables
<1>1. PICK S \in SUBSET Names : t \in [S -> Values]
  BY DEF Tables
<1>2. Assigned(t, n, v) \in [S \cup {n} -> Values]
  BY <1>1 DEF Assigned
<1>. QED  BY <1>2 DEF Tables

LEMMA TopType ==
    ASSUME FramesType, calls # <<>>
    PROVE  Len(calls) \in 1 .. Len(calls) /\ Top \in Frame
BY DEF FramesType, Top

(* set_var keeps the frames and the tables well typed.                     *)
LEMMA SetVarType ==
    ASSUME FramesType, NEW n \in Names, NEW v \in Values, SetVar(n, v)
    PROVE  FramesType'
<1>1. CASE ~CanSet(n)
  BY <1>1 DEF SetVar, FramesType
<1>2. CASE CanSet(n) /\ IsLocal(n)
  <2>1. Len(calls) \in 1 .. Len(calls) /\ Top \in Frame
    BY <1>2, TopType DEF IsLocal
  <2>2. Assigned(Top.locals, n, v) \in Tables
    BY <2>1, AssignedType DEF Frame
  <2>3. [return_pc |-> Top.return_pc, locals |-> Assigned(Top.locals, n, v)] \in Frame
    BY <2>1, <2>2 DEF Frame
  <2>. QED  BY <1>2, <2>1, <2>3 DEF SetVar, FramesType
<1>3. CASE CanSet(n) /\ ~IsLocal(n)
  BY <1>3, AssignedType DEF SetVar, FramesType
<1>. QED  BY <1>1, <1>2, <1>3

(* Adding a handler keeps the registry well typed.                         *)
LEMMA BoundType ==
    ASSUME EventsType, NEW e \in EventNames, NEW h \in Nat, CanBind(e),
           events' = Bound(e, h)
    PROVE  EventsType'
<1>1. HandlersOf(e) \in Seq(Nat) /\ Len(HandlersOf(e)) < SCML_EVENT_HANDLERS_MAX
  BY HandlersAssumption DEF EventsType, HandlersOf, CanBind
<1>2. /\ Append(HandlersOf(e), h) \in Seq(Nat)
      /\ Len(Append(HandlersOf(e), h)) \in 1 .. SCML_EVENT_HANDLERS_MAX
  BY <1>1, HandlersAssumption
<1>3. DOMAIN events' = DOMAIN events \cup {e}
  BY DEF Bound
<1>4. ASSUME NEW n \in DOMAIN events'
      PROVE  events'[n] \in Seq(Nat) /\ Len(events'[n]) \in 1 .. SCML_EVENT_HANDLERS_MAX
  BY <1>2, <1>3, <1>4 DEF Bound, EventsType
<1>5. events' = [n \in DOMAIN events' |-> events'[n]]
  BY <1>3 DEF Bound
<1>. QED  BY <1>3, <1>4, <1>5 DEF EventsType

-----------------------------------------------------------------------------
(* The ring.                                                               *)

(* The oldest slot of a queue that is not empty holds an activation.       *)
LEMMA OldestType ==
    ASSUME QueueType, RingOwned, ~QueueEmpty
    PROVE  Oldest \in Activation
<1>1. Live(event_head)
  BY DEF QueueType, QueueEmpty, Live, Slots
<1>. QED  BY <1>1 DEF QueueType, RingOwned, Oldest

(* Filling the free slot at the tail of a ring that is not full.           *)
LEMMA EnqueueRing ==
    ASSUME QueueType, RingOwned, ~QueueFull, NEW item \in Activation, Enqueue(item)
    PROVE  QueueType' /\ RingOwned'
<1>1. item # NoItem
  BY NoItemAssumption DEF Activation
<1>2. QueueType'
  BY SuccValue DEF QueueType, Enqueue
<1>3. ASSUME NEW s \in Slots
      PROVE  Live(s)' <=> event_queue'[s] # NoItem
  <2>1. event_queue'[s] = IF s = event_tail THEN item ELSE event_queue[s]
    BY DEF QueueType, Enqueue
  <2>2. Live(s)' <=> Live(s) \/ s = event_tail
    <3>1. /\ event_head' = event_head
          /\ event_tail' = IF event_tail + 1 = SCML_EVENT_QUEUE_MAX
                           THEN 0 ELSE event_tail + 1
          /\ event_tail' # event_head
      BY SuccValue DEF QueueType, Enqueue, QueueFull
    <3>2. /\ event_head \in Nat /\ event_tail \in Nat /\ s \in Nat
          /\ event_head < SCML_EVENT_QUEUE_MAX
          /\ event_tail < SCML_EVENT_QUEUE_MAX
          /\ s < SCML_EVENT_QUEUE_MAX
      BY QueueAssumption DEF QueueType, Slots
    <3>. QED  BY <3>1, <3>2, QueueAssumption DEF Live
  <2>. QED  BY <1>1, <2>1, <2>2 DEF RingOwned
<1>. QED  BY <1>2, <1>3 DEF RingOwned

(* Emptying the slot at the head.                                          *)
LEMMA PopRing ==
    ASSUME QueueType, RingOwned, ~QueueEmpty, Pop
    PROVE  QueueType' /\ RingOwned'
<1>1. QueueType'
  BY SuccValue DEF QueueType, Pop
<1>2. ASSUME NEW s \in Slots
      PROVE  Live(s)' <=> event_queue'[s] # NoItem
  <2>1. event_queue'[s] = IF s = event_head THEN NoItem ELSE event_queue[s]
    BY DEF QueueType, Pop
  <2>2. Live(s)' <=> Live(s) /\ s # event_head
    <3>1. /\ event_tail' = event_tail
          /\ event_head' = IF event_head + 1 = SCML_EVENT_QUEUE_MAX
                           THEN 0 ELSE event_head + 1
          /\ event_tail # event_head
      BY SuccValue DEF QueueType, Pop, QueueEmpty
    <3>2. /\ event_head \in Nat /\ event_tail \in Nat /\ s \in Nat
          /\ event_head < SCML_EVENT_QUEUE_MAX
          /\ event_tail < SCML_EVENT_QUEUE_MAX
          /\ s < SCML_EVENT_QUEUE_MAX
      BY QueueAssumption DEF QueueType, Slots
    <3>. QED  BY <3>1, <3>2, QueueAssumption DEF Live
  <2>. QED  BY <2>1, <2>2 DEF RingOwned
<1>. QED  BY <1>1, <1>2 DEF RingOwned

(* The slot that was just emptied makes room for the continuation.         *)
LEMMA ContinuationFits ==
    ASSUME QueueType, ~QueueEmpty, PopAndContinue
    PROVE  /\ event_queue' = [event_queue EXCEPT ![event_head] = NoItem,
                                                 ![event_tail] = Continuation(Oldest)]
           /\ event_tail' = Succ(event_tail)
<1>1. /\ event_head \in Slots /\ event_tail \in Slots /\ event_head # event_tail
      /\ event_head \in Nat /\ event_tail \in Nat
      /\ event_head < SCML_EVENT_QUEUE_MAX /\ event_tail < SCML_EVENT_QUEUE_MAX
  BY QueueAssumption DEF QueueType, QueueEmpty, Slots
<1>2. Succ(event_tail) # Succ(event_head)
  BY <1>1, SuccValue, QueueAssumption
<1>. QED  BY <1>2 DEF PopAndContinue

(* Moving the oldest activation to the tail.                               *)
LEMMA PopAndContinueRing ==
    ASSUME QueueType, RingOwned, ~QueueEmpty, PopAndContinue
    PROVE  QueueType' /\ RingOwned'
<1>1. Continuation(Oldest) \in Activation /\ Continuation(Oldest) # NoItem
  BY OldestType, NoItemAssumption DEF Activation, Continuation
<1>2. event_head' = Succ(event_head)
  BY DEF PopAndContinue
<1>3. QueueType'
  BY <1>1, <1>2, ContinuationFits, SuccValue DEF QueueType
<1>4. ASSUME NEW s \in Slots
      PROVE  Live(s)' <=> event_queue'[s] # NoItem
  <2>1. event_queue'[s] = IF s = event_tail THEN Continuation(Oldest)
                          ELSE IF s = event_head THEN NoItem ELSE event_queue[s]
    BY ContinuationFits DEF QueueType
  <2>2. Live(s)' <=> (Live(s) /\ s # event_head) \/ s = event_tail
    <3>1. /\ event_tail' = IF event_tail + 1 = SCML_EVENT_QUEUE_MAX
                           THEN 0 ELSE event_tail + 1
          /\ event_head' = IF event_head + 1 = SCML_EVENT_QUEUE_MAX
                           THEN 0 ELSE event_head + 1
          /\ event_tail # event_head
      BY <1>2, ContinuationFits, SuccValue DEF QueueType, QueueEmpty
    <3>2. /\ event_head \in Nat /\ event_tail \in Nat /\ s \in Nat
          /\ event_head < SCML_EVENT_QUEUE_MAX
          /\ event_tail < SCML_EVENT_QUEUE_MAX
          /\ s < SCML_EVENT_QUEUE_MAX
      BY QueueAssumption DEF QueueType, Slots
    <3>. QED  BY <3>1, <3>2, QueueAssumption DEF Live
  <2>. QED  BY <1>1, <2>1, <2>2 DEF RingOwned
<1>. QED  BY <1>3, <1>4 DEF RingOwned

(* The two outcomes of dispatch_next_event.                                *)
LEMMA DispatchHandlerType ==
    ASSUME QueueType, RingOwned, EventsType, DispatchHandler
    PROVE  QueueType' /\ RingOwned' /\ pc' \in Nat /\ halted' = FALSE
<1>1. QueueType' /\ RingOwned'
  BY PopRing, PopAndContinueRing DEF DispatchHandler
<1>2. HandlersOf(Oldest.event)[Oldest.index + 1] \in Nat
  <2>1. Oldest.index \in Nat
    BY OldestType DEF DispatchHandler, Activation
  <2>2. HandlersOf(Oldest.event) \in Seq(Nat)
    BY DEF HandlersOf, EventsType
  <2>3. Oldest.index + 1 \in 1 .. Len(HandlersOf(Oldest.event))
    BY <2>1, <2>2 DEF DispatchHandler, Runnable
  <2>. QED  BY <2>2, <2>3
<1>. QED  BY <1>1, <1>2 DEF DispatchHandler

LEMMA DispatchFailsType ==
    ASSUME QueueType, RingOwned, DispatchFails
    PROVE  QueueType' /\ RingOwned'
<1>1. CASE DropActivation
  BY <1>1, PopRing DEF DropActivation
<1>2. CASE NothingQueued
  BY <1>2 DEF NothingQueued, queueVars, QueueType, RingOwned, Live
<1>. QED  BY <1>1, <1>2 DEF DispatchFails

-----------------------------------------------------------------------------
(* The types and the ring's ownership are inductive together: a dispatch   *)
(* is well typed because the slot at the head owns an activation.          *)

RingInv == ThreadType /\ FramesType /\ EventsType /\ QueueType /\ RingOwned

LEMMA RingInvTypes == RingInv <=> TypeOK /\ RingOwned
BY DEF RingInv, ThreadType, FramesType, EventsType, QueueType, TypeOK

LEMMA NoEntriesType == NoEntries \in Tables
<1>1. NoEntries \in [{} -> Values]
  BY DEF NoEntries
<1>. QED  BY <1>1 DEF Tables

LEMMA RingInvInit == Init => RingInv
<1>. SUFFICES ASSUME Init PROVE RingInv
  OBVIOUS
<1>1. QueueType /\ RingOwned
  BY QueueAssumption DEF Init, QueueType, RingOwned, Live, Slots
<1>2. FramesType
  BY NoEntriesType, CallsAssumption DEF Init, FramesType
<1>3. EventsType
  <2>1. DOMAIN events = {}  BY DEF Init, NoEntries
  <2>2. events = [e \in DOMAIN events |-> events[e]]  BY DEF Init, NoEntries
  <2>. QED  BY <2>1, <2>2 DEF EventsType
<1>. QED  BY <1>1, <1>2, <1>3 DEF Init, RingInv, ThreadType

LEMMA ServingStepInv ==
    ASSUME RingInv, ServingStep
    PROVE  RingInv'
<1>. USE DEF RingInv
<1>1. CASE StepDispatch
  BY <1>1, DispatchHandlerType
     DEF StepDispatch, Succeed, ThreadType, FramesType, EventsType
<1>2. CASE StepIdle
  BY <1>2, DispatchFailsType DEF StepIdle, ThreadType, FramesType, EventsType
<1>3. CASE StepEndThread
  <2>1. QueueType' /\ RingOwned' /\ pc' \in Nat /\ halted' \in BOOLEAN
    <3>1. CASE DispatchHandler
      BY <3>1, DispatchHandlerType
    <3>2. CASE DispatchFails /\ halted' = TRUE /\ pc' = pc + 1
      BY <3>2, DispatchFailsType DEF ThreadType
    <3>. QED  BY <1>3, <3>1, <3>2 DEF StepEndThread
  <2>. QED  BY <1>3, <2>1 DEF StepEndThread, Succeed, ThreadType, FramesType, EventsType
<1>. QED  BY <1>1, <1>2, <1>3 DEF ServingStep

LEMMA StepTriggerInv ==
    ASSUME RingInv, StepTrigger
    PROVE  RingInv'
<1>. USE DEF RingInv
<1>1. ThreadType' /\ FramesType' /\ EventsType'
  BY DEF StepTrigger, Succeed, Fail, ThreadType, FramesType, EventsType
<1>2. CASE QueueFull
  BY <1>1, <1>2 DEF StepTrigger, queueVars, QueueType, RingOwned, Live
<1>3. CASE ~QueueFull
  <2>1. Instr.event \in EventNames
    BY FetchedInstr, OperandTypes DEF StepTrigger, Fetch
  <2>. QED  BY <1>1, <1>3, <2>1, EnqueueRing DEF StepTrigger, Activation
<1>. QED  BY <1>2, <1>3

(* A step that leaves the queue's variables alone leaves the ring alone.   *)
LEMMA QueueUnchanged ==
    ASSUME QueueType, RingOwned, UNCHANGED queueVars
    PROVE  QueueType' /\ RingOwned'
BY DEF queueVars, QueueType, RingOwned, Live

LEMMA PlainStepInv ==
    ASSUME RingInv, PlainStep
    PROVE  RingInv'
<1>. USE DEF RingInv
<1>1. QueueType' /\ RingOwned'
  BY QueueUnchanged DEF PlainStep, StepTruncated, StepHalt, StepReturn, StepCall,
     StepNative, StepStore, StepJump, StepFail, StepBind
<1>2. CASE StepTruncated
  BY <1>1, <1>2 DEF StepTruncated, ThreadType, FramesType, EventsType
<1>3. CASE StepHalt
  BY <1>1, <1>3 DEF StepHalt, Succeed, ThreadType, FramesType, EventsType
<1>4. CASE StepReturn
  <2>1. CASE calls = <<>>
    BY <1>1, <1>4, <2>1 DEF StepReturn, Fail, ThreadType, FramesType, EventsType
  <2>2. CASE calls # <<>>
    <3>1. Top.return_pc \in Nat
      BY <2>2, TopType DEF Frame
    <3>2. calls' \in Seq(Frame) /\ Len(calls') <= SCML_CALL_STACK_MAX
      BY <1>4, <2>2, CallsAssumption DEF StepReturn, FramesType
    <3>. QED
      BY <1>1, <1>4, <2>2, <3>1, <3>2
         DEF StepReturn, Succeed, ThreadType, FramesType, EventsType
  <2>. QED  BY <2>1, <2>2
<1>5. CASE StepCall
  <2>1. CASE Len(calls) >= SCML_CALL_STACK_MAX
    BY <1>1, <1>5, <2>1 DEF StepCall, Fail, ThreadType, FramesType, EventsType
  <2>2. CASE ~(Len(calls) >= SCML_CALL_STACK_MAX)
    <3>1. Instr.to \in Nat
      BY <1>5, FetchedInstr, OperandTypes DEF StepCall, Fetch
    <3>2. [return_pc |-> pc + 1, locals |-> NoEntries] \in Frame
      BY NoEntriesType DEF Frame, ThreadType
    <3>3. calls' \in Seq(Frame) /\ Len(calls') <= SCML_CALL_STACK_MAX
      BY <1>5, <2>2, <3>2, CallsAssumption DEF StepCall, FramesType
    <3>. QED
      BY <1>1, <1>5, <2>2, <3>1, <3>3
         DEF StepCall, Succeed, ThreadType, FramesType, EventsType
  <2>. QED  BY <2>1, <2>2
<1>6. CASE StepNative
  <2>1. FramesType'
    <3>1. ASSUME NEW v \in Values, SetVar(RETVAL, v)  PROVE FramesType'
      BY <3>1, SetVarType, NamesAssumption DEF Names
    <3>. QED  BY <1>6, <3>1 DEF StepNative, FramesType
  <2>. QED  BY <1>1, <1>6, <2>1 DEF StepNative, Succeed, Fail, ThreadType, EventsType
<1>7. CASE StepStore
  <2>1. Instr.name \in Names /\ Instr.value \in Values
    BY <1>7, FetchedInstr, OperandTypes DEF StepStore, Fetch
  <2>2. FramesType'
    BY <1>7, <2>1, SetVarType DEF StepStore
  <2>. QED  BY <1>1, <1>7, <2>2 DEF StepStore, ThreadType, EventsType
<1>8. CASE StepJump
  <2>1. Instr.op \in {"jmp", "if_eq"} => Instr.to \in Nat
    BY <1>8, FetchedInstr, OperandTypes DEF StepJump, Fetch
  <2>2. pc' \in Nat
    BY <1>8, <2>1 DEF StepJump, ThreadType
  <2>. QED
    BY <1>1, <1>8, <2>2 DEF StepJump, Succeed, ThreadType, FramesType, EventsType
<1>9. CASE StepFail
  BY <1>1, <1>9 DEF StepFail, Fail, ThreadType, FramesType, EventsType
<1>10. CASE StepBind
  <2>1. CASE CanBind(Instr.event)
    <3>1. Instr.event \in EventNames /\ Instr.to \in Nat
      BY <1>10, FetchedInstr, OperandTypes DEF StepBind, Fetch
    <3>2. EventsType'
      BY <1>10, <2>1, <3>1, BoundType DEF StepBind
    <3>. QED  BY <1>1, <1>10, <2>1, <3>2 DEF StepBind, Succeed, ThreadType, FramesType
  <2>2. CASE ~CanBind(Instr.event)
    BY <1>1, <1>10, <2>2 DEF StepBind, Fail, ThreadType, FramesType, EventsType
  <2>. QED  BY <2>1, <2>2
<1>. QED
  BY <1>2, <1>3, <1>4, <1>5, <1>6, <1>7, <1>8, <1>9, <1>10 DEF PlainStep

LEMMA ApiInv ==
    ASSUME RingInv,
           \/ \E program \in Programs : LoadFile(program)
           \/ \E e \in EventNames, h \in HostHandlers : BindEvent(e, h)
           \/ \E e \in EventNames : TriggerEvent(e)
           \/ ClearEvents
           \/ \E n \in Names, v \in Values : SetVariable(n, v)
    PROVE  RingInv'
<1>. USE DEF RingInv
<1>1. ASSUME NEW program \in Programs, LoadFile(program)  PROVE RingInv'
  BY <1>1, QueueUnchanged DEF LoadFile, ThreadType, FramesType, EventsType
<1>2. ASSUME NEW e \in EventNames, NEW h \in HostHandlers, BindEvent(e, h)
      PROVE  RingInv'
  <2>1. EventsType'
    BY <1>2, BoundType, HandlersAssumption DEF BindEvent
  <2>. QED
    BY <1>2, <2>1, QueueUnchanged DEF BindEvent, threadVars, ThreadType, FramesType
<1>3. ASSUME NEW e \in EventNames, TriggerEvent(e)  PROVE RingInv'
  BY <1>3, EnqueueRing
     DEF TriggerEvent, Activation, threadVars, ThreadType, FramesType, EventsType
<1>4. CASE ClearEvents
  <2>1. QueueType' /\ RingOwned'
    BY <1>4, QueueAssumption DEF ClearEvents, QueueType, RingOwned, Live, Slots
  <2>2. EventsType'
    <3>1. DOMAIN events' = {}  BY <1>4 DEF ClearEvents, NoEntries
    <3>2. events' = [e \in DOMAIN events' |-> events'[e]]
      BY <1>4 DEF ClearEvents, NoEntries
    <3>. QED  BY <3>1, <3>2 DEF EventsType
  <2>. QED  BY <1>4, <2>1, <2>2 DEF ClearEvents, threadVars, ThreadType, FramesType
<1>5. ASSUME NEW n \in Names, NEW v \in Values, SetVariable(n, v)  PROVE RingInv'
  BY <1>5, SetVarType, QueueUnchanged DEF SetVariable, ThreadType, EventsType
<1>. QED  BY <1>1, <1>2, <1>3, <1>4, <1>5

LEMMA RingInvNext == RingInv /\ [Next]_vars => RingInv'
<1>. SUFFICES ASSUME RingInv, [Next]_vars PROVE RingInv'
  OBVIOUS
<1>1. CASE Step
  BY <1>1, ServingStepInv, StepTriggerInv, PlainStepInv DEF Step
<1>2. CASE UNCHANGED vars
  BY <1>2, QueueUnchanged
     DEF vars, threadVars, RingInv, ThreadType, FramesType, EventsType
<1>. QED  BY <1>1, <1>2, ApiInv DEF Next

(* The VM's state has its types in every reachable state, whatever the     *)
(* program, the ring size and the order of API calls and steps.            *)
THEOREM TypeCorrect == Spec => []TypeOK
<1>1. RingInv => TypeOK
  BY RingInvTypes
<1>. QED  BY <1>1, RingInvInit, RingInvNext, PTL DEF Spec

(* The queue's slots between head and tail own an activation, and no other *)
(* slot does: nothing queued is overwritten, freed early or read late.     *)
THEOREM RingIsOwned == Spec => []RingOwned
<1>1. RingInv => RingOwned
  BY RingInvTypes
<1>. QED  BY <1>1, RingInvInit, RingInvNext, PTL DEF Spec

-----------------------------------------------------------------------------
(* Started activations stay runnable.                                      *)

StartedAt(s) ==
    /\ event_queue[s] # NoItem
    /\ event_queue[s].index > 0
    => event_queue[s].index < Len(HandlersOf(event_queue[s].event))

LEMMA StartedEverywhere == StartedStaysRunnable <=> \A s \in Slots : StartedAt(s)
BY DEF StartedStaysRunnable, StartedAt

(* The activations in the queue that have started name a bound handler.    *)
LEMMA StartedUnchanged ==
    ASSUME RingInv, StartedStaysRunnable, UNCHANGED <<events, queueVars>>
    PROVE  StartedStaysRunnable'
BY DEF StartedStaysRunnable, queueVars, HandlersOf

(* One more handler keeps them runnable: handlers are only appended.       *)
LEMMA StartedBound ==
    ASSUME RingInv, StartedStaysRunnable, UNCHANGED queueVars,
           NEW e \in EventNames, NEW h \in Nat, events' = Bound(e, h)
    PROVE  StartedStaysRunnable'
<1>1. ASSUME NEW n \in EventNames
      PROVE  /\ HandlersOf(n) \in Seq(Nat)
             /\ HandlersOf(n)' \in Seq(Nat)
             /\ Len(HandlersOf(n)) <= Len(HandlersOf(n)')
  <2>1. HandlersOf(n) \in Seq(Nat) /\ HandlersOf(e) \in Seq(Nat)
    BY DEF HandlersOf, RingInv, EventsType
  <2>2. HandlersOf(n)' = IF n = e THEN Append(HandlersOf(e), h) ELSE HandlersOf(n)
    BY DEF HandlersOf, Bound
  <2>. QED  BY <2>1, <2>2
<1>2. ASSUME NEW s \in Slots  PROVE StartedAt(s)'
  <2>1. event_queue' = event_queue
    BY DEF queueVars
  <2>2. CASE event_queue[s] # NoItem /\ event_queue[s].index > 0
    <3>1. event_queue[s] \in Activation
      BY <2>2 DEF RingInv, QueueType
    <3>2. PICK n \in EventNames : n = event_queue[s].event
      BY <3>1 DEF Activation
    <3>3. event_queue[s].index < Len(HandlersOf(n)) /\ event_queue[s].index \in Nat
      BY <2>2, <3>1, <3>2 DEF StartedStaysRunnable, Activation
    <3>4. /\ HandlersOf(n) \in Seq(Nat) /\ HandlersOf(n)' \in Seq(Nat)
          /\ Len(HandlersOf(n)) <= Len(HandlersOf(n)')
      BY <1>1
    <3>5. event_queue[s].index < Len(HandlersOf(n)')
      BY <3>3, <3>4
    <3>. QED  BY <2>1, <3>2, <3>5 DEF StartedAt, HandlersOf
  <2>3. CASE ~(event_queue[s] # NoItem /\ event_queue[s].index > 0)
    BY <2>1, <2>3 DEF StartedAt
  <2>. QED  BY <2>2, <2>3
<1>. QED  BY <1>2 DEF StartedStaysRunnable, StartedAt

LEMMA StartedEnqueue ==
    ASSUME RingInv, StartedStaysRunnable, UNCHANGED events,
           NEW e \in EventNames, Enqueue([event |-> e, index |-> 0])
    PROVE  StartedStaysRunnable'
<1>1. ASSUME NEW s \in Slots  PROVE StartedAt(s)'
  <2>1. event_queue'[s] = IF s = event_tail THEN [event |-> e, index |-> 0] ELSE event_queue[s]
    BY DEF RingInv, QueueType, Enqueue
  <2>2. CASE s = event_tail
    BY <2>1, <2>2 DEF StartedAt
  <2>3. CASE s # event_tail
    BY <2>1, <2>3, StartedEverywhere DEF StartedAt, HandlersOf
  <2>. QED  BY <2>2, <2>3
<1>. QED  BY <1>1 DEF StartedStaysRunnable, StartedAt

LEMMA StartedPop ==
    ASSUME RingInv, StartedStaysRunnable, UNCHANGED events, Pop
    PROVE  StartedStaysRunnable'
<1>1. ASSUME NEW s \in Slots  PROVE StartedAt(s)'
  <2>1. event_queue'[s] = IF s = event_head THEN NoItem ELSE event_queue[s]
    BY DEF RingInv, QueueType, Pop
  <2>2. CASE s = event_head
    BY <2>1, <2>2 DEF StartedAt
  <2>3. CASE s # event_head
    BY <2>1, <2>3, StartedEverywhere DEF StartedAt, HandlersOf
  <2>. QED  BY <2>2, <2>3
<1>. QED  BY <1>1 DEF StartedStaysRunnable, StartedAt

LEMMA StartedServing ==
    ASSUME RingInv, StartedStaysRunnable, ServingStep
    PROVE  StartedStaysRunnable'
<1>1. UNCHANGED events
  BY DEF ServingStep, StepDispatch, StepIdle, StepEndThread
<1>2. CASE DispatchHandler /\ HasMoreHandlers
  <2>. SUFFICES ASSUME NEW s \in Slots  PROVE StartedAt(s)'
    BY DEF StartedStaysRunnable, StartedAt
  <2>1. event_queue'[s] = IF s = event_tail THEN Continuation(Oldest)
                          ELSE IF s = event_head THEN NoItem ELSE event_queue[s]
    BY <1>2, ContinuationFits DEF RingInv, QueueType, DispatchHandler
  <2>2. CASE s = event_tail
    BY <1>1, <1>2, <2>1, <2>2 DEF HasMoreHandlers, Continuation, StartedAt, HandlersOf
  <2>3. CASE s = event_head /\ s # event_tail
    BY <2>1, <2>3 DEF StartedAt
  <2>4. CASE s # event_head /\ s # event_tail
    BY <1>1, <2>1, <2>4, StartedEverywhere DEF StartedAt, HandlersOf
  <2>. QED  BY <2>2, <2>3, <2>4
<1>3. CASE DispatchHandler /\ ~HasMoreHandlers
  BY <1>1, <1>3, StartedPop DEF DispatchHandler
<1>4. CASE DispatchFails
  BY <1>1, <1>4, StartedPop, StartedUnchanged
     DEF DispatchFails, DropActivation, NothingQueued
<1>. QED
  BY <1>2, <1>3, <1>4 DEF ServingStep, StepDispatch, StepIdle, StepEndThread

LEMMA StartedNext == RingInv /\ StartedStaysRunnable /\ [Next]_vars => StartedStaysRunnable'
<1>. SUFFICES ASSUME RingInv, StartedStaysRunnable, [Next]_vars
              PROVE  StartedStaysRunnable'
  OBVIOUS
<1>1. CASE ServingStep
  BY <1>1, StartedServing
<1>2. CASE StepTrigger
  <2>1. Instr.event \in EventNames
    BY <1>2, FetchedInstr, OperandTypes DEF StepTrigger, Fetch, RingInv
  <2>. QED  BY <1>2, <2>1, StartedEnqueue, StartedUnchanged DEF StepTrigger
<1>3. CASE PlainStep /\ ~StepBind
  <2>1. UNCHANGED <<events, queueVars>>
    BY <1>3 DEF PlainStep, StepTruncated, StepHalt, StepReturn, StepCall,
       StepNative, StepStore, StepJump, StepFail
  <2>. QED  BY <2>1, StartedUnchanged
<1>4. CASE StepBind
  <2>1. Instr.event \in EventNames /\ Instr.to \in Nat
    BY <1>4, FetchedInstr, OperandTypes DEF StepBind, Fetch, RingInv
  <2>. QED  BY <1>4, <2>1, StartedBound, StartedUnchanged DEF StepBind
<1>5. CASE \E e \in EventNames, h \in HostHandlers : BindEvent(e, h)
  BY <1>5, StartedBound, HandlersAssumption DEF BindEvent
<1>6. CASE \E e \in EventNames : TriggerEvent(e)
  BY <1>6, StartedEnqueue DEF TriggerEvent
<1>7. CASE ClearEvents
  BY <1>7 DEF ClearEvents, StartedStaysRunnable
<1>8. CASE \/ \E program \in Programs : LoadFile(program)
           \/ \E n \in Names, v \in Values : SetVariable(n, v)
  BY <1>8, StartedUnchanged DEF LoadFile, SetVariable
<1>9. CASE UNCHANGED vars
  BY <1>9, StartedUnchanged DEF vars
<1>. QED
  BY <1>1, <1>2, <1>3, <1>4, <1>5, <1>6, <1>7, <1>8, <1>9 DEF Next, Step, PlainStep

(* An activation that has started always finds its next handler bound.     *)
THEOREM StartedIsRunnable == Spec => []StartedStaysRunnable
<1>1. Init => StartedStaysRunnable
  BY DEF Init, StartedStaysRunnable
<1>. QED  BY <1>1, RingInvInit, RingInvNext, StartedNext, PTL DEF Spec

-----------------------------------------------------------------------------
(* The ring implements the abstract event delivery.                        *)

BoundCount == [e \in EventNames |-> Len(HandlersOf(e))]

(* The content of a ring as a function of its slots, head and tail.        *)
Dist(h, t) == (t + SCML_EVENT_QUEUE_MAX - h) % SCML_EVENT_QUEUE_MAX
At(h, k) == (h + k - 1) % SCML_EVENT_QUEUE_MAX
SlotContent == Activation \cup {NoItem}
Content(slots, h, t) == [k \in 1 .. Dist(h, t) |-> slots[At(h, k)]]

LEMMA QueueSeqIsContent ==
    /\ QueueSeq = Content(event_queue, event_head, event_tail)
    /\ QueueSeq' = Content(event_queue', event_head', event_tail')
BY DEF QueueSeq, Content, Queued, Dist, Slot, At

(* Lengths and positions without the modulus.                              *)
LEMMA DistValue ==
    ASSUME NEW h \in Slots, NEW t \in Slots
    PROVE  /\ Dist(h, t) = IF h <= t THEN t - h ELSE t + SCML_EVENT_QUEUE_MAX - h
           /\ Dist(h, t) \in Nat
           /\ Dist(h, t) < SCML_EVENT_QUEUE_MAX
<1>1. h \in Nat /\ t \in Nat /\ h < SCML_EVENT_QUEUE_MAX /\ t < SCML_EVENT_QUEUE_MAX
  BY QueueAssumption DEF Slots
<1>2. CASE h <= t
  BY <1>1, <1>2, QueueAssumption DEF Dist
<1>3. CASE ~(h <= t)
  BY <1>1, <1>3, QueueAssumption DEF Dist
<1>. QED  BY <1>2, <1>3

LEMMA AtValue ==
    ASSUME NEW h \in Slots, NEW k \in 1 .. SCML_EVENT_QUEUE_MAX
    PROVE  /\ At(h, k) = IF h + k - 1 < SCML_EVENT_QUEUE_MAX
                         THEN h + k - 1 ELSE h + k - 1 - SCML_EVENT_QUEUE_MAX
           /\ At(h, k) \in Slots
<1>1. /\ h \in Nat /\ h < SCML_EVENT_QUEUE_MAX
      /\ k \in Nat /\ 1 <= k /\ k <= SCML_EVENT_QUEUE_MAX
  BY QueueAssumption DEF Slots
<1>2. CASE h + k - 1 < SCML_EVENT_QUEUE_MAX
  BY <1>1, <1>2, QueueAssumption DEF At, Slots
<1>3. CASE ~(h + k - 1 < SCML_EVENT_QUEUE_MAX)
  BY <1>1, <1>3, QueueAssumption DEF At, Slots
<1>. QED  BY <1>2, <1>3

LEMMA ContentType ==
    ASSUME NEW slots \in [Slots -> SlotContent], NEW h \in Slots, NEW t \in Slots
    PROVE  /\ Content(slots, h, t) \in Seq(SlotContent)
           /\ Len(Content(slots, h, t)) = Dist(h, t)
           /\ \A k \in 1 .. Dist(h, t) : Content(slots, h, t)[k] = slots[At(h, k)]
<1>1. \A k \in 1 .. Dist(h, t) : slots[At(h, k)] \in SlotContent
  BY DistValue, AtValue, QueueAssumption
<1>. QED  BY <1>1, DistValue DEF Content

(* Two sequences with the same length and elements are equal.              *)
LEMMA SameSequences ==
    ASSUME NEW S, NEW s \in Seq(S), NEW t \in Seq(S), Len(s) = Len(t),
           \A k \in 1 .. Len(s) : s[k] = t[k]
    PROVE  s = t
OBVIOUS

(* Filling the slot at the tail of a ring that is not full appends.        *)
LEMMA ContentAppend ==
    ASSUME NEW slots \in [Slots -> SlotContent], NEW h \in Slots, NEW t \in Slots,
           NEW item \in SlotContent, Succ(t) # h
    PROVE  /\ Content([slots EXCEPT ![t] = item], h, Succ(t))
                  = Append(Content(slots, h, t), item)
           /\ Len(Content(slots, h, t)) < SCML_EVENT_QUEUE_MAX - 1
<1>. DEFINE n == Dist(h, t)
            filled == [slots EXCEPT ![t] = item]
            old == Content(slots, h, t)
            new == Content(filled, h, Succ(t))
<1>1. /\ h \in Nat /\ t \in Nat /\ h < SCML_EVENT_QUEUE_MAX /\ t < SCML_EVENT_QUEUE_MAX
      /\ Succ(t) = IF t + 1 = SCML_EVENT_QUEUE_MAX THEN 0 ELSE t + 1
      /\ Succ(t) \in Slots
  BY QueueAssumption, SuccValue DEF Slots
<1>2. Dist(h, Succ(t)) = n + 1 /\ n \in Nat /\ n < SCML_EVENT_QUEUE_MAX - 1
  <2>1. /\ n = IF h <= t THEN t - h ELSE t + SCML_EVENT_QUEUE_MAX - h
        /\ Dist(h, Succ(t)) = IF h <= Succ(t) THEN Succ(t) - h
                              ELSE Succ(t) + SCML_EVENT_QUEUE_MAX - h
    BY <1>1, DistValue
  <2>. QED  BY <1>1, <2>1, QueueAssumption
<1>3. /\ old \in Seq(SlotContent) /\ Len(old) = n
      /\ \A k \in 1 .. n : old[k] = slots[At(h, k)]
  BY ContentType
<1>4. /\ new \in Seq(SlotContent) /\ Len(new) = n + 1
      /\ \A k \in 1 .. n + 1 : new[k] = filled[At(h, k)]
  <2>1. filled \in [Slots -> SlotContent]
    OBVIOUS
  <2>. HIDE DEF filled
  <2>2. /\ new \in Seq(SlotContent) /\ Len(new) = Dist(h, Succ(t))
        /\ \A k \in 1 .. Dist(h, Succ(t)) : new[k] = filled[At(h, k)]
    <3>1. ASSUME NEW a \in Slots
          PROVE  /\ Content(filled, h, a) \in Seq(SlotContent)
                 /\ Len(Content(filled, h, a)) = Dist(h, a)
                 /\ \A k \in 1 .. Dist(h, a) : Content(filled, h, a)[k] = filled[At(h, k)]
      BY <2>1, ContentType
    <3>. QED  BY <1>1, <3>1
  <2>. HIDE DEF n, new
  <2>. QED  BY <1>2, <2>2
<1>5. ASSUME NEW k \in 1 .. n + 1
      PROVE  At(h, k) \in Slots /\ (At(h, k) = t <=> k = n + 1)
  <2>1. k \in 1 .. SCML_EVENT_QUEUE_MAX
    BY <1>2, QueueAssumption
  <2>2. /\ n = IF h <= t THEN t - h ELSE t + SCML_EVENT_QUEUE_MAX - h
        /\ At(h, k) = IF h + k - 1 < SCML_EVENT_QUEUE_MAX
                      THEN h + k - 1 ELSE h + k - 1 - SCML_EVENT_QUEUE_MAX
        /\ At(h, k) \in Slots
    BY <2>1, DistValue, AtValue
  <2>. QED  BY <1>1, <1>2, <2>2, QueueAssumption
<1>6. ASSUME NEW k \in 1 .. n + 1
      PROVE  new[k] = Append(old, item)[k]
  <2>1. CASE k = n + 1
    <3>1. new[k] = filled[t]
      BY <1>4, <1>5, <2>1
    <3>2. filled[t] = item
      OBVIOUS
    <3>. HIDE DEF n, filled, old, new
    <3>. QED  BY <1>3, <2>1, <3>1, <3>2
  <2>2. CASE k # n + 1
    <3>1. k \in 1 .. n
      BY <1>2, <2>2
    <3>2. new[k] = slots[At(h, k)]
      BY <1>4, <1>5, <2>2
    <3>. QED  BY <1>3, <3>1, <3>2
  <2>. QED  BY <2>1, <2>2
<1>7. Append(old, item) \in Seq(SlotContent) /\ Len(Append(old, item)) = n + 1
  BY <1>3
<1>. HIDE DEF n, filled, old, new
<1>8. new = Append(old, item)
  BY <1>4, <1>6, <1>7, SameSequences
<1>. QED  BY <1>2, <1>3, <1>8 DEF n, filled, old, new

(* Leaving the slot at the head of a ring that is not empty removes the    *)
(* first element.                                                          *)
LEMMA ContentTail ==
    ASSUME NEW slots \in [Slots -> SlotContent], NEW h \in Slots, NEW t \in Slots,
           NEW item \in SlotContent, h # t
    PROVE  /\ Content(slots, h, t) # <<>>
           /\ Head(Content(slots, h, t)) = slots[h]
           /\ Content([slots EXCEPT ![h] = item], Succ(h), t) = Tail(Content(slots, h, t))
<1>. DEFINE n == Dist(h, t)
            emptied == [slots EXCEPT ![h] = item]
            old == Content(slots, h, t)
            new == Content(emptied, Succ(h), t)
<1>1. /\ h \in Nat /\ t \in Nat /\ h < SCML_EVENT_QUEUE_MAX /\ t < SCML_EVENT_QUEUE_MAX
      /\ Succ(h) = IF h + 1 = SCML_EVENT_QUEUE_MAX THEN 0 ELSE h + 1
      /\ Succ(h) \in Slots
  BY QueueAssumption, SuccValue DEF Slots
<1>2. Dist(Succ(h), t) = n - 1 /\ n \in Nat /\ 1 <= n /\ n < SCML_EVENT_QUEUE_MAX
  <2>1. /\ n = IF h <= t THEN t - h ELSE t + SCML_EVENT_QUEUE_MAX - h
        /\ Dist(Succ(h), t) = IF Succ(h) <= t THEN t - Succ(h)
                              ELSE t + SCML_EVENT_QUEUE_MAX - Succ(h)
    BY <1>1, DistValue
  <2>. QED  BY <1>1, <2>1, QueueAssumption
<1>3. /\ old \in Seq(SlotContent) /\ Len(old) = n
      /\ \A k \in 1 .. n : old[k] = slots[At(h, k)]
  BY ContentType
<1>4. /\ new \in Seq(SlotContent) /\ Len(new) = n - 1
      /\ \A k \in 1 .. n - 1 : new[k] = emptied[At(Succ(h), k)]
  <2>1. emptied \in [Slots -> SlotContent]
    OBVIOUS
  <2>. HIDE DEF emptied
  <2>2. /\ new \in Seq(SlotContent) /\ Len(new) = Dist(Succ(h), t)
        /\ \A k \in 1 .. Dist(Succ(h), t) : new[k] = emptied[At(Succ(h), k)]
    <3>1. ASSUME NEW a \in Slots
          PROVE  /\ Content(emptied, a, t) \in Seq(SlotContent)
                 /\ Len(Content(emptied, a, t)) = Dist(a, t)
                 /\ \A k \in 1 .. Dist(a, t) : Content(emptied, a, t)[k] = emptied[At(a, k)]
      BY <2>1, ContentType
    <3>. QED  BY <1>1, <3>1
  <2>. HIDE DEF n, new
  <2>. QED  BY <1>2, <2>2
<1>5. At(h, 1) = h
  BY <1>1, AtValue, QueueAssumption
<1>6. ASSUME NEW k \in 1 .. n - 1
      PROVE  At(Succ(h), k) = At(h, k + 1) /\ At(h, k + 1) \in Slots /\ At(h, k + 1) # h
  <2>1. k \in 1 .. SCML_EVENT_QUEUE_MAX /\ k + 1 \in 1 .. SCML_EVENT_QUEUE_MAX
    BY <1>2, QueueAssumption
  <2>2. /\ At(h, k + 1) = IF h + (k + 1) - 1 < SCML_EVENT_QUEUE_MAX
                          THEN h + (k + 1) - 1 ELSE h + (k + 1) - 1 - SCML_EVENT_QUEUE_MAX
        /\ At(h, k + 1) \in Slots
    BY <2>1, AtValue
  <2>3. At(Succ(h), k) = IF Succ(h) + k - 1 < SCML_EVENT_QUEUE_MAX
                         THEN Succ(h) + k - 1 ELSE Succ(h) + k - 1 - SCML_EVENT_QUEUE_MAX
    BY <1>1, <2>1, AtValue
  <2>. QED  BY <1>1, <1>2, <2>2, <2>3, QueueAssumption
<1>7. old # <<>> /\ Head(old) = slots[h]
  BY <1>2, <1>3, <1>5
<1>8. Tail(old) \in Seq(SlotContent) /\ Len(Tail(old)) = n - 1
  BY <1>2, <1>3
<1>9. ASSUME NEW k \in 1 .. n - 1
      PROVE  new[k] = Tail(old)[k]
  <2>1. new[k] = slots[At(h, k + 1)]
    BY <1>4, <1>6
  <2>2. k + 1 \in 1 .. n
    BY <1>2
  <2>3. old[k + 1] = slots[At(h, k + 1)]
    BY <1>3, <2>2
  <2>4. Tail(old)[k] = old[k + 1]
    BY <1>2, <1>3, <1>8
  <2>. QED  BY <2>1, <2>3, <2>4
<1>. HIDE DEF n, emptied, old, new
<1>10. new = Tail(old)
  BY <1>4, <1>8, <1>9, SameSequences
<1>. QED  BY <1>7, <1>10 DEF n, emptied, old, new

(* What the operations of the ring do to its content.                      *)
LEMMA EnqueueAppends ==
    ASSUME QueueType, ~QueueFull, NEW item \in Activation, Enqueue(item)
    PROVE  /\ QueueSeq' = Append(QueueSeq, item)
           /\ Len(QueueSeq) < SCML_EVENT_QUEUE_MAX - 1
<1>1. /\ event_queue \in [Slots -> SlotContent] /\ event_head \in Slots /\ event_tail \in Slots
      /\ item \in SlotContent /\ Succ(event_tail) # event_head
  BY DEF QueueType, QueueFull, SlotContent
<1>2. /\ event_queue' = [event_queue EXCEPT ![event_tail] = item]
      /\ event_tail' = Succ(event_tail) /\ event_head' = event_head
  BY DEF Enqueue
<1>3. /\ Content([event_queue EXCEPT ![event_tail] = item], event_head, Succ(event_tail))
             = Append(Content(event_queue, event_head, event_tail), item)
      /\ Len(Content(event_queue, event_head, event_tail)) < SCML_EVENT_QUEUE_MAX - 1
  BY <1>1, ContentAppend
<1>. QED  BY <1>2, <1>3, QueueSeqIsContent

LEMMA PopRemoves ==
    ASSUME QueueType, ~QueueEmpty, Pop
    PROVE  /\ QueueSeq # <<>>
           /\ Head(QueueSeq) = Oldest
           /\ QueueSeq' = Tail(QueueSeq)
<1>1. /\ event_queue \in [Slots -> SlotContent] /\ event_head \in Slots /\ event_tail \in Slots
      /\ NoItem \in SlotContent /\ event_head # event_tail
  BY DEF QueueType, QueueEmpty, SlotContent
<1>2. /\ event_queue' = [event_queue EXCEPT ![event_head] = NoItem]
      /\ event_head' = Succ(event_head) /\ event_tail' = event_tail
  BY DEF Pop
<1>3. /\ Content(event_queue, event_head, event_tail) # <<>>
      /\ Head(Content(event_queue, event_head, event_tail)) = event_queue[event_head]
      /\ Content([event_queue EXCEPT ![event_head] = NoItem], Succ(event_head), event_tail)
             = Tail(Content(event_queue, event_head, event_tail))
  BY <1>1, ContentTail, Zenon
<1>. QED  BY <1>2, <1>3, QueueSeqIsContent DEF Oldest

LEMMA PopAndContinueRotates ==
    ASSUME QueueType, RingOwned, ~QueueEmpty, PopAndContinue
    PROVE  /\ QueueSeq # <<>>
           /\ Head(QueueSeq) = Oldest
           /\ QueueSeq' = Append(Tail(QueueSeq), Continuation(Oldest))
<1>. DEFINE popped == [event_queue EXCEPT ![event_head] = NoItem]
            next == Continuation(Oldest)
<1>1. /\ event_queue \in [Slots -> SlotContent] /\ event_head \in Slots /\ event_tail \in Slots
      /\ NoItem \in SlotContent /\ event_head # event_tail
  BY DEF QueueType, QueueEmpty, SlotContent
<1>2. next \in SlotContent
  BY OldestType DEF Continuation, Activation, SlotContent
<1>3. Succ(event_head) \in Slots /\ Succ(event_tail) # Succ(event_head)
  <2>1. /\ event_head \in Nat /\ event_tail \in Nat
        /\ event_head < SCML_EVENT_QUEUE_MAX /\ event_tail < SCML_EVENT_QUEUE_MAX
    BY <1>1, QueueAssumption DEF Slots
  <2>. QED  BY <1>1, <2>1, SuccValue, QueueAssumption
<1>4. /\ event_queue' = [popped EXCEPT ![event_tail] = next]
      /\ event_head' = Succ(event_head) /\ event_tail' = Succ(event_tail)
  BY <1>1, <1>3 DEF PopAndContinue
<1>5. popped \in [Slots -> SlotContent]
  BY <1>1
<1>6. /\ Content(event_queue, event_head, event_tail) # <<>>
      /\ Head(Content(event_queue, event_head, event_tail)) = event_queue[event_head]
      /\ Content(popped, Succ(event_head), event_tail)
             = Tail(Content(event_queue, event_head, event_tail))
  BY <1>1, ContentTail, Zenon
<1>. HIDE DEF popped, next
<1>7. Content([popped EXCEPT ![event_tail] = next], Succ(event_head), Succ(event_tail))
          = Append(Content(popped, Succ(event_head), event_tail), next)
  BY <1>1, <1>2, <1>3, <1>5, ContentAppend, Zenon
<1>. QED  BY <1>4, <1>6, <1>7, QueueSeqIsContent DEF Oldest, next

(* Steps that leave both alone, and the operations on the bindings.        *)
LEMMA DeliveryStutters ==
    ASSUME UNCHANGED <<events, queueVars>>
    PROVE  UNCHANGED Delivery!vars
BY QueueSeqIsContent DEF Delivery!vars, HandlersOf, queueVars

LEMMA DeliveryBind ==
    ASSUME EventsType, NEW e \in EventNames, NEW h \in Nat,
           events' = Bound(e, h), UNCHANGED queueVars
    PROVE  Delivery!Bind(e)
<1>1. QueueSeq' = QueueSeq
  BY QueueSeqIsContent DEF queueVars
<1>2. ASSUME NEW n \in EventNames
      PROVE  Len(HandlersOf(n)') = IF n = e THEN Len(HandlersOf(e)) + 1 ELSE Len(HandlersOf(n))
  <2>1. HandlersOf(e) \in Seq(Nat)
    BY DEF EventsType, HandlersOf
  <2>2. HandlersOf(n)' = IF n = e THEN Append(HandlersOf(e), h) ELSE HandlersOf(n)
    BY DEF Bound, HandlersOf
  <2>. QED  BY <2>1, <2>2
<1>. QED  BY <1>1, <1>2 DEF Delivery!Bind

LEMMA DeliveryTrigger ==
    ASSUME QueueType, ~QueueFull, NEW e \in EventNames,
           Enqueue([event |-> e, index |-> 0]), UNCHANGED events
    PROVE  Delivery!Trigger(e)
<1>1. [event |-> e, index |-> 0] \in Activation
  BY DEF Activation
<1>. QED  BY <1>1, EnqueueAppends DEF Delivery!Trigger, HandlersOf

LEMMA DeliveryServes ==
    ASSUME QueueType, EventsType, RingOwned, ServingStep
    PROVE  Delivery!Finish \/ Delivery!Continue \/ UNCHANGED Delivery!vars
<1>1. UNCHANGED events
  BY DEF ServingStep, StepDispatch, StepIdle, StepEndThread
<1>2. [n \in EventNames |-> Len(HandlersOf(n))]' = [n \in EventNames |-> Len(HandlersOf(n))]
  BY <1>1 DEF HandlersOf
<1>3. \/ DispatchHandler \/ DropActivation \/ NothingQueued
  BY DEF ServingStep, StepDispatch, StepIdle, StepEndThread, DispatchFails
<1>4. CASE DispatchHandler \/ DropActivation
  <2>1. ~QueueEmpty /\ Oldest \in Activation
    BY <1>4, OldestType DEF DispatchHandler, DropActivation
  <2>2. /\ Oldest.event \in EventNames /\ Oldest.index \in Nat
        /\ HandlersOf(Oldest.event) \in Seq(Nat)
    BY <2>1 DEF Activation, HandlersOf, EventsType
  <2>3. CASE Pop /\ ~HasMoreHandlers
    <3>1. QueueSeq # <<>> /\ Head(QueueSeq) = Oldest /\ QueueSeq' = Tail(QueueSeq)
      BY <2>1, <2>3, PopRemoves
    <3>2. Oldest.index + 1 >= Len(HandlersOf(Oldest.event))
      BY <2>2, <2>3 DEF HasMoreHandlers
    <3>. QED  BY <1>2, <2>2, <3>1, <3>2 DEF Delivery!Finish
  <2>4. CASE PopAndContinue /\ HasMoreHandlers
    <3>1. /\ QueueSeq # <<>> /\ Head(QueueSeq) = Oldest
          /\ QueueSeq' = Append(Tail(QueueSeq), Continuation(Oldest))
      BY <2>1, <2>4, PopAndContinueRotates
    <3>2. Oldest.index + 1 < Len(HandlersOf(Oldest.event))
      BY <2>4 DEF HasMoreHandlers
    <3>. QED  BY <1>2, <2>2, <3>1, <3>2 DEF Delivery!Continue, Continuation
  <2>5. DropActivation => Pop /\ ~HasMoreHandlers
    BY <2>2 DEF DropActivation, Runnable, HasMoreHandlers
  <2>. QED  BY <1>4, <2>3, <2>4, <2>5 DEF DispatchHandler
<1>5. CASE NothingQueued
  BY <1>1, <1>5, DeliveryStutters DEF NothingQueued
<1>. QED  BY <1>3, <1>4, <1>5

LEMMA DeliveryInit == Init => Delivery!Init
<1>1. Init => QueueSeq = <<>>
  <2>1. 0 \in Slots
    BY QueueAssumption DEF Slots
  <2>2. Dist(0, 0) = 0
    BY <2>1, DistValue
  <2>. QED  BY <2>2, QueueSeqIsContent DEF Init, Content
<1>. QED  BY <1>1 DEF Init, Delivery!Init, HandlersOf, NoEntries

LEMMA DeliveryClear ==
    ASSUME ClearEvents
    PROVE  Delivery!Clear
<1>1. 0 \in Slots
  BY QueueAssumption DEF Slots
<1>2. Dist(0, 0) = 0
  BY <1>1, DistValue
<1>3. QueueSeq' = <<>>
  BY <1>2, QueueSeqIsContent DEF ClearEvents, Content
<1>. QED  BY <1>3 DEF ClearEvents, Delivery!Clear, HandlersOf, NoEntries

(* Every step is a step of the abstract delivery, or leaves it alone.      *)
LEMMA DeliveryNext == RingInv /\ [Next]_vars => [Delivery!Next]_(Delivery!vars)
<1>. SUFFICES ASSUME RingInv, [Next]_vars
              PROVE  [Delivery!Next]_(Delivery!vars)
  OBVIOUS
<1>. USE DEF RingInv
<1>1. CASE ServingStep
  BY <1>1, DeliveryServes DEF Delivery!Next
<1>2. CASE StepTrigger
  <2>1. Instr.event \in EventNames
    BY <1>2, FetchedInstr, OperandTypes DEF StepTrigger, Fetch
  <2>2. CASE QueueFull
    BY <1>2, <2>2, DeliveryStutters DEF StepTrigger
  <2>3. CASE ~QueueFull
    BY <1>2, <2>1, <2>3, DeliveryTrigger DEF StepTrigger, Delivery!Next
  <2>. QED  BY <2>2, <2>3
<1>3. CASE StepBind
  <2>1. Instr.event \in EventNames /\ Instr.to \in Nat
    BY <1>3, FetchedInstr, OperandTypes DEF StepBind, Fetch
  <2>2. CASE CanBind(Instr.event)
    BY <1>3, <2>1, <2>2, DeliveryBind DEF StepBind, Delivery!Next
  <2>3. CASE ~CanBind(Instr.event)
    BY <1>3, <2>3, DeliveryStutters DEF StepBind
  <2>. QED  BY <2>2, <2>3
<1>4. CASE PlainStep /\ ~StepBind
  BY <1>4, DeliveryStutters
     DEF PlainStep, StepTruncated, StepHalt, StepReturn, StepCall, StepNative,
         StepStore, StepJump, StepFail
<1>5. ASSUME NEW e \in EventNames, NEW h \in HostHandlers, BindEvent(e, h)
      PROVE  Delivery!Bind(e)
  BY <1>5, DeliveryBind, HandlersAssumption DEF BindEvent
<1>6. ASSUME NEW e \in EventNames, TriggerEvent(e)
      PROVE  Delivery!Trigger(e)
  BY <1>6, DeliveryTrigger DEF TriggerEvent
<1>7. CASE \/ \E program \in Programs : LoadFile(program)
           \/ \E n \in Names, v \in Values : SetVariable(n, v)
           \/ UNCHANGED vars
  BY <1>7, DeliveryStutters DEF LoadFile, SetVariable, vars
<1>. QED
  BY <1>1, <1>2, <1>3, <1>4, <1>5, <1>6, <1>7, DeliveryClear DEF Next, Step, Delivery!Next

(* The VM's queue and bindings implement the abstract event delivery:      *)
(* nothing is lost, duplicated or overtaken, and no continuation refused.  *)
THEOREM DeliveryIsImplemented == Spec => ImplementsDelivery
<1>. QED
  BY DeliveryInit, DeliveryNext, RingInvInit, RingInvNext, PTL
     DEF Spec, ImplementsDelivery, Delivery!Spec

(* A failed step skips its instruction and keeps everything queued.        *)
THEOREM FailedStepIsSkipped == Spec => FailedStepSkips
<1>1. RingInv /\ [Next]_vars
        => [rc' = -1 /\ Step => /\ pc' > pc \/ halted'
                                /\ UNCHANGED <<calls, events, queueVars>>]_vars
  <2>. SUFFICES ASSUME RingInv, Step, rc' = -1
                PROVE  (pc' > pc \/ halted') /\ UNCHANGED <<calls, events, queueVars>>
    OBVIOUS
  <2>1. pc + 1 > pc
    BY DEF RingInv, ThreadType
  <2>2. CASE ServingStep
    BY <2>2 DEF ServingStep, StepDispatch, StepIdle, StepEndThread, Succeed
  <2>3. CASE StepTrigger
    BY <2>1, <2>3 DEF StepTrigger, Succeed, Fail
  <2>4. CASE StepStore
    BY <2>1, <2>4 DEF StepStore, SetVar
  <2>5. CASE StepNative
    BY <2>1, <2>5 DEF StepNative, Succeed, Fail
  <2>6. CASE PlainStep /\ ~StepStore /\ ~StepNative
    BY <2>1, <2>6 DEF PlainStep, StepTruncated, StepHalt, StepReturn, StepCall,
       StepJump, StepFail, StepBind, Succeed, Fail
  <2>. QED  BY <2>2, <2>3, <2>4, <2>5, <2>6 DEF Step, PlainStep
<1>. QED  BY <1>1, RingInvInit, RingInvNext, PTL DEF Spec, FailedStepSkips

=============================================================================
