--------------------------- MODULE EventHistory_proof ---------------------------
(***************************************************************************)
(* Proofs about EventHistory: what becomes of a trigger, for every         *)
(* program, every ring size, every number of handlers and of triggers.     *)
(***************************************************************************)
EXTENDS EventHistory, ScmlVM_proof, FiniteSetTheorems, SequenceTheorems

-----------------------------------------------------------------------------
(* The history variables observe a VM that does what ScmlVM says.          *)

LEMMA HistStepsVM == [HistNext]_hvars => [Next]_vars
<1>1. HistStep => Next
  BY DEF HistStep, Step, Next
<1>2. HistNext /\ ~HistStep => Next
  BY DEF HistNext, Next
<1>. QED  BY <1>1, <1>2 DEF hvars

(* With its history the VM is still the VM.                                *)
THEOREM HistoryUsesVM == HistSpec => Spec
<1>1. HistInit => Init
  BY DEF HistInit
<1>. QED  BY <1>1, HistStepsVM, PTL DEF HistSpec, Spec

VMInv == RingInv /\ StartedStaysRunnable

LEMMA VMInvNext == VMInv /\ [HistNext]_hvars => VMInv'
BY HistStepsVM, RingInvNext, StartedNext DEF VMInv

LEMMA VMInvInit == HistInit => VMInv
BY RingInvInit DEF HistInit, VMInv, Init, StartedStaysRunnable

-----------------------------------------------------------------------------
(* How often a trigger occurs in the log.                                  *)

Entry(n) == [id : 1 .. n, index : Nat, of : Nat]

Starts(l, id) == Cardinality({k \in DOMAIN l : l[k].id = id})

LEMMA StartsNat ==
    ASSUME NEW S, NEW l \in Seq(S), NEW id
    PROVE  /\ IsFiniteSet({k \in DOMAIN l : l[k].id = id})
           /\ Starts(l, id) \in Nat
           /\ Starts(l, id) = 0 <=> \A k \in DOMAIN l : l[k].id # id
<1>. DEFINE K == {k \in DOMAIN l : l[k].id = id}
<1>1. IsFiniteSet(1 .. Len(l)) /\ K \in SUBSET (1 .. Len(l))
  BY FS_Interval
<1>2. IsFiniteSet(K)
  BY <1>1, FS_Subset
<1>3. Cardinality(K) \in Nat /\ (Cardinality(K) = 0 <=> K = {})
  BY <1>2, FS_CardinalityType, FS_EmptySet
<1>. QED  BY <1>2, <1>3 DEF Starts

LEMMA StartsAppend ==
    ASSUME NEW S, NEW l \in Seq(S), NEW r \in S, NEW id
    PROVE  Starts(Append(l, r), id) = IF r.id = id THEN Starts(l, id) + 1 ELSE Starts(l, id)
<1>. DEFINE m == Append(l, r)
            K == {k \in DOMAIN l : l[k].id = id}
            M == {k \in DOMAIN m : m[k].id = id}
<1>1. /\ DOMAIN m = DOMAIN l \cup {Len(l) + 1} /\ m[Len(l) + 1] = r
      /\ Len(l) + 1 \notin DOMAIN l
      /\ \A k \in DOMAIN l : m[k] = l[k]
  OBVIOUS
<1>2. IsFiniteSet(K)
  BY StartsNat
<1>3. CASE r.id = id
  <2>1. M = K \cup {Len(l) + 1} /\ Len(l) + 1 \notin K
    BY <1>1, <1>3
  <2>. HIDE DEF m, K, M
  <2>2. Cardinality(M) = Cardinality(K) + 1
    BY <1>2, <2>1, FS_AddElement
  <2>. QED  BY <1>3, <2>2 DEF Starts, m, K, M
<1>4. CASE r.id # id
  <2>1. M = K
    BY <1>1, <1>4
  <2>. QED  BY <1>4, <2>1 DEF Starts
<1>. QED  BY <1>3, <1>4

-----------------------------------------------------------------------------
(* The inductive invariant.                                                *)

HistTypes ==
    /\ triggered \in Nat
    /\ owner \in [Slots -> 0 .. triggered]
    /\ \A s \in Slots : owner[s] # 0 <=> event_queue[s] # NoItem
    /\ log \in Seq(Entry(triggered))
    /\ dropped \subseteq 1 .. triggered
    /\ cleared \subseteq 1 .. triggered
    /\ loads \in 0 .. MaxLoads

(* A queued activation stands at the handler whose number is the number of *)
(* handlers already started for its trigger.                               *)
IndexCounts == \A s \in Slots : owner[s] # 0 => event_queue[s].index = Starts(log, owner[s])

(* What was dropped has left the queue.                                    *)
DroppedGone == \A s \in Slots : owner[s] \notin dropped

(* The activations that have not started yet wait in the order in which    *)
(* they were triggered, with continuations of others between them.         *)
FreshInOrder ==
    \A s, t \in Slots :
        /\ owner[s] # 0 /\ owner[t] # 0 /\ owner[s] < owner[t]
        /\ event_queue[s].index = 0 /\ event_queue[t].index = 0
        => Dist(event_head, s) < Dist(event_head, t)

QueueHistory == OneActivationPerTrigger /\ IndexCounts /\ DroppedGone /\ FreshInOrder

LogHistory == NothingLost /\ HandlersInOrder /\ FirstComeFirstServed

HistInv == HistTypes /\ QueueHistory /\ LogHistory

LEMMA HistTypesOK == RingInv /\ HistTypes => HistTypeOK
<1>. SUFFICES ASSUME RingInv, HistTypes PROVE HistTypeOK
  OBVIOUS
<1>1. \A s \in Slots : owner[s] # 0 <=> Live(s)
  BY DEF HistTypes, RingInv, RingOwned
<1>. QED  BY <1>1 DEF HistTypes, HistTypeOK, Entry

(* Queued at slot s.                                                       *)
LEMMA WaitingAt == \A id : id \in Waiting <=> id # 0 /\ \E s \in Slots : owner[s] = id
BY DEF Waiting

-----------------------------------------------------------------------------
(* Who owns the slots after an operation of the ring.                      *)

LEMMA RingEnds ==
    ASSUME RingInv, HistTypes
    PROVE  /\ event_head \in Slots /\ event_tail \in Slots
           /\ event_queue[event_tail] = NoItem /\ owner[event_tail] = 0
           /\ ~QueueEmpty => /\ Oldest \in Activation /\ Oldest # NoItem
                             /\ event_head # event_tail
                             /\ owner[event_head] \in 1 .. triggered
<1>1. event_head \in Slots /\ event_tail \in Slots
  BY DEF RingInv, QueueType
<1>2. ~Live(event_tail)
  BY <1>1, QueueAssumption DEF Live, Slots
<1>3. event_queue[event_tail] = NoItem /\ owner[event_tail] = 0
  BY <1>1, <1>2 DEF RingInv, RingOwned, HistTypes
<1>4. ASSUME ~QueueEmpty
      PROVE  /\ Oldest \in Activation /\ Oldest # NoItem
             /\ event_head # event_tail
             /\ owner[event_head] \in 1 .. triggered
  <2>1. Oldest \in Activation /\ Oldest # NoItem
    BY <1>4, OldestType, NoItemAssumption DEF RingInv, Activation
  <2>2. owner[event_head] # 0 /\ owner[event_head] \in 0 .. triggered
    BY <1>1, <2>1 DEF HistTypes, Oldest
  <2>. QED  BY <1>4, <2>1, <2>2 DEF QueueEmpty, HistTypes
<1>. QED  BY <1>1, <1>3, <1>4

LEMMA EnqueueOwners ==
    ASSUME RingInv, HistTypes, NEW item \in Activation, Enqueue(item), NEW id, OwnedBy(id)
    PROVE  \A s \in Slots :
               /\ event_queue'[s] = IF s = event_tail THEN item ELSE event_queue[s]
               /\ owner'[s] = IF s = event_tail THEN id ELSE owner[s]
<1>1. item # NoItem
  BY NoItemAssumption DEF Activation
<1>2. \A s \in Slots : event_queue'[s] = IF s = event_tail THEN item ELSE event_queue[s]
  BY DEF RingInv, QueueType, Enqueue
<1>. QED  BY <1>1, <1>2, RingEnds DEF OwnedBy, HistTypes

LEMMA PopOwners ==
    ASSUME RingInv, HistTypes, Pop, NEW id, OwnedBy(id)
    PROVE  \A s \in Slots :
               /\ event_queue'[s] = IF s = event_head THEN NoItem ELSE event_queue[s]
               /\ owner'[s] = IF s = event_head THEN 0 ELSE owner[s]
<1>1. \A s \in Slots : event_queue'[s] = IF s = event_head THEN NoItem ELSE event_queue[s]
  BY DEF RingInv, QueueType, Pop
<1>. QED  BY <1>1, RingEnds DEF OwnedBy, HistTypes

LEMMA ContinueOwners ==
    ASSUME RingInv, HistTypes, ~QueueEmpty, PopAndContinue, NEW id, OwnedBy(id)
    PROVE  \A s \in Slots :
               /\ event_queue'[s] = IF s = event_tail THEN Continuation(Oldest)
                                    ELSE IF s = event_head THEN NoItem ELSE event_queue[s]
               /\ owner'[s] = IF s = event_tail THEN id
                              ELSE IF s = event_head THEN 0 ELSE owner[s]
<1>1. Continuation(Oldest) \in Activation /\ Continuation(Oldest) # NoItem
  BY RingEnds, NoItemAssumption DEF Activation, Continuation
<1>2. \A s \in Slots : event_queue'[s] = IF s = event_tail THEN Continuation(Oldest)
                                    ELSE IF s = event_head THEN NoItem ELSE event_queue[s]
  BY ContinuationFits DEF RingInv, QueueType
<1>. QED  BY <1>1, <1>2, RingEnds DEF OwnedBy, HistTypes

(* Every step of the head brings the other slots one nearer.               *)
LEMMA DistAfterPop ==
    ASSUME NEW h \in Slots, NEW s \in Slots, s # h
    PROVE  Dist(Succ(h), s) = Dist(h, s) - 1
<1>1. /\ h \in Nat /\ s \in Nat /\ h < SCML_EVENT_QUEUE_MAX /\ s < SCML_EVENT_QUEUE_MAX
      /\ Succ(h) = IF h + 1 = SCML_EVENT_QUEUE_MAX THEN 0 ELSE h + 1
      /\ Succ(h) \in Slots
  BY QueueAssumption, SuccValue DEF Slots
<1>2. /\ Dist(h, s) = IF h <= s THEN s - h ELSE s + SCML_EVENT_QUEUE_MAX - h
      /\ Dist(Succ(h), s) = IF Succ(h) <= s THEN s - Succ(h)
                            ELSE s + SCML_EVENT_QUEUE_MAX - Succ(h)
  BY <1>1, DistValue
<1>. QED  BY <1>1, <1>2, QueueAssumption

(* What is queued is nearer to the head than the tail is.                  *)
LEMMA LiveBeforeTail ==
    ASSUME NEW s \in Slots, event_head \in Slots, event_tail \in Slots, Live(s)
    PROVE  Dist(event_head, s) < Dist(event_head, event_tail)
<1>1. /\ event_head \in Nat /\ event_tail \in Nat /\ s \in Nat
      /\ event_head < SCML_EVENT_QUEUE_MAX /\ event_tail < SCML_EVENT_QUEUE_MAX
      /\ s < SCML_EVENT_QUEUE_MAX
  BY QueueAssumption DEF Slots
<1>2. /\ Dist(event_head, s) = IF event_head <= s THEN s - event_head
                               ELSE s + SCML_EVENT_QUEUE_MAX - event_head
      /\ Dist(event_head, event_tail) =
             IF event_head <= event_tail THEN event_tail - event_head
             ELSE event_tail + SCML_EVENT_QUEUE_MAX - event_head
  BY DistValue
<1>. QED  BY <1>1, <1>2, QueueAssumption DEF Live

-----------------------------------------------------------------------------
(* The log.                                                                *)

\* A handler of the oldest activation starts.
Starting(r) ==
    /\ ~QueueEmpty
    /\ r.id = owner[event_head] /\ r.index = Oldest.index
    /\ r \in Entry(triggered)
    /\ log' = Append(log, r)
    /\ UNCHANGED <<triggered, dropped, cleared, loads>>

LEMMA StartingLog ==
    ASSUME HistTypes, NEW r, Starting(r)
    PROVE  /\ log' \in Seq(Entry(triggered)) /\ Len(log') = Len(log) + 1
           /\ DOMAIN log' = DOMAIN log \cup {Len(log) + 1}
           /\ \A k \in DOMAIN log : log'[k] = log[k]
           /\ log'[Len(log) + 1] = r
           /\ Len(log) \in Nat /\ DOMAIN log = 1 .. Len(log)
           /\ \A id : Starts(log', id) =
                 IF r.id = id THEN Starts(log, id) + 1 ELSE Starts(log, id)
<1>1. log \in Seq(Entry(triggered)) /\ r \in Entry(triggered) /\ log' = Append(log, r)
  BY DEF HistTypes, Starting
<1>2. \A id : Starts(log', id) = IF r.id = id THEN Starts(log, id) + 1 ELSE Starts(log, id)
  BY <1>1, StartsAppend
<1>. QED  BY <1>1, <1>2

(* The handlers of the trigger that were started before are those before   *)
(* the one that starts now.                                                *)
LEMMA StartingInOrder ==
    ASSUME RingInv, HistTypes, IndexCounts, HandlersInOrder, NEW r, Starting(r)
    PROVE  HandlersInOrder'
<1>1. r.index = Starts(log, r.id)
  BY RingEnds DEF IndexCounts, Starting, Oldest
<1>2. ASSUME NEW k \in DOMAIN log'
      PROVE  log'[k].index = Cardinality({j \in 1 .. k - 1 : log'[j].id = log'[k].id})
  <2>1. CASE k \in DOMAIN log
    <3>1. \A j \in 1 .. k - 1 : j \in DOMAIN log /\ log'[j] = log[j]
      BY <2>1, StartingLog
    <3>2. {j \in 1 .. k - 1 : log'[j].id = log'[k].id} = {j \in 1 .. k - 1 : log[j].id = log[k].id}
      BY <2>1, <3>1, StartingLog
    <3>. QED  BY <2>1, <3>2, StartingLog DEF HandlersInOrder
  <2>2. CASE k = Len(log) + 1
    <3>1. 1 .. k - 1 = DOMAIN log
      BY <2>2, StartingLog
    <3>2. {j \in 1 .. k - 1 : log'[j].id = log'[k].id} = {j \in DOMAIN log : log[j].id = r.id}
      BY <2>2, <3>1, StartingLog
    <3>. QED  BY <1>1, <2>2, <3>2, StartingLog DEF Starts
  <2>. QED  BY <2>1, <2>2, StartingLog
<1>. QED  BY <1>2 DEF HandlersInOrder

(* All the triggers before the one whose first handler starts now were     *)
(* served, dropped or cleared.                                             *)
LEMMA StartingFirst ==
    ASSUME RingInv, HistInv, NEW r, Starting(r)
    PROVE  FirstComeFirstServed'
<1>. USE DEF HistInv, QueueHistory, LogHistory
<1>1. ASSUME NEW k \in DOMAIN log', log'[k].index = 0, NEW id \in 1 .. log'[k].id - 1
      PROVE  id \in dropped \cup cleared \/ \E j \in 1 .. k - 1 : log'[j].id = id
  <2>1. CASE k \in DOMAIN log
    <3>1. log[k].index = 0 /\ id \in 1 .. log[k].id - 1
      BY <1>1, <2>1, StartingLog
    <3>2. id \in dropped \cup cleared \/ \E j \in 1 .. k - 1 : log[j].id = id
      BY <2>1, <3>1 DEF FirstComeFirstServed
    <3>3. \A j \in 1 .. k - 1 : j \in DOMAIN log /\ log'[j] = log[j]
      BY <2>1, StartingLog
    <3>. QED  BY <3>2, <3>3
  <2>2. CASE k = Len(log) + 1
    <3>1. 1 .. k - 1 = DOMAIN log /\ \A j \in 1 .. k - 1 : log'[j] = log[j]
      BY <2>2, StartingLog
    <3>2. /\ r.index = 0 /\ r.id = owner[event_head] /\ Oldest.index = 0
          /\ r.id \in 1 .. triggered /\ id \in 1 .. r.id - 1 /\ event_head \in Slots
      BY <1>1, <2>2, StartingLog, RingEnds DEF Starting
    <3>3. id \in 1 .. triggered /\ id # 0 /\ id < owner[event_head]
      BY <3>2 DEF HistTypes
    <3>4. CASE id \in Waiting
      <4>1. PICK s \in Slots : owner[s] = id
        BY <3>4, WaitingAt
      <4>2. event_queue[s].index # 0
        <5>1. SUFFICES ASSUME event_queue[s].index = 0 PROVE FALSE
          OBVIOUS
        <5>2. event_queue[event_head].index = 0 /\ owner[event_head] # 0
          BY <3>2, RingEnds DEF Starting, Oldest
        <5>3. Dist(event_head, s) < Dist(event_head, event_head)
          BY <3>2, <3>3, <4>1, <5>1, <5>2 DEF FreshInOrder
        <5>4. Dist(event_head, event_head) = 0 /\ Dist(event_head, s) \in Nat
          <6>1. event_head \in Nat
            BY <3>2, QueueAssumption DEF Slots
          <6>. QED  BY <3>2, <6>1, DistValue
        <5>. QED  BY <5>3, <5>4
      <4>3. Starts(log, id) # 0
        BY <3>3, <4>1, <4>2 DEF IndexCounts
      <4>4. \E j \in DOMAIN log : log[j].id = id
        BY <4>3, StartsNat DEF HistTypes
      <4>. QED  BY <3>1, <4>4
    <3>5. CASE Finished(id)
      BY <3>1, <3>5 DEF Finished
    <3>. QED  BY <3>3, <3>4, <3>5 DEF NothingLost
  <2>. QED  BY <2>1, <2>2, StartingLog
<1>. QED  BY <1>1 DEF FirstComeFirstServed, Starting

(* What has been settled stays settled when a handler of another trigger   *)
(* starts.                                                                 *)
LEMMA StartingSettled ==
    ASSUME HistTypes, NEW r, Starting(r), owner[event_head] \notin dropped,
           NEW id,
           \/ Finished(id)
           \/ id \in dropped /\ \A k \in DOMAIN log : log[k].id # id
           \/ id \in cleared
    PROVE  \/ Finished(id)'
           \/ id \in dropped' /\ \A k \in DOMAIN log' : log'[k].id # id
           \/ id \in cleared'
BY StartingLog DEF Finished, Starting

-----------------------------------------------------------------------------
(* The steps.                                                              *)

LEMMA OwnersType ==
    ASSUME NEW id, OwnedBy(id), NEW T, \A s \in Slots : owner'[s] \in T
    PROVE  owner' \in [Slots -> T]
BY DEF OwnedBy

LEMMA QueueHolds ==
    ASSUME RingInv, HistTypes, NEW s \in Slots
    PROVE  owner[s] \in 0 .. triggered /\ (owner[s] # 0 <=> Live(s))
BY DEF RingInv, RingOwned, HistTypes

(* A handler starts and the next one waits at the tail.                    *)
LEMMA ContinueHistory ==
    ASSUME RingInv, HistInv, NEW r, Starting(r), PopAndContinue, OwnedBy(owner[event_head])
    PROVE  HistInv'
<1>. USE DEF HistInv, QueueHistory
<1>. DEFINE o == owner[event_head]
<1>1. /\ ~QueueEmpty /\ r.id = o /\ r.index = Oldest.index
      /\ UNCHANGED <<triggered, dropped, cleared, loads>>
  BY DEF Starting
<1>2. /\ event_head \in Slots /\ event_tail \in Slots /\ event_head # event_tail
      /\ o \in 1 .. triggered /\ Oldest \in Activation /\ owner[event_tail] = 0
  BY <1>1, RingEnds
<1>3. \A s \in Slots :
         /\ event_queue'[s] = IF s = event_tail THEN Continuation(Oldest)
                              ELSE IF s = event_head THEN NoItem ELSE event_queue[s]
         /\ owner'[s] = IF s = event_tail THEN o
                        ELSE IF s = event_head THEN 0 ELSE owner[s]
  BY <1>1, ContinueOwners
<1>4. Continuation(Oldest) # NoItem
  BY <1>2, NoItemAssumption DEF Continuation, Activation
<1>5. HistTypes'
  <2>1. \A s \in Slots : owner'[s] \in 0 .. triggered'
    BY <1>1, <1>2, <1>3 DEF HistTypes
  <2>2. \A s \in Slots : owner'[s] # 0 <=> event_queue'[s] # NoItem
    BY <1>2, <1>3, <1>4 DEF HistTypes
  <2>3. owner' \in [Slots -> 0 .. triggered']
    BY <2>1, OwnersType
  <2>. QED  BY <1>1, <2>2, <2>3, StartingLog DEF HistTypes
<1>6. \A s \in Slots : s # event_head /\ owner[s] # 0 => owner[s] # o
  BY <1>2 DEF OneActivationPerTrigger
<1>7. OneActivationPerTrigger'
  BY <1>2, <1>3, <1>6 DEF OneActivationPerTrigger
<1>8. IndexCounts'
  <2>1. Oldest.index = Starts(log, o) /\ Continuation(Oldest).index = Oldest.index + 1
    BY <1>2 DEF IndexCounts, Continuation, Oldest
  <2>. QED  BY <1>1, <1>2, <1>3, <1>6, <2>1, StartingLog DEF IndexCounts
<1>9. DroppedGone'
  BY <1>1, <1>2, <1>3 DEF DroppedGone, HistTypes
<1>10. FreshInOrder'
  <2>1. Continuation(Oldest).index # 0
    BY <1>2 DEF Continuation, Activation
  <2>2. event_head' = Succ(event_head)
    BY DEF PopAndContinue
  <2>3. ASSUME NEW s \in Slots, NEW t \in Slots,
               owner'[s] # 0, owner'[t] # 0, owner'[s] < owner'[t],
               event_queue'[s].index = 0, event_queue'[t].index = 0
        PROVE  Dist(event_head', s) < Dist(event_head', t)
    <3>1. /\ s # event_head /\ t # event_head
          /\ owner'[s] = owner[s] /\ owner'[t] = owner[t]
          /\ event_queue'[s] = event_queue[s] /\ event_queue'[t] = event_queue[t]
      BY <1>3, <2>1, <2>3
    <3>2. Dist(event_head, s) < Dist(event_head, t)
      BY <2>3, <3>1 DEF FreshInOrder
    <3>3. Dist(event_head, s) \in Nat /\ Dist(event_head, t) \in Nat
      BY <1>2, DistValue
    <3>4. Dist(event_head', s) = Dist(event_head, s) - 1 /\ Dist(event_head', t) = Dist(event_head, t) - 1
      BY <1>2, <2>2, <3>1, DistAfterPop
    <3>. QED  BY <3>2, <3>3, <3>4
  <2>. QED  BY <2>3 DEF FreshInOrder, Dist
<1>11. NothingLost'
  <2>1. ASSUME NEW id \in 1 .. triggered
        PROVE  id \in Waiting => id \in Waiting'
    <3>1. ASSUME NEW s \in Slots, owner[s] = id
          PROVE  \E t \in Slots : owner'[t] = id
      BY <1>2, <1>3, <3>1
    <3>. QED  BY <3>1 DEF Waiting
  <2>2. o \notin dropped
    BY <1>2 DEF DroppedGone
  <2>. QED  BY <1>1, <2>1, <2>2, StartingSettled DEF NothingLost, LogHistory
<1>. QED  BY <1>5, <1>7, <1>8, <1>9, <1>10, <1>11, StartingInOrder, StartingFirst DEF LogHistory
(* The oldest activation leaves the queue for good.                        *)
LEMMA PopHistory ==
    ASSUME RingInv, HistTypes, QueueHistory, ~QueueEmpty, Pop, OwnedBy(owner[event_head]),
           UNCHANGED triggered
    PROVE  /\ owner' \in [Slots -> 0 .. triggered']
           /\ \A s \in Slots : owner'[s] # 0 <=> event_queue'[s] # NoItem
           /\ OneActivationPerTrigger' /\ FreshInOrder'
           /\ \A s \in Slots :
                 \/ owner'[s] = 0
                 \/ /\ owner'[s] = owner[s] /\ event_queue'[s] = event_queue[s]
                    /\ owner[s] # owner[event_head]
           /\ \A id : id \in Waiting /\ id # owner[event_head] => id \in Waiting'
<1>. USE DEF QueueHistory
<1>1. event_head \in Slots /\ owner[event_head] \in 1 .. triggered
  BY RingEnds
<1>2. \A s \in Slots :
         /\ event_queue'[s] = IF s = event_head THEN NoItem ELSE event_queue[s]
         /\ owner'[s] = IF s = event_head THEN 0 ELSE owner[s]
  BY PopOwners
<1>3. \A s \in Slots : owner'[s] \in 0 .. triggered'
  BY <1>2 DEF HistTypes
<1>4. owner' \in [Slots -> 0 .. triggered']
  BY <1>3, OwnersType
<1>5. \A s \in Slots : owner'[s] # 0 <=> event_queue'[s] # NoItem
  BY <1>2 DEF HistTypes
<1>6. \A s \in Slots : s # event_head /\ owner[s] # 0 => owner[s] # owner[event_head]
  BY <1>1 DEF OneActivationPerTrigger
<1>7. OneActivationPerTrigger'
  BY <1>2 DEF OneActivationPerTrigger
<1>8. FreshInOrder'
  <2>1. event_head' = Succ(event_head)
    BY DEF Pop
  <2>2. ASSUME NEW s \in Slots, NEW t \in Slots,
               owner'[s] # 0, owner'[t] # 0, owner'[s] < owner'[t],
               event_queue'[s].index = 0, event_queue'[t].index = 0
        PROVE  Dist(event_head', s) < Dist(event_head', t)
    <3>1. /\ s # event_head /\ t # event_head
          /\ owner'[s] = owner[s] /\ owner'[t] = owner[t]
          /\ event_queue'[s] = event_queue[s] /\ event_queue'[t] = event_queue[t]
      BY <1>2, <2>2
    <3>2. Dist(event_head, s) < Dist(event_head, t)
      BY <2>2, <3>1 DEF FreshInOrder
    <3>3. Dist(event_head, s) \in Nat /\ Dist(event_head, t) \in Nat
      BY <1>1, DistValue
    <3>4. Dist(event_head', s) = Dist(event_head, s) - 1 /\ Dist(event_head', t) = Dist(event_head, t) - 1
      BY <1>1, <2>1, <3>1, DistAfterPop
    <3>. QED  BY <3>2, <3>3, <3>4
  <2>. QED  BY <2>2 DEF FreshInOrder, Dist
<1>9. ASSUME NEW id, id \in Waiting, id # owner[event_head]
      PROVE  id \in Waiting'
  <2>1. PICK s \in Slots : owner[s] = id /\ id # 0
    BY <1>9 DEF Waiting
  <2>2. owner'[s] = id
    BY <1>2, <1>9, <2>1
  <2>. QED  BY <2>1, <2>2 DEF Waiting
<1>. QED  BY <1>2, <1>4, <1>5, <1>6, <1>7, <1>8, <1>9

(* The last handler of an activation starts.                               *)
LEMMA FinishHistory ==
    ASSUME RingInv, HistInv, NEW r, Starting(r), r.index + 1 = r.of, Pop,
           OwnedBy(owner[event_head])
    PROVE  HistInv'
<1>. USE DEF HistInv, QueueHistory
<1>. DEFINE o == owner[event_head]
<1>1. /\ ~QueueEmpty /\ r.id = o
      /\ UNCHANGED <<triggered, dropped, cleared, loads>>
  BY DEF Starting
<1>2. event_head \in Slots /\ o \in 1 .. triggered /\ o \notin dropped
  BY <1>1, RingEnds DEF DroppedGone
<1>3. /\ owner' \in [Slots -> 0 .. triggered']
      /\ \A s \in Slots : owner'[s] # 0 <=> event_queue'[s] # NoItem
      /\ OneActivationPerTrigger' /\ FreshInOrder'
      /\ \A s \in Slots : \/ owner'[s] = 0
                          \/ /\ owner'[s] = owner[s] /\ event_queue'[s] = event_queue[s]
                             /\ owner[s] # o
      /\ \A id : id \in Waiting /\ id # o => id \in Waiting'
  BY <1>1, PopHistory
<1>4. HistTypes'
  BY <1>1, <1>3, StartingLog DEF HistTypes
<1>5. IndexCounts'
  BY <1>1, <1>3, StartingLog DEF IndexCounts
<1>6. DroppedGone'
  BY <1>1, <1>3 DEF DroppedGone, HistTypes
<1>7. ASSUME NEW id, id = o PROVE Finished(id)'
  BY <1>1, <1>7, StartingLog DEF Finished
<1>8. NothingLost'
  BY <1>1, <1>2, <1>3, <1>7, StartingSettled DEF NothingLost, LogHistory
<1>. QED  BY <1>3, <1>4, <1>5, <1>6, <1>8, StartingInOrder, StartingFirst DEF LogHistory

(* An activation without a handler is dropped.  It has not started: one    *)
(* that has started is runnable.                                           *)
LEMMA DropHistory ==
    ASSUME RingInv, StartedStaysRunnable, HistInv, ~QueueEmpty, ~Runnable, Pop,
           OwnedBy(owner[event_head]), dropped' = dropped \cup {owner[event_head]},
           UNCHANGED <<triggered, log, cleared, loads>>
    PROVE  HistInv'
<1>. USE DEF HistInv, QueueHistory, LogHistory
<1>. DEFINE o == owner[event_head]
<1>1. event_head \in Slots /\ o \in 1 .. triggered /\ Oldest \in Activation /\ Oldest # NoItem
  BY RingEnds
<1>2. /\ owner' \in [Slots -> 0 .. triggered']
      /\ \A s \in Slots : owner'[s] # 0 <=> event_queue'[s] # NoItem
      /\ OneActivationPerTrigger' /\ FreshInOrder'
      /\ \A s \in Slots : \/ owner'[s] = 0
                          \/ /\ owner'[s] = owner[s] /\ event_queue'[s] = event_queue[s]
                             /\ owner[s] # o
      /\ \A id : id \in Waiting /\ id # o => id \in Waiting'
  BY PopHistory
<1>3. HistTypes'
  BY <1>1, <1>2 DEF HistTypes
<1>4. IndexCounts'
  BY <1>2 DEF IndexCounts
<1>5. DroppedGone'
  BY <1>1, <1>2 DEF DroppedGone, HistTypes
<1>6. \A k \in DOMAIN log : log[k].id # o
  <2>1. Oldest.index = 0
    BY <1>1 DEF StartedStaysRunnable, Runnable, Oldest, Activation
  <2>2. Starts(log, o) = 0
    BY <1>1, <2>1 DEF IndexCounts, Oldest
  <2>. QED  BY <2>2, StartsNat DEF HistTypes
<1>7. NothingLost'
  BY <1>2, <1>6 DEF NothingLost, Finished
<1>8. HandlersInOrder' /\ FirstComeFirstServed'
  BY DEF HandlersInOrder, FirstComeFirstServed
<1>. QED  BY <1>2, <1>3, <1>4, <1>5, <1>7, <1>8

(* A trigger takes the slot at the tail and the next number.               *)
LEMMA TriggerHistory ==
    ASSUME RingInv, HistInv, NEW e \in EventNames, Enqueue([event |-> e, index |-> 0]),
           triggered' = triggered + 1, OwnedBy(triggered + 1),
           UNCHANGED <<log, dropped, cleared, loads>>
    PROVE  HistInv'
<1>. USE DEF HistInv, QueueHistory, LogHistory
<1>. DEFINE item == [event |-> e, index |-> 0]
            new == triggered + 1
<1>1. item \in Activation /\ item # NoItem /\ item.index = 0
  BY NoItemAssumption DEF Activation
<1>2. /\ event_head \in Slots /\ event_tail \in Slots /\ owner[event_tail] = 0
      /\ triggered \in Nat /\ new \in Nat /\ new # 0 /\ new > triggered
  BY RingEnds DEF HistTypes
<1>3. \A s \in Slots :
         /\ event_queue'[s] = IF s = event_tail THEN item ELSE event_queue[s]
         /\ owner'[s] = IF s = event_tail THEN new ELSE owner[s]
  BY <1>1, EnqueueOwners
<1>. HIDE DEF item
<1>4. \A s \in Slots : owner[s] \in 0 .. triggered /\ owner[s] # new /\ owner[s] \in Nat
  BY <1>2 DEF HistTypes
<1>5. HistTypes'
  <2>1. \A s \in Slots : owner'[s] \in 0 .. triggered'
    BY <1>2, <1>3, <1>4
  <2>2. owner' \in [Slots -> 0 .. triggered']
    BY <2>1, OwnersType
  <2>3. \A s \in Slots : owner'[s] # 0 <=> event_queue'[s] # NoItem
    BY <1>1, <1>2, <1>3 DEF HistTypes
  <2>4. log' \in Seq(Entry(triggered'))
    <3>1. Entry(triggered) \subseteq Entry(triggered')
      BY <1>2 DEF Entry
    <3>. QED  BY <3>1 DEF HistTypes
  <2>. QED  BY <1>2, <2>2, <2>3, <2>4 DEF HistTypes
<1>6. OneActivationPerTrigger'
  BY <1>3, <1>4 DEF OneActivationPerTrigger
<1>7. IndexCounts'
  <2>1. \A k \in DOMAIN log : log[k].id # new
    <3>1. \A k \in DOMAIN log : log[k] \in Entry(triggered)
      <4>1. log \in Seq(Entry(triggered))
        BY DEF HistTypes
      <4>. QED  BY <4>1, ElementOfSeq
    <3>2. \A k \in DOMAIN log : log[k].id \in 1 .. triggered
      BY <3>1 DEF Entry
    <3>. QED  BY <1>2, <3>2
  <2>2. Starts(log, new) = 0
    BY <2>1, StartsNat DEF HistTypes
  <2>. QED  BY <1>1, <1>3, <2>2 DEF IndexCounts
<1>8. DroppedGone'
  BY <1>2, <1>3 DEF DroppedGone, HistTypes
<1>9. FreshInOrder'
  <2>1. event_head' = event_head
    BY DEF Enqueue
  <2>2. ASSUME NEW s \in Slots, NEW t \in Slots,
               owner'[s] # 0, owner'[t] # 0, owner'[s] < owner'[t],
               event_queue'[s].index = 0, event_queue'[t].index = 0
        PROVE  Dist(event_head, s) < Dist(event_head, t)
    <3>1. s # event_tail
      BY <1>2, <1>3, <1>4, <2>2
    <3>2. CASE t = event_tail
      <4>1. Live(s)
        BY <1>3, <2>2, <3>1, QueueHolds
      <4>. QED  BY <1>2, <3>2, <4>1, LiveBeforeTail
    <3>3. CASE t # event_tail
      BY <1>3, <2>2, <3>1, <3>3 DEF FreshInOrder
    <3>. QED  BY <3>2, <3>3
  <2>. QED  BY <2>1, <2>2 DEF FreshInOrder, Dist
<1>10. NothingLost'
  <2>1. new \in Waiting'
    BY <1>2, <1>3 DEF Waiting
  <2>2. ASSUME NEW id \in Waiting
        PROVE  id \in Waiting'
    <3>1. PICK s \in Slots : owner[s] = id /\ id # 0
      BY DEF Waiting
    <3>2. owner'[s] = id
      BY <1>2, <1>3, <3>1
    <3>. QED  BY <3>1, <3>2 DEF Waiting
  <2>3. \A id \in 1 .. triggered' : id = new \/ id \in 1 .. triggered
    BY <1>2
  <2>. QED  BY <2>1, <2>2, <2>3 DEF NothingLost, Finished
<1>11. HandlersInOrder' /\ FirstComeFirstServed'
  BY DEF HandlersInOrder, FirstComeFirstServed
<1>. QED  BY <1>5, <1>6, <1>7, <1>8, <1>9, <1>10, <1>11

(* scml_vm_clear_events.                                                   *)
LEMMA ClearHistory ==
    ASSUME RingInv, HistInv, ClearEvents, RecordClear
    PROVE  HistInv'
<1>. USE DEF HistInv, QueueHistory, LogHistory
<1>1. /\ owner' = [s \in Slots |-> 0] /\ event_queue' = [s \in Slots |-> NoItem]
      /\ cleared' = cleared \cup Waiting /\ UNCHANGED <<triggered, log, dropped, loads>>
  BY DEF ClearEvents, RecordClear
<1>2. Waiting \subseteq 1 .. triggered
  BY DEF Waiting, HistTypes
<1>3. HistTypes'
  BY <1>1, <1>2 DEF HistTypes
<1>4. OneActivationPerTrigger' /\ IndexCounts' /\ FreshInOrder'
  BY <1>1 DEF OneActivationPerTrigger, IndexCounts, FreshInOrder
<1>5. DroppedGone'
  BY <1>1 DEF DroppedGone, HistTypes
<1>6. NothingLost'
  BY <1>1 DEF NothingLost, Finished
<1>7. HandlersInOrder' /\ FirstComeFirstServed'
  BY <1>1 DEF HandlersInOrder, FirstComeFirstServed
<1>. QED  BY <1>3, <1>4, <1>5, <1>6, <1>7

(* Steps that leave queue and history alone.                               *)
LEMMA SameHistory ==
    ASSUME HistInv, UNCHANGED queueVars, UNCHANGED <<triggered, owner, log, dropped, cleared>>,
           loads' \in 0 .. MaxLoads
    PROVE  HistInv'
<1>. USE DEF HistInv, QueueHistory, LogHistory, queueVars
<1>1. HistTypes'
  BY DEF HistTypes
<1>2. OneActivationPerTrigger' /\ IndexCounts' /\ DroppedGone'
  BY DEF OneActivationPerTrigger, IndexCounts, DroppedGone
<1>3. FreshInOrder'
  BY DEF FreshInOrder, Dist
<1>4. NothingLost' /\ HandlersInOrder' /\ FirstComeFirstServed'
  BY DEF NothingLost, Waiting, Finished, HandlersInOrder, FirstComeFirstServed
<1>. QED  BY <1>1, <1>2, <1>3, <1>4

-----------------------------------------------------------------------------
(* All steps together.                                                     *)

(* A step that calls dispatch_next_event.                                  *)
LEMMA ServingHistory ==
    ASSUME RingInv, StartedStaysRunnable, HistInv, ServingStep, RecordServing
    PROVE  HistInv'
<1>1. /\ \/ DispatchHandler \/ DropActivation \/ NothingQueued
      /\ RecordServing
  BY DEF ServingStep, StepDispatch, StepIdle, StepEndThread, DispatchFails
<1>2. CASE QueueEmpty
  <2>1. UNCHANGED histVars /\ UNCHANGED queueVars
    BY <1>1, <1>2 DEF RecordServing, DispatchHandler, DropActivation, NothingQueued
  <2>. QED  BY <2>1, SameHistory DEF histVars, HistInv, HistTypes
<1>3. CASE ~QueueEmpty /\ Runnable
  <2>. DEFINE r == [id    |-> owner[event_head], index |-> Oldest.index,
                    of    |-> Len(HandlersOf(Oldest.event))]
  <2>1. RecordDispatch /\ DispatchHandler
    BY <1>1, <1>3, Zenon DEF RecordServing, DropActivation, NothingQueued
  <2>2. Oldest \in Activation /\ owner[event_head] \in 1 .. triggered
    BY <1>3, RingEnds DEF HistInv
  <2>3. Oldest.event \in EventNames /\ Oldest.index \in Nat
    BY <2>2 DEF Activation
  <2>4. HandlersOf(Oldest.event) \in Seq(Nat)
    BY <2>3 DEF HandlersOf, RingInv, EventsType
  <2>5. r \in Entry(triggered)
    BY <2>2, <2>3, <2>4 DEF Entry
  <2>6. /\ Starting(r) /\ OwnedBy(owner[event_head])
        /\ r.index = Oldest.index /\ r.of = Len(HandlersOf(Oldest.event))
    BY <1>3, <2>1, <2>5 DEF RecordDispatch, Starting
  <2>. HIDE DEF r
  <2>7. CASE HasMoreHandlers
    BY <2>1, <2>6, <2>7, ContinueHistory DEF DispatchHandler
  <2>8. CASE ~HasMoreHandlers
    <3>1. r.index + 1 = r.of
      BY <1>3, <2>3, <2>4, <2>6, <2>8 DEF Runnable, HasMoreHandlers
    <3>. QED  BY <2>1, <2>6, <2>8, <3>1, FinishHistory DEF DispatchHandler
  <2>. QED  BY <2>7, <2>8
<1>4. CASE ~QueueEmpty /\ ~Runnable
  <2>1. RecordDrop /\ Pop
    BY <1>1, <1>4, Zenon DEF RecordServing, DropActivation, DispatchHandler, NothingQueued
  <2>. QED  BY <1>4, <2>1, DropHistory DEF RecordDrop
<1>. QED  BY <1>2, <1>3, <1>4

LEMMA HistInvNext == VMInv /\ HistInv /\ [HistNext]_hvars => HistInv'
<1>. SUFFICES ASSUME VMInv, HistInv, [HistNext]_hvars PROVE HistInv'
  OBVIOUS
<1>. USE DEF VMInv
<1>1. loads \in 0 .. MaxLoads
  BY DEF HistInv, HistTypes
<1>2. CASE ServingStep /\ RecordServing
  BY <1>2, ServingHistory
<1>3. CASE StepTrigger /\ IF rc' = 1 THEN RecordTrigger ELSE UNCHANGED histVars
  <2>1. CASE QueueFull
    <3>1. rc' = -1 /\ UNCHANGED queueVars
      BY <1>3, <2>1 DEF StepTrigger, Fail
    <3>. QED  BY <1>1, <1>3, <3>1, SameHistory DEF histVars
  <2>2. CASE ~QueueFull
    <3>1. Instr.event \in EventNames
      BY <1>3, FetchedInstr, OperandTypes DEF StepTrigger, Fetch, RingInv
    <3>2. rc' = 1 /\ Enqueue([event |-> Instr.event, index |-> 0])
      BY <1>3, <2>2 DEF StepTrigger, Succeed
    <3>3. RecordTrigger
      BY <1>3, <3>2
    <3>. QED  BY <3>1, <3>2, <3>3, TriggerHistory DEF RecordTrigger
  <2>. QED  BY <2>1, <2>2
<1>4. CASE PlainStep /\ UNCHANGED histVars
  <2>1. UNCHANGED queueVars
    BY <1>4 DEF PlainStep, StepTruncated, StepHalt, StepReturn, StepCall,
       StepNative, StepStore, StepJump, StepFail, StepBind
  <2>. QED  BY <1>1, <1>4, <2>1, SameHistory DEF histVars
<1>5. ASSUME NEW e \in EventNames, TriggerEvent(e), RecordTrigger
      PROVE  HistInv'
  BY <1>5, TriggerHistory DEF TriggerEvent, RecordTrigger
<1>6. ASSUME NEW program \in Programs, LoadFile(program), loads < MaxLoads, loads' = loads + 1,
             UNCHANGED <<triggered, owner, log, dropped, cleared>>
      PROVE  HistInv'
  BY <1>1, <1>6, MaxTriggersAssumption, SameHistory DEF LoadFile
<1>7. ASSUME NEW e \in EventNames, NEW h \in HostHandlers, BindEvent(e, h), UNCHANGED histVars
      PROVE  HistInv'
  BY <1>1, <1>7, SameHistory DEF BindEvent, histVars
<1>8. CASE ClearEvents /\ RecordClear
  BY <1>8, ClearHistory
<1>9. CASE UNCHANGED hvars
  BY <1>1, <1>9, SameHistory DEF hvars, vars, histVars
<1>. QED  BY <1>2, <1>3, <1>4, <1>5, <1>6, <1>7, <1>8, <1>9 DEF HistNext, HistStep

LEMMA HistInvInit == HistInit => HistInv
<1>. SUFFICES ASSUME HistInit PROVE HistInv
  OBVIOUS
<1>1. /\ triggered = 0 /\ owner = [s \in Slots |-> 0] /\ log = <<>> /\ dropped = {}
      /\ cleared = {} /\ loads = 0 /\ event_queue = [s \in Slots |-> NoItem]
  BY DEF HistInit, Init
<1>2. HistTypes
  <2>1. log \in Seq(Entry(triggered))
    BY <1>1
  <2>. QED  BY <1>1, <2>1, MaxTriggersAssumption DEF HistTypes
<1>3. QueueHistory
  BY <1>1 DEF QueueHistory, OneActivationPerTrigger, IndexCounts, DroppedGone, FreshInOrder
<1>4. LogHistory
  BY <1>1 DEF LogHistory, NothingLost, HandlersInOrder, FirstComeFirstServed
<1>. QED  BY <1>2, <1>3, <1>4 DEF HistInv

LEMMA HistInvAlways == HistSpec => [](VMInv /\ HistInv)
BY VMInvInit, VMInvNext, HistInvInit, HistInvNext, PTL DEF HistSpec

(* The history has its types: in particular a slot has an owner exactly    *)
(* while it is queued.                                                     *)
THEOREM HistTypeCorrect == HistSpec => []HistTypeOK
<1>1. VMInv /\ HistInv => HistTypeOK
  BY HistTypesOK DEF VMInv, HistInv
<1>. QED  BY <1>1, HistInvAlways, PTL

(* Continuing an event never forks it: no trigger is queued twice.         *)
THEOREM TriggersNeverFork == HistSpec => []OneActivationPerTrigger
<1>1. HistInv => OneActivationPerTrigger
  BY DEF HistInv, QueueHistory
<1>. QED  BY <1>1, HistInvAlways, PTL

(* Every accepted trigger waits, or was served to its last handler, or was *)
(* dropped before any handler ran, or was cleared by the host.             *)
THEOREM NoTriggerIsLost == HistSpec => []NothingLost
<1>1. HistInv => NothingLost
  BY DEF HistInv, LogHistory
<1>. QED  BY <1>1, HistInvAlways, PTL

(* The handlers of a trigger start in the order in which they were bound,  *)
(* each once.                                                              *)
THEOREM HandlersStartInOrder == HistSpec => []HandlersInOrder
<1>1. HistInv => HandlersInOrder
  BY DEF HistInv, LogHistory
<1>. QED  BY <1>1, HistInvAlways, PTL

(* No trigger is overtaken: its first handler starts before that of any    *)
(* later trigger.                                                          *)
THEOREM TriggersAreServedInOrder == HistSpec => []FirstComeFirstServed
<1>1. HistInv => FirstComeFirstServed
  BY DEF HistInv, LogHistory
<1>. QED  BY <1>1, HistInvAlways, PTL

=============================================================================
