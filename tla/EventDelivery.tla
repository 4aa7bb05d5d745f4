----------------------------- MODULE EventDelivery -----------------------------
(***************************************************************************)
(* What the events of the SCML VM promise: a bounded first-in first-out    *)
(* queue of activations.  An activation names an event and the position of *)
(* the handler that runs next.  Serving the oldest activation finishes it  *)
(* only when the event has no further handler; otherwise the continuation  *)
(* goes to the back of the queue, so that pending events take turns        *)
(* handler by handler and every bound handler gets its turn.               *)
(* The ring of slots in ScmlVM implements this module.                     *)
(***************************************************************************)
EXTENDS Naturals, Sequences

CONSTANTS
    EventNames,
    Capacity  \* how many activations may be pending

VARIABLES
    q,       \* pending activations, the oldest first
    bound    \* event -> number of handlers bound to it

vars == <<q, bound>>

Init == q = <<>> /\ bound = [e \in EventNames |-> 0]

Bind(e) ==
    /\ bound' = [bound EXCEPT ![e] = @ + 1]
    /\ UNCHANGED q

\* The event's first handler waits at the back.
Trigger(e) ==
    /\ Len(q) < Capacity
    /\ q' = Append(q, [event |-> e, index |-> 0])
    /\ UNCHANGED bound

\* The last handler of the oldest activation starts, or it has none.
Finish ==
    /\ q # <<>>
    /\ Head(q).index + 1 >= bound[Head(q).event]
    /\ q' = Tail(q)
    /\ UNCHANGED bound

\* A handler of the oldest activation starts and the next one waits at the
\* back.  The queue keeps its length: a continuation is never refused.
Continue ==
    /\ q # <<>>
    /\ Head(q).index + 1 < bound[Head(q).event]
    /\ q' = Append(Tail(q), [event |-> Head(q).event, index |-> Head(q).index + 1])
    /\ UNCHANGED bound

Clear == q' = <<>> /\ bound' = [e \in EventNames |-> 0]

Next ==
    \/ \E e \in EventNames : Bind(e) \/ Trigger(e)
    \/ Finish
    \/ Continue
    \/ Clear

Spec == Init /\ [][Next]_vars

=============================================================================
