----------------------------- MODULE ObjectStore -----------------------------
(***************************************************************************)
(* What the VM's heap promises scripts, without slots and without a        *)
(* counter: "garbage-safe heap object references through integer handles"  *)
(* (README.md).  A reference names one object from its creation until the  *)
(* object is freed and nothing at all before and after, so a script that   *)
(* keeps a stale reference can neither read nor write a later object.      *)
(***************************************************************************)
EXTENDS Naturals

CONSTANTS References

VARIABLES
    objects,   \* live reference -> [elem_size, pinned, data]
    issued,    \* references handed out so far
    request,   \* the references and cells the last instruction was asked for
    answer     \* the number it gave, if any

Init == objects = [r \in {} |-> 0] /\ issued = {} /\ answer = {}

\* The live objects that an instruction names.
Named == request'.refs \cap DOMAIN objects

Create ==
    /\ issued' # issued
    /\ \E r \in References \ issued :
        /\ issued' = issued \cup {r} /\ answer' = {r}
        /\ DOMAIN objects' = DOMAIN objects \cup {r}
        /\ \A q \in DOMAIN objects : objects'[q] = objects[q]
        /\ ~objects'[r].pinned
        /\ \A i \in DOMAIN objects'[r].data : objects'[r].data[i] = 0

Destroy ==
    /\ DOMAIN objects' # DOMAIN objects
    /\ \E r \in Named : objects' = [q \in DOMAIN objects \ {r} |-> objects[q]]
    /\ answer' = {} /\ UNCHANGED issued

\* Writing and pinning change one of the objects named, neither its size nor its
\* kind, and none of its cells but those named.
Update ==
    /\ DOMAIN objects' = DOMAIN objects
    /\ \E r \in Named :
        /\ \A q \in DOMAIN objects \ {r} : objects'[q] = objects[q]
        /\ objects'[r].elem_size = objects[r].elem_size
        /\ DOMAIN objects'[r].data = DOMAIN objects[r].data
        /\ \A i \in DOMAIN objects[r].data \ request'.cells :
               objects'[r].data[i] = objects[r].data[i]
        /\ objects[r].pinned => objects'[r].pinned
    /\ answer' = {} /\ UNCHANGED issued

Read ==
    /\ \E r \in Named : \E i \in DOMAIN objects[r].data \cap request'.cells :
           answer' = {objects[r].data[i]}
    /\ UNCHANGED <<objects, issued>>

\* What is refused, or shows something, gives no answer.
Refuse == answer' = {} /\ UNCHANGED <<objects, issued>>

Next == Create \/ Destroy \/ Update \/ Read \/ Refuse

Spec == Init /\ [][Next]_<<objects, issued, request, answer>>
=============================================================================
