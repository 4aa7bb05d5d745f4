------------------------------ MODULE MCGameLoop ------------------------------
(* Two scripts for TLC that get a game loop into trouble. *)
EXTENDS GameLoop

CONSTANTS START, TICK, HIT, retval, Free

bind(e, to) == [op |-> "bind", event |-> e, to |-> to]
trigger(e) == [op |-> "trigger", event |-> e]
end_thread == [op |-> "end_thread"]
call(to) == [op |-> "call", to |-> to]
halt == [op |-> "halt"]

\* Each tick announces two hits nobody listens to.
Flood == << bind(TICK, 2), halt, trigger(HIT), trigger(HIT), halt >>

\* A handler that calls a subroutine; the subroutine ends the thread.
Abandon == << bind(TICK, 2), halt, call(3), end_thread >>

FloodPrograms == {Flood}
AbandonPrograms == {Abandon}
=============================================================================
