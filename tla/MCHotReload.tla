------------------------------ MODULE MCHotReload ------------------------------
(* Two versions of a script for TLC. *)
EXTENDS HotReload

CONSTANTS START, TICK, retval, Free

bind(e, to) == [op |-> "bind", event |-> e, to |-> to]
trigger(e) == [op |-> "trigger", event |-> e]
call(to) == [op |-> "call", to |-> to]
halt == [op |-> "halt"]
fail == [op |-> "fail"]
return == [op |-> "return"]
end_thread == [op |-> "end_thread"]

\* Each tick announces two events nobody handles and calls a subroutine.
Old == << bind(TICK, 2), halt, trigger(START), trigger(START), call(6), halt, return >>

\* The handler has moved; one more of it fails.
New == << bind(TICK, 3), bind(TICK, 4), halt, end_thread, fail, halt >>

MCPrograms == {Old, New}
=============================================================================
