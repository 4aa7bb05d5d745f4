---------------------------- MODULE MCEventHistory ----------------------------
(* A small instance of EventHistory for TLC. *)
EXTENDS EventHistory

CONSTANTS A, B, C, retval, Free

bind(e, to) == [op |-> "bind", event |-> e, to |-> to]
trigger(e) == [op |-> "trigger", event |-> e]
end_thread == [op |-> "end_thread"]
fail == [op |-> "fail"]
halt == [op |-> "halt"]

\* A has two handlers: the first triggers B, the second fails and halts.
\* B has one.  C has none.
MCPrograms == {<<
    bind(A, 5), bind(A, 8), bind(B, 6), trigger(A), end_thread,
    trigger(B), fail, end_thread,
    fail, halt >>}
=============================================================================
