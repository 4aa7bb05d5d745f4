------------------------------- MODULE MCScmlVM -------------------------------
(* A small instance of ScmlVM for TLC. *)
EXTENDS ScmlVM

CONSTANTS A, B, retval, x, Free

halt == [op |-> "halt"]
end_thread == [op |-> "end_thread"]
ret == [op |-> "return"]
fail == [op |-> "fail"]
truncated == [op |-> "truncated"]
native == [op |-> "native"]
call(to) == [op |-> "call", to |-> to]
compute(n, v) == [op |-> "compute", name |-> n, value |-> v]
store(n, v) == [op |-> "store", name |-> n, value |-> v]
if_eq(n, v, to) == [op |-> "if_eq", name |-> n, value |-> v, to |-> to]
bind(e, to) == [op |-> "bind", event |-> e, to |-> to]
trigger(e) == [op |-> "trigger", event |-> e]

\* Two handlers for A; the first triggers B.  A third handler is refused.
\* B's handler is a subroutine that ends the thread without returning when
\* x is set.
Handlers == <<
    bind(A, 5), bind(A, 7), bind(B, 8), bind(A, 7), halt,
    trigger(B), end_thread,
    call(8),
    if_eq(x, 1, 6), compute(x, 1), ret >>

\* Errors at every kind of instruction, and code cut off in an instruction.
Errors == << native, trigger(B), store(x, 1), ret, fail, truncated >>

MCPrograms == {Handlers, Errors}
=============================================================================
