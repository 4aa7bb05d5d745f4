------------------------------- MODULE Debugger -------------------------------
(***************************************************************************)
(* The debugger (src/debugger/debugger.c) on top of a VM: breakpoints by   *)
(* address or by label, single steps, and continue, which steps until the  *)
(* VM rests, fails or arrives at a breakpoint.                             *)
(***************************************************************************)
EXTENDS ScmlVM

CONSTANTS
    Labels,           \* the names breakpoints are asked for
    LabelPc(_, _),    \* address of a label in a program
    HasLabel(_, _),
    BreakpointPcs,    \* the addresses breakpoints are asked for
    SCML_DEBUGGER_MAX_BREAKPOINTS

ASSUME DebuggerAssumption ==
    /\ BreakpointPcs \subseteq Nat /\ SCML_DEBUGGER_MAX_BREAKPOINTS \in Nat
    /\ \A program \in Programs \cup {<<>>}, label \in Labels :
          HasLabel(program, label) => LabelPc(program, label) \in Nat

VARIABLES
    breakpoints,      \* addresses, in the order they were added
    paused,
    continuing        \* "no", "first" or "more": the steps of a continue

debugVars == <<breakpoints, paused, continuing>>

DebuggerInit == breakpoints = <<>> /\ paused = FALSE /\ continuing = "no"

MissesFirst(at) == \E i \in 2 .. Len(breakpoints) : breakpoints[i] = at  \* fault

IsBreakpoint(at) == \E i \in 1 .. Len(breakpoints) : breakpoints[i] = at

RoomForOneMore == Len(breakpoints) <= SCML_DEBUGGER_MAX_BREAKPOINTS   \* fault

HasRoom == Len(breakpoints) < SCML_DEBUGGER_MAX_BREAKPOINTS

AddPcBreakpoint(at) ==
    /\ continuing = "no"
    /\ HasRoom
    /\ breakpoints' = Append(breakpoints, at)
    /\ UNCHANGED <<vars, paused, continuing>>

\* The label is looked up once, in the program loaded now.
AddLabelBreakpoint(label) ==
    /\ HasLabel(code, label)
    /\ AddPcBreakpoint(LabelPc(code, label))

DebuggerStep ==
    /\ continuing = "no"
    /\ Step
    /\ paused' = (rc' > 0 /\ IsBreakpoint(pc'))
    /\ UNCHANGED <<breakpoints, continuing>>

DebuggerContinue ==
    /\ continuing = "no"
    /\ continuing' = "first" /\ paused' = FALSE
    /\ UNCHANGED <<vars, breakpoints>>

\* One turn of the loop in continue.
ContinueStep ==
    /\ continuing # "no"
    /\ Step
    /\ paused' = (rc' > 0 /\ IsBreakpoint(pc'))
    /\ continuing' = IF rc' > 0 /\ ~IsBreakpoint(pc') THEN "more" ELSE "no"
    /\ UNCHANGED breakpoints

-----------------------------------------------------------------------------
(* Properties.                                                             *)

DebugTypeOK ==
    /\ breakpoints \in Seq(Nat)
    /\ Len(breakpoints) <= SCML_DEBUGGER_MAX_BREAKPOINTS
    /\ paused \in BOOLEAN
    /\ continuing \in {"no", "first", "more"}

(* A continue runs over no breakpoint: but for the instruction it starts   *)
(* with, it executes none that has one, whichever way control got there -  *)
(* a jump, a return or an event that started a handler.                    *)
BreakpointsStop ==
    continuing = "more" /\ ~AtEnd => \A i \in DOMAIN breakpoints : breakpoints[i] # pc
=============================================================================
