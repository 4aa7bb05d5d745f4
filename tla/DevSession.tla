------------------------------ MODULE DevSession ------------------------------
(***************************************************************************)
(* A development session: one VM whose script is recompiled, hot reloaded  *)
(* and debugged.  In a frame the host either updates the VM or, where the  *)
(* debugger is in use (src/editor/scml_editor.cpp), lets it continue or    *)
(* step until the VM rests.                                                *)
(***************************************************************************)
EXTENDS HotReload, Debugger

VARIABLES debugging    \* runs are left to the debugger

sessionVars == <<reloadVars, debugVars, debugging>>

SessionInit == HotInit /\ DebuggerInit /\ debugging = FALSE

\* The run the host asked for goes on until a step returns 0 or -1.
Debug ==
    /\ running /\ debugging
    /\ \/ /\ DebuggerStep \/ ContinueStep
          /\ running' = (rc' = 1)
       \/ DebuggerContinue /\ UNCHANGED running
    /\ UNCHANGED <<phase, ok, fileVars, watchVars, debugging>>

AddBreakpoint ==
    /\ \/ \E at \in BreakpointPcs : AddPcBreakpoint(at)
       \/ \E label \in Labels : AddLabelBreakpoint(label)
    /\ UNCHANGED <<phase, running, ok, fileVars, watchVars, debugging>>

Attach ==
    /\ ~running /\ debugging' = ~debugging
    /\ UNCHANGED <<reloadVars, debugVars>>

HostAlone ==
    /\ running => ~debugging
    /\ Host
    /\ UNCHANGED <<debugVars, debugging>>

CompileAlone == Compile /\ UNCHANGED <<debugVars, debugging>>

SessionNext == HostAlone \/ CompileAlone \/ Debug \/ AddBreakpoint \/ Attach

(* Host and debugger together keep the VM going; the developer neither has *)
(* to compile nor to set breakpoints.                                      *)
SessionSpec ==
    SessionInit /\ [][SessionNext]_sessionVars /\ WF_sessionVars(HostAlone \/ Debug)

-----------------------------------------------------------------------------
(* Properties.                                                             *)

\* The host, the compiler's file, the debugger and the VM they share.
SessionTypeOK == HotTypeOK /\ DebugTypeOK /\ debugging \in BOOLEAN
=============================================================================
