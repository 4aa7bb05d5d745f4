---------------------------- MODULE DevSession_proof ----------------------------
(***************************************************************************)
(* Proofs about the hosts of a VM: the two game loops, and a development   *)
(* session that compiles, reloads and debugs a script, for every program,  *)
(* every set of labels and every limit.                                    *)
(*                                                                         *)
(* A host is one more user of the VM's API: each of its steps is a step of *)
(* ScmlVM or leaves the VM alone.  So what is proved of ScmlVM holds under *)
(* each of the hosts.                                                      *)
(***************************************************************************)
EXTENDS DevSession, ScmlVM_proof, FiniteSetTheorems

-----------------------------------------------------------------------------
(* The game loops.                                                         *)

LEMMA HostTriggers == TriggerEvent(ON_START) \/ TriggerEvent(ON_TICK) => Next
BY TickAssumption DEF Next

LEMMA LoopStepsVM == [LoopNext]_gvars => [Next]_vars
<1>1. RunStep => Next
  BY DEF RunStep, Next
<1>2. InitScript => Next
  BY DEF InitScript, Next
<1>3. LoopStart \/ LoopTick => [Next]_vars
  BY HostTriggers DEF LoopStart, LoopTick, TriggerAndRun
<1>. QED  BY <1>1, <1>2, <1>3 DEF LoopNext, gvars

LEMMA RuntimeStepsVM == [RuntimeNext]_gvars => [Next]_vars
<1>1. RunStep => Next
  BY DEF RunStep, Next
<1>2. InitScript => Next
  BY DEF InitScript, Next
<1>3. RuntimeStart \/ RuntimeTick => [Next]_vars
  BY HostTriggers DEF RuntimeStart, RuntimeTick, TriggerThenRun
<1>. QED  BY <1>1, <1>2, <1>3 DEF RuntimeNext, gvars

(* The loop of README.md and SCML_GameRuntime drive the VM as ScmlVM says  *)
(* a host may: whatever holds of ScmlVM holds of them.                     *)
THEOREM LoopUsesVM == LoopSpec => Spec
<1>1. GameInit => Init
  BY DEF GameInit
<1>. QED  BY <1>1, LoopStepsVM, PTL DEF LoopSpec, Spec

THEOREM RuntimeUsesVM == RuntimeSpec => Spec
<1>1. GameInit => Init
  BY DEF GameInit
<1>. QED  BY <1>1, RuntimeStepsVM, PTL DEF RuntimeSpec, Spec

HostType ==
    /\ phase \in {"init", "start", "loop"}
    /\ running \in BOOLEAN
    /\ ok \in BOOLEAN

LEMMA RunStepType ==
    ASSUME running \in BOOLEAN, ok \in BOOLEAN, RunStep
    PROVE  running' \in BOOLEAN /\ ok' \in BOOLEAN /\ phase' = phase
<1>1. running' \in BOOLEAN
  <2>1. running' = (rc' = 1)
    BY Zenon DEF RunStep, RunUntilRest
  <2>. QED  BY <2>1, SMT
<1>2. ok' \in BOOLEAN
  <2>1. CASE rc' = 1
    BY <2>1, Zenon DEF RunStep
  <2>2. CASE rc' # 1
    <3>1. ok' = (rc' = 0)
      BY <2>2, Zenon DEF RunStep
    <3>. QED  BY <3>1, SMT
  <2>. QED  BY <2>1, <2>2
<1>. QED  BY <1>1, <1>2 DEF RunStep

LEMMA LoopType == HostType /\ [LoopNext]_gvars => HostType'
<1>. SUFFICES ASSUME HostType, [LoopNext]_gvars PROVE HostType'
  OBVIOUS
<1>1. CASE RunStep
  BY <1>1, RunStepType DEF HostType
<1>2. CASE LoopStart \/ LoopTick \/ InitScript \/ UNCHANGED gvars
  BY <1>2 DEF LoopStart, LoopTick, TriggerAndRun, InitScript, HostType, gvars
<1>. QED  BY <1>1, <1>2 DEF LoopNext

(* The types of the game loop and of the VM under it.                      *)
THEOREM LoopTypeCorrect == LoopSpec => []GameTypeOK
<1>1. GameInit => HostType
  BY DEF GameInit, HostType
<1>2. HostType /\ TypeOK => GameTypeOK
  BY DEF HostType, GameTypeOK
<1>. QED  BY <1>1, <1>2, LoopType, LoopUsesVM, TypeCorrect, PTL DEF LoopSpec

-----------------------------------------------------------------------------
(* The development session and the VM.                                     *)

LEMMA DebugStepsVM == Debug => [Next]_vars
BY DEF Debug, DebuggerStep, ContinueStep, DebuggerContinue, Next, vars, threadVars, queueVars

LEMMA AddBreakpointStepsVM == AddBreakpoint => UNCHANGED vars
BY DEF AddBreakpoint, AddPcBreakpoint, AddLabelBreakpoint

LEMMA HostStepsVM == Host => [Next]_vars
<1>1. Watch \/ PollExists => UNCHANGED vars
  BY DEF Watch, PollExists
<1>2. LoadScript \/ PollLoad => [Next]_vars
  BY DEF LoadScript, PollLoad, Next
<1>3. PollStat => [Next]_vars
  BY DEF PollStat, ClearStaleEvents, Next
<1>4. Tick => [Next]_vars
  BY HostTriggers DEF Tick
<1>5. Run => Next
  BY DEF Run, RunStep, Next
<1>. QED  BY <1>1, <1>2, <1>3, <1>4, <1>5 DEF Host, Poll

LEMMA SessionStepsVM == [SessionNext]_sessionVars => [Next]_vars
<1>1. CompileAlone => UNCHANGED vars
  BY DEF CompileAlone, Compile, gvars
<1>2. Attach => UNCHANGED vars
  BY DEF Attach, reloadVars, gvars
<1>3. UNCHANGED sessionVars => UNCHANGED vars
  BY DEF sessionVars, reloadVars, gvars
<1>. QED  BY <1>1, <1>2, <1>3, HostStepsVM, DebugStepsVM, AddBreakpointStepsVM
          DEF SessionNext, HostAlone

(* A session of reloading and debugging uses the VM as ScmlVM says.        *)
THEOREM SessionUsesVM == SessionSpec => Spec
<1>1. SessionInit => Init
  BY DEF SessionInit, HotInit, GameInit
<1>. QED  BY <1>1, SessionStepsVM, PTL DEF SessionSpec, Spec

-----------------------------------------------------------------------------
(* The types of the session.                                               *)

(* The time stamp of the file changes at most when it is opened and when   *)
(* it is closed: this is what bounds the clock.                            *)
FileInv ==
    /\ file \in Programs \cup {Absent, Partial}
    /\ compiler \in Programs \cup {Idle, Failing}
    /\ compiles \in 0 .. MaxCompiles
    /\ mtime \in Nat \ {0}
    /\ mtime <= 2 * compiles + (IF compiler = Idle THEN 1 ELSE 0)
    /\ lastWrite_ \in 0 .. mtime
    /\ fresh \in BOOLEAN /\ behind \in BOOLEAN

SessionPhase ==
    /\ phase \in {"init", "start", "poll", "stat", "reload", "tick", "terminated"}
    /\ running \in BOOLEAN /\ ok \in BOOLEAN /\ debugging \in BOOLEAN

LEMMA FailingIsNotIdle == Failing # Idle /\ Idle \notin Programs
<1>. SUFFICES ASSUME Failing = Idle PROVE FALSE
  BY HotReloadAssumption
<1>1. IsFiniteSet({Idle}) /\ Cardinality({Idle}) = 1
  BY FS_Singleton
<1>2. IsFiniteSet({Idle} \cup {Partial}) /\ Cardinality({Idle} \cup {Partial}) <= 2
  BY <1>1, FS_AddElement
<1>3. Cardinality({Idle} \cup {Partial}) \in Nat
  BY <1>2, FS_CardinalityType
<1>4. Cardinality(({Idle} \cup {Partial}) \cup {Absent}) <= 3
  <2>. DEFINE S == {Idle} \cup {Partial}
  <2>1. IsFiniteSet(S) /\ Cardinality(S) <= 2 /\ Cardinality(S) \in Nat
    BY <1>2, <1>3
  <2>. HIDE DEF S
  <2>2. Cardinality(S \cup {Absent}) = IF Absent \in S THEN Cardinality(S) ELSE Cardinality(S) + 1
    BY <2>1, FS_AddElement
  <2>3. Cardinality(S \cup {Absent}) <= 3
    BY <2>1, <2>2
  <2>. QED  BY <2>3 DEF S
<1>5. ({Idle} \cup {Partial}) \cup {Absent} = {Absent, Partial, Failing, Idle}
  OBVIOUS
<1>. QED  BY <1>4, <1>5, HotReloadAssumption

LEMMA CompileInv ==
    ASSUME FileInv, Compile
    PROVE  FileInv'
<1>. USE HotReloadAssumption DEF FileInv, Compile, Written
<1>1. CASE OpenOutput
  BY <1>1, FailingIsNotIdle DEF OpenOutput
<1>2. CASE CloseOutput
  BY <1>2 DEF CloseOutput
<1>3. CASE RemoveOutput
  BY <1>3 DEF RemoveOutput
<1>4. CASE CompilerDies
  BY <1>4 DEF CompilerDies
<1>. QED  BY <1>1, <1>2, <1>3, <1>4

LEMMA WatchPollInv ==
    ASSUME FileInv, SessionPhase, Watch \/ PollExists \/ PollStat, debugging' = debugging
    PROVE  FileInv' /\ SessionPhase'
<1>. QED
  BY DEF Watch, PollExists, PollStat, Remember, fileVars, watchVars, FileInv, SessionPhase

LEMMA HostInv ==
    ASSUME FileInv, SessionPhase, Host, debugging' = debugging
    PROVE  FileInv' /\ SessionPhase'
<1>1. CASE Watch \/ PollExists \/ PollStat
  BY <1>1, WatchPollInv
<1>2. CASE LoadScript \/ PollLoad \/ Tick
  BY <1>2 DEF LoadScript, PollLoad, Tick, fileVars, watchVars, FileInv, SessionPhase
<1>3. CASE Run
  BY <1>3, RunStepType DEF Run, fileVars, watchVars, FileInv, SessionPhase
<1>. QED  BY <1>1, <1>2, <1>3 DEF Host, Poll

LEMMA DebugPhase ==
    ASSUME SessionPhase, Debug
    PROVE  SessionPhase'
<1>1. running' \in BOOLEAN
  <2>1. running' = (rc' = 1) \/ running' = running
    BY Zenon DEF Debug
  <2>2. CASE running' = (rc' = 1)
    BY <2>2, SMT
  <2>3. CASE running' = running
    BY <2>3 DEF SessionPhase
  <2>. QED  BY <2>1, <2>2, <2>3
<1>. QED  BY <1>1 DEF Debug, SessionPhase

(* The debugger.  While a continue is under way the host leaves the VM to  *)
(* it, and between two of its steps the VM is not at a breakpoint.         *)
DebugInv ==
    /\ breakpoints \in Seq(Nat)
    /\ Len(breakpoints) <= SCML_DEBUGGER_MAX_BREAKPOINTS
    /\ paused \in BOOLEAN
    /\ continuing \in {"no", "first", "more"}
    /\ continuing # "no" => running /\ debugging
    /\ continuing = "more" => ~IsBreakpoint(pc)

LEMMA DebuggerStepsInv ==
    ASSUME DebugInv, SessionPhase, TypeOK', Debug
    PROVE  DebugInv'
<1>1. paused' \in BOOLEAN
  <2>1. \/ paused' = (rc' > 0 /\ IsBreakpoint(pc'))
        \/ paused' = FALSE
    BY Zenon DEF Debug, DebuggerStep, ContinueStep, DebuggerContinue
  <2>2. CASE rc' > 0 /\ IsBreakpoint(pc')
    BY <2>1, <2>2, Zenon
  <2>3. CASE ~(rc' > 0 /\ IsBreakpoint(pc'))
    BY <2>1, <2>3, Zenon
  <2>. QED  BY <2>2, <2>3
<1>2. breakpoints' = breakpoints
  BY DEF Debug, DebuggerStep, ContinueStep, DebuggerContinue
<1>3. \/ continuing' = "no"
      \/ continuing' = "first" /\ running'
      \/ continuing' = "more" /\ rc' > 0 /\ ~IsBreakpoint(pc') /\ running' = (rc' = 1)
  BY DEF Debug, DebuggerStep, ContinueStep, DebuggerContinue, DebugInv
<1>4. rc' \in {1, 0, -1} /\ debugging' /\ IsBreakpoint(pc)' = IsBreakpoint(pc')
  BY <1>2 DEF TypeOK, Debug, IsBreakpoint
<1>5. ASSUME continuing' = "more" PROVE running' /\ ~IsBreakpoint(pc')
  <2>1. rc' > 0 /\ ~IsBreakpoint(pc') /\ running' = (rc' = 1)
    BY <1>3, <1>5
  <2>2. rc' = 1
    BY <1>4, <2>1, SMT
  <2>. QED  BY <2>1, <2>2, Zenon
<1>. QED  BY <1>1, <1>2, <1>3, <1>4, <1>5 DEF DebugInv

LEMMA AddBreakpointInv ==
    ASSUME DebugInv, TypeOK, AddBreakpoint
    PROVE  DebugInv'
<1>1. PICK at \in Nat : AddPcBreakpoint(at)
  BY DebuggerAssumption DEF AddBreakpoint, AddLabelBreakpoint, TypeOK
<1>. QED  BY <1>1, DebuggerAssumption DEF AddPcBreakpoint, HasRoom, AddBreakpoint, DebugInv

-----------------------------------------------------------------------------
(* The handlers.                                                           *)

(* Handlers are dropped before another version is loaded, and nothing runs *)
(* between the two.                                                        *)
HandlersInv ==
    /\ HandlersOfThisVersion
    /\ phase \in {"init", "start", "stat", "reload"} => ~running
    /\ phase \in {"init", "start", "reload"} => events = NoEntries

LEMMA NoHandlersToBind == events = NoEntries => HandlersOfThisVersion
BY DEF NoEntries, HandlersOfThisVersion

LEMMA SameHandlers ==
    ASSUME HandlersOfThisVersion, UNCHANGED <<code, events>>
    PROVE  HandlersOfThisVersion'
BY DEF HandlersOfThisVersion, Binds

(* The one step that binds takes the handler's address from the code.      *)
LEMMA StepHandlers ==
    ASSUME TypeOK, HandlersOfThisVersion, Step
    PROVE  HandlersOfThisVersion'
<1>1. UNCHANGED code
  BY DEF Step, ServingStep, StepDispatch, StepIdle, StepEndThread, StepTrigger, PlainStep,
         StepTruncated, StepHalt, StepReturn, StepCall, StepNative, StepStore, StepJump,
         StepFail, StepBind, Succeed, Fail
<1>2. CASE UNCHANGED events
  BY <1>1, <1>2, SameHandlers
<1>3. CASE StepBind /\ CanBind(Instr.event)
  <2>1. ThreadType /\ EventsType
    BY DEF TypeOK, ThreadType, EventsType
  <2>2. Instr \in Instruction /\ Instr.op = "bind"
    BY <1>3, <2>1, FetchedInstr DEF StepBind, Fetch
  <2>3. Instr.event \in EventNames /\ Instr.to \in Nat
    BY <2>2, OperandTypes
  <2>4. Binds(code, Instr.event, Instr.to)
    <3>1. code \in Seq(Instruction)
      <4>1. CASE code = <<>>
        BY <4>1
      <4>2. CASE code \in Programs
        BY <4>2, ProgramsAssumption
      <4>. QED  BY <2>1, <4>1, <4>2 DEF ThreadType
    <3>2. pc + 1 \in DOMAIN code
      BY <1>3, <2>1, <3>1 DEF StepBind, Fetch, AtEnd, ThreadType
    <3>. QED  BY <2>2, <3>2 DEF Binds, Instr
  <2>5. events' = Bound(Instr.event, Instr.to)
    BY <1>3 DEF StepBind
  <2>6. HandlersOf(Instr.event) \in Seq(Nat)
    BY <2>1 DEF EventsType, HandlersOf
  <2>7. ASSUME NEW e \in DOMAIN events', NEW i \in DOMAIN events'[e]
        PROVE  Binds(code, e, events'[e][i])
    <3>1. CASE e # Instr.event
      <4>1. e \in DOMAIN events /\ events'[e] = events[e]
        BY <2>5, <3>1 DEF Bound
      <4>. QED  BY <4>1, <2>7 DEF HandlersOfThisVersion
    <3>2. CASE e = Instr.event
      <4>1. events'[e] = Append(HandlersOf(e), Instr.to)
        BY <2>5, <3>2 DEF Bound
      <4>2. \/ i \in 1 .. Len(HandlersOf(e)) /\ events'[e][i] = HandlersOf(e)[i]
            \/ events'[e][i] = Instr.to
        BY <2>3, <2>6, <2>7, <3>2, <4>1
      <4>3. i \in 1 .. Len(HandlersOf(e)) => Binds(code, e, HandlersOf(e)[i])
        BY <2>1 DEF HandlersOf, HandlersOfThisVersion, EventsType
      <4>. QED  BY <2>4, <3>2, <4>2, <4>3
    <3>. QED  BY <3>1, <3>2
  <2>8. HandlersOfThisVersion'
    BY <1>1, <2>7 DEF HandlersOfThisVersion, Binds
  <2>. QED  BY <2>8
<1>. QED  BY <1>2, <1>3
          DEF Step, ServingStep, StepDispatch, StepIdle, StepEndThread, StepTrigger, PlainStep,
              StepTruncated, StepHalt, StepReturn, StepCall, StepNative, StepStore, StepJump,
              StepFail, StepBind, Succeed, Fail

LEMMA HostHandlersInv ==
    ASSUME TypeOK, SessionPhase, HandlersInv, Host
    PROVE  HandlersInv'
<1>1. CASE Watch \/ PollExists
  BY <1>1, SameHandlers DEF Watch, PollExists, HandlersInv, vars, threadVars
<1>2. CASE LoadScript
  <2>1. events' = NoEntries
    BY <1>2 DEF LoadScript, LoadFile, HandlersInv
  <2>2. HandlersOfThisVersion'
    BY <2>1 DEF NoEntries, HandlersOfThisVersion
  <2>. QED  BY <1>2, <2>2 DEF LoadScript, HandlersInv
<1>3. CASE PollStat
  <2>1. CASE UNCHANGED vars /\ phase' \in {"terminated", "tick"}
    BY <1>3, <2>1, SameHandlers DEF PollStat, HandlersInv, vars, threadVars
  <2>2. CASE ClearStaleEvents /\ phase' = "reload"
    <3>1. events' = NoEntries
      BY <2>2 DEF ClearStaleEvents, ClearEvents
    <3>2. HandlersOfThisVersion'
      BY <3>1 DEF NoEntries, HandlersOfThisVersion
    <3>. QED  BY <1>3, <2>2, <3>1, <3>2 DEF PollStat, HandlersInv
  <2>. QED  BY <1>3, <2>1, <2>2 DEF PollStat
<1>4. CASE PollLoad
  <2>1. events' = NoEntries
    BY <1>4 DEF PollLoad, LoadFile, HandlersInv, vars
  <2>2. HandlersOfThisVersion'
    BY <2>1 DEF NoEntries, HandlersOfThisVersion
  <2>. QED  BY <1>4, <2>2 DEF PollLoad, HandlersInv
<1>5. CASE Tick
  BY <1>5, SameHandlers DEF Tick, TriggerEvent, HandlersInv, vars, threadVars
<1>6. CASE Run
  BY <1>6, StepHandlers DEF Run, RunStep, HandlersInv
<1>. QED  BY <1>1, <1>2, <1>3, <1>4, <1>5, <1>6 DEF Host, Poll

LEMMA DebugHandlersInv ==
    ASSUME TypeOK, HandlersInv, Debug
    PROVE  HandlersInv'
<1>1. HandlersOfThisVersion'
  BY StepHandlers, SameHandlers
     DEF Debug, DebuggerStep, ContinueStep, DebuggerContinue, HandlersInv, vars, threadVars
<1>. QED  BY <1>1 DEF Debug, HandlersInv

-----------------------------------------------------------------------------
(* The session's inductive invariant, on top of that of ScmlVM.            *)

SessionInv == FileInv /\ SessionPhase /\ DebugInv /\ HandlersInv

LEMMA SessionInvInit == SessionInit => SessionInv
<1>. SUFFICES ASSUME SessionInit PROVE SessionInv
  OBVIOUS
<1>1. FileInv
  BY HotReloadAssumption DEF SessionInit, HotInit, FileInv
<1>2. SessionPhase
  BY DEF SessionInit, HotInit, GameInit, SessionPhase
<1>3. DebugInv
  <2>1. breakpoints = <<>> /\ paused = FALSE /\ continuing = "no"
    BY DEF SessionInit, DebuggerInit
  <2>2. breakpoints \in Seq(Nat) /\ Len(breakpoints) = 0
    BY <2>1
  <2>3. Len(breakpoints) <= SCML_DEBUGGER_MAX_BREAKPOINTS
    <3>1. SCML_DEBUGGER_MAX_BREAKPOINTS \in Nat
      BY DebuggerAssumption
    <3>. QED  BY <2>2, <3>1
  <2>. QED  BY <2>1, <2>2, <2>3 DEF DebugInv
<1>4. HandlersInv
  BY NoHandlersToBind DEF SessionInit, HotInit, GameInit, Init, HandlersInv
<1>. QED  BY <1>1, <1>2, <1>3, <1>4 DEF SessionInv

LEMMA SessionInvNext ==
    ASSUME SessionInv, TypeOK, TypeOK', [SessionNext]_sessionVars
    PROVE  SessionInv'
<1>. USE DEF SessionInv
<1>1. CASE HostAlone
  <2>1. FileInv' /\ SessionPhase' /\ HandlersInv'
    BY <1>1, HostInv, HostHandlersInv DEF HostAlone
  <2>2. DebugInv'
    BY <1>1 DEF HostAlone, debugVars, DebugInv
  <2>. QED  BY <2>1, <2>2
<1>2. CASE CompileAlone
  <2>1. FileInv'
    BY <1>2, CompileInv DEF CompileAlone
  <2>2. /\ UNCHANGED <<vars, phase, running, ok, debugging, breakpoints, paused, continuing>>
        /\ UNCHANGED <<code, pc, events>>
    BY <1>2 DEF CompileAlone, Compile, gvars, debugVars, vars, threadVars
  <2>3. SessionPhase' /\ DebugInv'
    BY <2>2 DEF SessionPhase, DebugInv, IsBreakpoint
  <2>4. HandlersInv'
    BY <2>2, SameHandlers DEF HandlersInv
  <2>. QED  BY <2>1, <2>3, <2>4
<1>3. CASE Debug
  <2>1. FileInv'
    BY <1>3 DEF Debug, fileVars, watchVars, FileInv
  <2>. QED  BY <1>3, <2>1, DebugPhase, DebuggerStepsInv, DebugHandlersInv
<1>4. CASE AddBreakpoint
  <2>1. UNCHANGED <<phase, running, ok, debugging, file, mtime, compiler, compiles,
                    fresh, lastWrite_, behind, code, events>>
    BY <1>4, AddBreakpointStepsVM DEF AddBreakpoint, fileVars, watchVars, vars, threadVars
  <2>2. FileInv' /\ SessionPhase'
    BY <2>1 DEF FileInv, SessionPhase
  <2>3. HandlersInv'
    BY <2>1, SameHandlers DEF HandlersInv
  <2>. QED  BY <1>4, <2>2, <2>3, AddBreakpointInv
<1>5. CASE Attach \/ UNCHANGED sessionVars
  <2>1. UNCHANGED <<phase, running, ok, file, mtime, compiler, compiles, fresh, lastWrite_,
                    behind, code, events, pc, breakpoints, paused, continuing>>
    BY <1>5 DEF Attach, sessionVars, reloadVars, gvars, fileVars, watchVars, debugVars, vars, threadVars
  <2>2. debugging' \in BOOLEAN /\ (running => debugging' = debugging)
    <3>1. CASE Attach
      <4>1. debugging' = ~debugging /\ ~running
        BY <3>1, Zenon DEF Attach
      <4>. QED  BY <4>1, SMT
    <3>2. CASE UNCHANGED sessionVars
      BY <3>2 DEF sessionVars, SessionPhase
    <3>. QED  BY <1>5, <3>1, <3>2
  <2>3. FileInv' /\ SessionPhase'
    BY <2>1, <2>2 DEF FileInv, SessionPhase
  <2>4. DebugInv'
    BY <2>1, <2>2 DEF DebugInv, IsBreakpoint
  <2>5. HandlersInv'
    BY <2>1, SameHandlers DEF HandlersInv
  <2>. QED  BY <2>3, <2>4, <2>5
<1>. QED  BY <1>1, <1>2, <1>3, <1>4, <1>5 DEF SessionNext

LEMMA SessionInvAlways == SessionSpec => [](SessionInv /\ TypeOK)
<1>1. SessionInv /\ TypeOK /\ TypeOK' /\ [SessionNext]_sessionVars => SessionInv'
  BY SessionInvNext
<1>. QED  BY <1>1, SessionInvInit, SessionUsesVM, TypeCorrect, PTL DEF SessionSpec

(* The host, the compiler's file, the debugger and the VM keep their types,*)
(* and the clock of the file stays within what the compilations explain.   *)
THEOREM SessionTypeCorrect == SessionSpec => []SessionTypeOK
<1>1. SessionInv /\ TypeOK => SessionTypeOK
  <2>. SUFFICES ASSUME SessionInv, TypeOK PROVE SessionTypeOK
    OBVIOUS
  <2>1. mtime \in 1 .. 2 * MaxCompiles + 1
    BY HotReloadAssumption DEF SessionInv, FileInv
  <2>. QED
    BY <2>1 DEF SessionInv, FileInv, SessionPhase, DebugInv, SessionTypeOK, HotTypeOK, DebugTypeOK
<1>. QED  BY <1>1, SessionInvAlways, PTL

(* No event ever starts at an address of a version that was replaced,      *)
(* whatever the compiler does to the file between the steps of a reload.   *)
THEOREM HandlersBelongToCode == SessionSpec => []HandlersOfThisVersion
<1>1. SessionInv => HandlersOfThisVersion
  BY DEF SessionInv, HandlersInv
<1>. QED  BY <1>1, SessionInvAlways, PTL

(* A continue executes no instruction that has a breakpoint, save the one  *)
(* it starts with, however control gets there.                             *)
THEOREM ContinueStopsAtBreakpoints == SessionSpec => []BreakpointsStop
<1>1. SessionInv => BreakpointsStop
  BY DEF SessionInv, DebugInv, BreakpointsStop, IsBreakpoint
<1>. QED  BY <1>1, SessionInvAlways, PTL

=============================================================================
