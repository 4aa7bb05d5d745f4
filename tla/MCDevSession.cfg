\* Compiling, reloading and debugging one script.
CONSTANTS
    START = START  TICK = TICK  retval = retval  Free = Free  HANDLER = HANDLER
    ON_START = START
    ON_TICK = TICK
    Programs <- MCPrograms
    EventNames = {START, TICK}
    GlobalNames = {retval}
    LocalNames = {}
    Values = {0}
    HostHandlers = {}
    SCML_VARS_MAX = 1
    SCML_LOCAL_VARS_MAX = 1
    SCML_CALL_STACK_MAX = 1
    SCML_EVENTS_MAX = 1
    SCML_EVENT_HANDLERS_MAX = 2
    SCML_EVENT_QUEUE_MAX = 3
    RETVAL = retval
    NoItem = Free
    Absent = Absent  Partial = Partial  Failing = Failing  Idle = Idle
    MaxCompiles = 2
    Labels = {HANDLER}
    LabelPc <- MCLabelPc
    HasLabel <- MCHasLabel
    BreakpointPcs = {4}
    SCML_DEBUGGER_MAX_BREAKPOINTS = 2
SPECIFICATION SessionSpec
INVARIANTS SessionTypeOK HandlersOfThisVersion BreakpointsStop
PROPERTIES LastVersionServes TicksHandled
\* The host may be terminated, or wait for a file that never comes.
CHECK_DEADLOCK FALSE
