\* Two host triggers next to those of the script, two loads, a ring of two slots.
CONSTANTS
    A = A  B = B  C = C  retval = retval  Free = Free
    Programs <- MCPrograms
    EventNames = {A, B, C}
    GlobalNames = {retval}
    LocalNames = {}
    Values = {0}
    HostHandlers = {6}
    SCML_VARS_MAX = 1
    SCML_LOCAL_VARS_MAX = 1
    SCML_CALL_STACK_MAX = 1
    SCML_EVENTS_MAX = 2
    SCML_EVENT_HANDLERS_MAX = 2
    SCML_EVENT_QUEUE_MAX = 3
    RETVAL = retval
    NoItem = Free
    MaxTriggers = 2
    MaxLoads = 2
SPECIFICATION FairHistSpec
INVARIANTS HistTypeOK OneActivationPerTrigger NothingLost HandlersInOrder FirstComeFirstServed
PROPERTY EventuallySettled
