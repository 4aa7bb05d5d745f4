\* A handler that ends inside a subroutine, frame after frame.
CONSTANTS
    START = START  TICK = TICK  HIT = HIT  retval = retval  Free = Free
    ON_START = START
    ON_TICK = TICK
    Programs <- AbandonPrograms
    EventNames = {START, TICK, HIT}
    GlobalNames = {retval}
    LocalNames = {}
    Values = {0}
    HostHandlers = {}
    SCML_VARS_MAX = 1
    SCML_LOCAL_VARS_MAX = 1
    SCML_CALL_STACK_MAX = 2
    SCML_EVENTS_MAX = 2
    SCML_EVENT_HANDLERS_MAX = 2
    SCML_EVENT_QUEUE_MAX = 5
    RETVAL = retval
    NoItem = Free
SPECIFICATION LoopSpec
PROPERTY HandlersStartOutsideCalls
