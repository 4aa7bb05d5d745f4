\* The VM on its own: any API call between any two steps, a ring of two
\* usable slots, one frame, one handler fewer than a script asks for.
CONSTANTS
    A = A  B = B
    retval = retval  x = x
    Free = Free
    Programs <- MCPrograms
    EventNames = {A, B}
    GlobalNames = {retval}
    LocalNames = {x}
    Values = {0, 1}
    HostHandlers = {7}
    SCML_VARS_MAX = 1
    SCML_LOCAL_VARS_MAX = 1
    SCML_CALL_STACK_MAX = 1
    SCML_EVENTS_MAX = 2
    SCML_EVENT_HANDLERS_MAX = 2
    SCML_EVENT_QUEUE_MAX = 3
    RETVAL = retval
    NoItem = Free
SPECIFICATION Spec
INVARIANTS TypeOK RingOwned StartedStaysRunnable
PROPERTIES ImplementsDelivery FailedStepSkips
