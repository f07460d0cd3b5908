\* Two callers on a channel of capacity 1: backpressure, queueing, shutdown.
\* The calls are bounded and the client is dropped in the end: the system stops.
SPECIFICATION Spec
CONSTANTS
    c1 = c1
    c2 = c2
    Callers = {c1, c2}
    Cap = 1
    MaxCalls = 2
    MaxItems = 2
CHECK_DEADLOCK FALSE
INVARIANTS
    JobsHaveWaiters
    WaitersHaveJobs
    CancelOnlyWhenAsked
PROPERTIES
    ServesCalls
    CallReturns
