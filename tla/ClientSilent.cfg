\* One caller, as in a PostgreSQL backend, and a server that may stay silent.
\* The calls are bounded and the client is dropped in the end: the system stops.
SPECIFICATION SilentSpec
CONSTANTS
    c1 = c1
    c2 = c2
    Callers = {c1}
    Cap = 1
    MaxCalls = 3
    MaxItems = 2
CHECK_DEADLOCK FALSE
PROPERTIES
    InterruptEndsCall
    RuntimeExits
