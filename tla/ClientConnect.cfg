\* The promise of interrupt.rs, against the calls that have no tick.
SPECIFICATION SilentSpec
CONSTANTS
    c1 = c1
    c2 = c2
    Callers = {c1}
    Cap = 1
    MaxCalls = 1
    MaxItems = 1
CHECK_DEADLOCK FALSE
PROPERTIES
    InterruptEndsAnyCall
