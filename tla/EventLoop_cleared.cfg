\* The second of two timers is cleared after its promotion.
SPECIFICATION Spec
CONSTANTS
    Workloads <- TimerOnly
    None = None
    d1 = d1
    d2 = d2
    n1 = n1
PROPERTIES ClearedTimerNeverFires
CHECK_DEADLOCK FALSE
