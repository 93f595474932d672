\* Three workloads: task queues, timers, and documents that end.
SPECIFICATION Spec
CONSTANTS
    Workloads <- AllLoads
    None = None
    d1 = d1
    d2 = d2
    n1 = n1
SYMMETRY DocumentSymmetry
INVARIANTS TaskOrder TimersInOrder NothingOfRetired
PROPERTIES DelayIsExact
CHECK_DEADLOCK FALSE
