SPECIFICATION Spec
CONSTANTS
    Deltas = {1}
    Extents = {1, 2}
    Targets = {0, 3}
    Reach = 1
    MaxPending = 2
    MaxCommands = 3
    Workloads <- Failing
    None = None
INVARIANTS FallbackRuns
CHECK_DEADLOCK FALSE
