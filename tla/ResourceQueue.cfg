\* Two jobs of two priorities and two workers, with the fairness of the threads.
SPECIFICATION FairSpec
CONSTANTS
    Workers = {w1, w2}
    Scopes = {s1}
    Priority = {0, 2}
    IdLimit = 2
    Dropper = dropper
    None = None
INVARIANTS TypeOK OnePlace NoOvertaking NoLostWakeup NoSleeperAfterDrop
PROPERTIES CancelledWaitingNeverRuns OwnerHears ImplementsPromise
\* The pool stops for good once its last handle is dropped.
CHECK_DEADLOCK FALSE
