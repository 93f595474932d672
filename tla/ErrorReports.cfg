\* Three workloads; the lease and the cooldown are one unit of a clock of three.
SPECIFICATION FairSpec
CONSTANTS
    p1 = p1
    p2 = p2
    Scanners = {p1}
    Operators = {p2}
    Lease = 1
    Cooldown = 1
    InitialBackoff = 1
    MaxBackoff = 2
    Hour = 1
    Day = 2
    MaxFailures = 2
    MaxPerRun = 2
    FailureCap = 3
    MaxTime = 2
    Workloads <- MCWorkloads
    None = None
INVARIANTS SubmittedWasAccepted LeaseExclusive
PROPERTIES RecordedCooldown PendingIsTried
CHECK_DEADLOCK FALSE
