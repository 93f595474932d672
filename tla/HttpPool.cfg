\* Three workloads; a window of two units and a limit of three.
SPECIFICATION FairSpec
CONSTANTS
    a = a
    b = b
    Hosts = {a, b}
    MaxRedirects = 2
    Window = 2
    BodyLimit = 3
    Workloads <- MCWorkloads
    None = None
INVARIANTS AnswerIsOwn PooledIsClean AttemptsBounded
PROPERTIES CallReturns
CHECK_DEADLOCK FALSE
