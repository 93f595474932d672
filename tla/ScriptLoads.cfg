\* Three workloads over a page and one frame.
SPECIFICATION FairSpec
CONSTANTS
    frame = frame
    Main = main
    Frames = {frame}
    Workloads <- MCWorkloads
    None = None
INVARIANTS ParserOrder InsertionOrder
PROPERTIES NothingForGone ScriptsSettle
CHECK_DEADLOCK FALSE
