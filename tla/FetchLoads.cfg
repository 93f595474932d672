\* Two documents, one preflight key, and up to two fetches or three background
\* requests, in the combinations of MCFetchLoads.
SPECIFICATION XhrFairSpec
CONSTANTS
    Documents = {d1, d2}
    k = k
    Home = d1
    Keys = {k}
    Quota = 2
    Sizes = {1, 2}
    Delays = {1}
    Ages = {1, 2}
    MaxFetches = 2
    MaxLoads = 3
    MaxTime = 3
    Workloads <- AllLoads
    None = None
INVARIANTS QuotaExact DeferredFate NothingForRetired EndsOnce
PROPERTIES ApprovalKept FetchAnswered SendSettles
CHECK_DEADLOCK FALSE
