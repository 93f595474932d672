\* Two documents, one name, three requests.
SPECIFICATION FairSpec
CONSTANTS
    Clients = {c1, c2}
    Auxiliary = {}
    Names = {a}
    MaxRequests = 3
    None = None
INVARIANTS MutualExclusion NothingGrantableWaits PageAgrees
PROPERTIES NoBarging NotificationsArrive
CHECK_DEADLOCK FALSE
