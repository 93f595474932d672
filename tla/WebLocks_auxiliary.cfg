\* A page and an auxiliary document that contend for one lock.
SPECIFICATION FairSpec
CONSTANTS
    Clients = {c1, c2}
    Auxiliary = {c2}
    Names = {a}
    MaxRequests = 3
    None = None
PROPERTIES GrantReachesPage
CHECK_DEADLOCK FALSE
