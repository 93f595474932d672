\* A download within the body limit from a healthy server.
SPECIFICATION Spec
CONSTANTS
    a = a
    b = b
    Hosts = {a, b}
    MaxRedirects = 1
    Window = 2
    BodyLimit = 3
    Workloads <- MCDownload
    None = None
INVARIANTS LargeBodyArrives
CHECK_DEADLOCK FALSE
