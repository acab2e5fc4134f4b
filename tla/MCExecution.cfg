CONSTANTS
    Requests <- MCRequests
    Hosts <- MCHosts
    OutputBytes = 1
    MaxOutput = 2
    PipeSize = 2
    ProxyLimit = 1
    MaxAttempts = 2

SPECIFICATION RunSpec

INVARIANT ObservedIsTheLoads

\* A run ends.
CHECK_DEADLOCK FALSE
