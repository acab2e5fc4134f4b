CONSTANTS
    Writers = {w1, w2}
    MaxRuns = 3
    Requests <- MCRequests
    Hosts <- MCHosts
    OutputBytes = 1
    MaxOutput = 2
    PipeSize = 2
    ProxyLimit = 1
    MaxAttempts = 2
    Jobs = {j1}
    MaxCancels = 2
    MaxRestarts = 1
    Clients = {d1, d2}
    MaxConnections = 1
    MaxBytes = 1

SPECIFICATION SupervisorSpec

INVARIANTS
    PartsTypeOK
    VerifyIsRight
    LinksNameReports
    OneKeySigns
    EffectiveMeansEnforced
    NothingOutlivesTheRun
    ReportTellsWhatHappened
    DiskFollowsMemory
    FinishedHasNoChild
    NobodyWaitsAfterRestart
    ConnectionsAreSound

PROPERTIES
    CancelOfRunningSticks
    EverythingEnds

\* MaxRuns ends the chain; runs, jobs and connections end.
CHECK_DEADLOCK FALSE
