SPECIFICATION FairSpec
CONSTANTS
    Tools = {"logs.search", "k8s.restart"}
    NoTool = "none"
    Unnamed = "unnamed"
    Requests <- MCRequests
    ConfigProvider = ""
    DefaultIterations = 3
    DefaultToolCalls <- MCToolCalls
    DefaultWallTime = 4
    ContextTimeout = 4
    WriteTimeout = 3
    MaxClock = 4
INVARIANTS
    CallsAreKnown
PROPERTY KeepsLoopPromise
CHECK_DEADLOCK FALSE
