SPECIFICATION Spec
CONSTANTS
    Tools = {"logs.search", "k8s.restart"}
    NoTool = "none"
    Unnamed = "unnamed"
    Requests <- MCRequests
    ConfigProvider = ""
    DefaultIterations = 3
    DefaultToolCalls <- MCToolCalls
    DefaultWallTime = 4
    ContextTimeout = 4
    WriteTimeout = 3
    MaxClock = 4
INVARIANT ToolBudgetKept
CHECK_DEADLOCK FALSE
