SPECIFICATION FairSpec
CONSTANTS
    Deployments = {"payments"}
    Replicas <- MCReplicas
    StepIDs <- MCStepIDs
    Keys <- MCKeys
    Requests <- MCRequests
    NoKey = "none"
    NoStep = "nostep"
    Runbooks <- MCRunbooks
    Observations <- MCObservations
    Signals <- MCSignals
    MaximumAttempts = 2
    MaxSignals = 2
INVARIANTS
    NoRepeatedUpdate
    NoLostUpdate
    SuccessMeansApplied
    ApprovedBeforeExec
    GateStopsActions
    RecordsAreTrue
    ReplayRebuilds
    AuditShowsApproval
PROPERTIES
    RunbookSettles
    ExecSpec
CHECK_DEADLOCK FALSE
