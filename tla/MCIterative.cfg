SPECIFICATION FairSpec
CONSTANTS
    Tools <- MCTools
    Tags <- MCTags
    Scopes <- MCScopes
    Policies <- MCPolicies
    Plans <- MCPlans
    MaxIterations = 3
    MaxAttempts = 2
    MaxSignals = 2
INVARIANTS
    WritesApproved
    DeniedMeansNoWrite
    OutcomeIsTrue
    EvidenceCoversEffects
PROPERTIES
    IterativeSettles
    ImplementsLifecycle
CHECK_DEADLOCK FALSE
