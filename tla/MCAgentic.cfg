SPECIFICATION FairSpec
CONSTANTS
    Tools <- MCTools
    Tags <- MCTags
    Scopes <- MCScopes
    Policies <- MCPolicies
    Plans <- MCPlans
    MaxIterations = 2
    MaxAttempts = 2
    MaxSignals = 2
INVARIANTS
    BlockedWriteEndsIteration
    EffectsAccounted
    WaitingIsVisible
PROPERTIES
    LoopSettles
    ImplementsLifecycle
CHECK_DEADLOCK FALSE
