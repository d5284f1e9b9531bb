SPECIFICATION Spec
CONSTANTS
    Tools <- MCTools
    Tags <- MCTags
    Scopes <- MCScopes
    Policies <- ReadPolicies
    Plans <- ReadPlans
    MaxIterations = 5
    MaxAttempts = 1
    MaxSignals = 1
INVARIANT LoopEndsWhenDone
CHECK_DEADLOCK FALSE
