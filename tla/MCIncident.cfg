SPECIFICATION FairSpec
CONSTANTS
    Tools <- MCTools
    Tags <- MCTags
    Scopes <- MCScopes
    Policies <- MCPolicies
    Plans <- MCPlans
    Catalogs <- MCCatalogs
    MaxRuns = 2
    MaxAttempts = 2
    MaxSignals = 2
INVARIANTS
    CallsAuthorised
    BudgetRespected
    DeniedMeansNoWrite
    CompletedMeansExecuted
    EvalRowTruthful
PROPERTIES
    AlwaysSettles
    ImplementsLifecycle
CHECK_DEADLOCK FALSE
