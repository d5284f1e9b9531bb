SPECIFICATION FairSpec
CONSTANTS
    Tools <- StockTools
    Tags <- StockTags
    Scopes <- StockScopes
    Policies <- StockGated
    Plans <- StockPlans
    Catalogs <- StockCatalog
    MaxRuns = 1
    MaxAttempts = 2
    MaxSignals = 1
PROPERTY ApprovedWriteRuns
CHECK_DEADLOCK FALSE
