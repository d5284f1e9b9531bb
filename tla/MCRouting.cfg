SPECIFICATION FairSpec
CONSTANTS
    t1 = t1
    t2 = t2
    Tasks = {t1, t2}
    Agents <- MCAgents
    LoopChoices <- MCLoopChoices
    TaskType <- MCTaskType
    Hybrid = TRUE
    Softmax = FALSE
    TieBreakRandom = FALSE
    SoftmaxTopN = 5
    MaxCandidates = 1
    RuntimeWeightsMax = 50
    MinRuns = 1
INVARIANTS
    WeightsAreBounded
    CreditWhereDue
    WeightsAreEarned
PROPERTY WeightsConverge
CHECK_DEADLOCK FALSE
