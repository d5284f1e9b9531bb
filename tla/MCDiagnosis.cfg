SPECIFICATION Spec
CONSTANTS
    rb1 = rb1
    v1 = v1
    d1 = d1
    a1 = a1
    NaN = NaN
    Bad = Bad
    DefaultName = default
    Names <- MCNames
    Dirs <- MCDirs
    Envs <- MCEnvs
    Asked <- MCAsked
    Services <- MCServices
    Answers <- MCAnswers
    Configured <- MCConfigured
INVARIANTS
    StepsKeepTheirNames
    GatesPassOnTruth
CHECK_DEADLOCK FALSE
