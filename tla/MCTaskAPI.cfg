SPECIFICATION Spec
CONSTANTS
    Open <- MCOpen
    Artifacts <- MCArtifacts
    Tenants <- MCTenants
    NoTenant = ""
    sanitizeTenantID <- MCSanitize
    Tenancies <- MCTenancies
    Types <- MCTypes
    Credentials <- MCCredentials
    MaxTime = 1
    MaxRequests = 2
    MaxRuns = 2
INVARIANTS
    OwnTaskRuns
    
    OwnersAreServed
CHECK_DEADLOCK FALSE
