SPECIFICATION FairSpec
CONSTANTS
    r1 = r1 r2 = r2
    Providers <- MCProviders
    Chain <- MCChain
    Requests = {r1, r2}
    Windows = {"minute"}
    Limit <- MCLimit
    FailureThreshold = 2
    SuccessThreshold = 2
    MaxCount = 4
INVARIANTS TypeOK ClosedIsHealthy BoundedOvershoot
PROPERTIES Recovery
