SPECIFICATION FairSpec
CONSTANTS
    Instances = {i1, i2}
    Clients = {c1}
    Proposals = {p1}
    NoProposal = none
    MaxCrashes = 1
    MaxRejected = 0
    MaxStale = 0
PROPERTIES QueuedIsResumed
CHECK_DEADLOCK FALSE
