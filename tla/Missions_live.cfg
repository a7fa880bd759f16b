SPECIFICATION FairSpec
CONSTANTS
    Instances = {i1, i2}
    Clients = {c1}
    Proposals = {p1}
    NoProposal = none
    MaxCrashes = 2
    MaxRejected = 1
    MaxStale = 0
PROPERTIES RunningEnds
CHECK_DEADLOCK FALSE
