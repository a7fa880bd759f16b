SPECIFICATION Spec
CONSTANTS
    Instances = {i1, i2}
    Clients = {c1}
    Proposals = {p1}
    NoProposal = none
    MaxCrashes = 0
    MaxRejected = 0
    MaxStale = 0
INVARIANTS ExactlyOneOwner
CHECK_DEADLOCK FALSE
