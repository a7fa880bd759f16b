SPECIFICATION Spec
CONSTANTS
    Instances = {i1, i2}
    Clients = {c1, c2}
    Proposals = {p1, p2}
    NoProposal = none
    MaxCrashes = 2
    MaxRejected = 1
    MaxStale = 1
INVARIANTS TypeOK CheckedRowIsCurrent DecisionMatchesLog
PROPERTIES LateResultsAreDropped
CHECK_DEADLOCK FALSE
SYMMETRY Symmetry
