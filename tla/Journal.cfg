SPECIFICATION Spec
CONSTANTS
    Users = {u1, u2, u3}
    Missions = {m1, m2, m3}
    m1 = m1
    m2 = m2
    m3 = m3
    Proposal <- MCProposal
    NoProposal = none
    Drafts = 1
    MaxFresh = 9
    MaxCommands = 4
    MaxFaults = 1
SYMMETRY Symmetry
INVARIANTS TypeOK OneBody CloseIsAllOrNothing
PROPERTIES ClosingEntriesAreFinal DeletedStaysDeleted
CHECK_DEADLOCK FALSE
