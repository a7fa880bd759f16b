SPECIFICATION FairSpec
CONSTANTS
    Users = {u1, u2, u3}
    Missions = {m1, m2, m3}
    m1 = m1
    m2 = m2
    m3 = m3
    Proposal <- MCProposal
    NoProposal = none
    Drafts = 1
    MaxFresh = 7
    MaxCommands = 3
    MaxFaults = 0

PROPERTIES PostedIsFinal
CHECK_DEADLOCK FALSE
