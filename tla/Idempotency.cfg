SPECIFICATION FairSpec
CONSTANTS
    r1 = r1
    r2 = r2
    h1 = h1
    h2 = h2
    NoHash = NoHash
    NoRequest = NoRequest
    MaxSends = 3
    Requests <- MCRequests
    Hashes <- MCHashes
INVARIANTS TypeOK OneEffect ResultsAgree
PROPERTIES SettledIsFinal EventuallyAnswered
CHECK_DEADLOCK FALSE
