SPECIFICATION FairSpec
CONSTANTS
    a1 = a1 a2 = a2 a3 = a3 s1 = s1 s2 = s2
    NoAppend = none
    Appends <- MCAppends
    Streams <- MCStreams
    MaxDrops = 2
INVARIANTS TypeOK LogIsGapless ReceivedIsPrefix
PROPERTIES EventuallyReceived
CHECK_DEADLOCK FALSE
