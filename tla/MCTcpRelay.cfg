CONSTANTS
    tcpInjectQueueSize = 2
    OddFromRemote <- Second
    OddFromClient <- Second
    MaxFrames = 3
    MaxAnnounces = 4
CHECK_DEADLOCK FALSE
SPECIFICATION FairSpec
INVARIANTS TypeOK CountedWhileItLasts OneFrameLate
PROPERTIES ClientGetsTheStream RemoteGetsTheStream SessionEnds
