CONSTANTS
    tcpInjectQueueSize = 2
    OddFromRemote <- Second
    OddFromClient <- Second
    MaxFrames = 1
    MaxAnnounces = 1
CHECK_DEADLOCK FALSE
SPECIFICATION FairSpec
PROPERTIES GoneClientsAreUnregistered
