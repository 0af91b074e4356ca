CONSTANTS
    x = x  y = y
    s1 = s1  s2 = s2
    q1 = q1
    AllTunnels = 0
    NoSession = NoSession
    Tunnels <- TwoTunnels
    Peers <- TwoPeers
    Sessions <- TwoSessions
    Requests <- OneRequest
    tcpInjectQueueSize = 1
CHECK_DEADLOCK FALSE
SPECIFICATION FairSpec
INVARIANTS TypeOK CountsAreTrue WelcomesAreEarned
PROPERTIES WelcomeArrives
