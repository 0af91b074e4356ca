CONSTANTS
    x = x  y = y
    s1 = s1  s2 = s2
    q1 = q1
    AllTunnels = 0
    NoSession = NoSession
    Tunnels <- OneTunnel
    Peers <- OnePeer
    Sessions <- TwoSessions
    Requests <- NoRequest
    tcpInjectQueueSize = 2
CHECK_DEADLOCK FALSE
SPECIFICATION Spec
INVARIANTS WelcomeIsItsOwn
