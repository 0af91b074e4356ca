CONSTANTS
    good = good  bad = bad
    c1 = c1
    t1 = t1  t2 = t2
    NoTunnel = NoTunnel
    RemoteIPs <- BothIPs
    BadIPs <- OneBadIP
    RemotePorts <- GameAndLobby
    PortsRangeStart = 3
    PortsRangeEnd = 4
    UDPPortsRangeStart = 4
    UDPPortsRangeEnd = 6
    UDPClientBindRangeStart = 6
    UDPClientBindRangeEnd = 6
    ForeignTCP <- Nobody
    ForeignUDP <- Nobody
    Callers <- OneCaller
    Hellos <- OneCaller
    TunnelIds <- TwoTunnels
    UDPIdleTimeout = 1
    ContextTimeout = 5
    ClientTimeout = 6
    WriteTimeout = 6
    ShutdownTimeout = 6
    NewConnection = 2
SPECIFICATION ServerFairSpec
CHECK_DEADLOCK FALSE
INVARIANTS
    ServerTypeOK
    NobodyCutOff
PROPERTIES
    AnsweredInTime
    HelloAnswered
    ServerStops
    IdleLegReaped
