CONSTANTS
    good = good
    c1 = c1  c2 = c2
    t1 = t1  t2 = t2  t3 = t3  t4 = t4  t5 = t5
    NoTunnel = NoTunnel
    RemoteIPs <- OneIP
    BadIPs <- Nobody
    RemotePorts <- Upstreams
    PortsRangeStart = 3
    PortsRangeEnd = 3
    UDPPortsRangeStart = 3
    UDPPortsRangeEnd = 6
    UDPClientBindRangeStart = 6
    UDPClientBindRangeEnd = 7
    ForeignTCP <- Nobody
    ForeignUDP <- ClientPortNeighbour
    Callers <- TwoCallers
    TunnelIds <- FiveTunnels
    UDPIdleTimeout = 1
SPECIFICATION Spec
VIEW LiveState
SYMMETRY Interchangeable
INVARIANTS TypeOK NoSocketLeak LegConsistent
PROPERTIES AnsweredLegIsOwn LobbyOutlivesTheLeg ImplementsDirectory
