CONSTANTS
    good = good
    c1 = c1  c2 = c2
    t1 = t1  t2 = t2  t3 = t3  t4 = t4  t5 = t5
    NoTunnel = NoTunnel
    RemoteIPs <- OneIP
    BadIPs <- Nobody
    RemotePorts <- GameAndLobby
    PortsRangeStart = 3
    PortsRangeEnd = 4
    UDPPortsRangeStart = 4
    UDPPortsRangeEnd = 6
    UDPClientBindRangeStart = 6
    UDPClientBindRangeEnd = 7
    ForeignTCP <- Nobody
    ForeignUDP <- Nobody
    Callers <- TwoCallers
    TunnelIds <- FiveTunnels
    UDPIdleTimeout = 1
SPECIFICATION Spec
INVARIANTS AnswerHasPort
