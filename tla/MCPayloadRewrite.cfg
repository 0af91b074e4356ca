SPECIFICATION Spec
CONSTANTS
    Cont = 32
    MaxVarint = 3
    Fixed64 = 2
    Fixed32 = 1
    MaxDepth = 2
    Host = host
    Lookalike = lookalike
    Proxy = proxy
    ProxyIP = proxy
    Addrs <- AddrsDef
    GamePorts = {5, 57}
    LocalPort <- LocalPortDef
    UDPClientPort <- UDPClientPortDef
    Iterations <- IterationsDef
    IpText <- IpTextDef
    PortText <- PortTextDef
    Digits <- DigitsDef
    MaxDigits = 2
    Colon = 26
    Slash = 15
    Http <- HttpDef
    PathBytes <- PathBytesDef
    MaxText = 10
    Bodies <- BodiesDef
INVARIANTS
    TypeOK
    MeaningKept
    SplitTogether
    RecordsKept
    LeadsWhereTheFrameSaid
