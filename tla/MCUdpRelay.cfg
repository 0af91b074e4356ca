CONSTANTS
    a = a  b = b  s = s
    Clients <- TwoClients
    ServerPeers <- OneServer
    Timeout = 2
    Interval = 1
SPECIFICATION FairSpec
INVARIANTS TypeOK NoEcho SessionsAreClients WritesToKnownClients ClosedInTime
PROPERTIES ClosedOnlyWhenQuiet GoroutinesEnd
