CONSTANTS
    s1 = s1  s2 = s2
    q1 = q1  q2 = q2
    a = a  b = b
    t1 = t1  t2 = t2
    NoTunnel = NoTunnel
    Empty = Empty
    Sessions <- TwoSessions
    Peers <- TwoPeers
    Accounts <- TwoAccounts
    Characters = {hero}
    Nicks = {nick}
    Maps = {cave, crypt}
    Keys = {game}
    TunnelIds <- TwoTunnels
    MaxFrames = 4
SYMMETRY Names
VIEW WithoutGarbage
SPECIFICATION MCSpec
INVARIANTS TypeOK OneEntryAPlayer PlayersStayListed MapIsListed
PROPERTIES SelectionNamesCharacter
\* A behaviour may end once its frames are used up.
CHECK_DEADLOCK FALSE
