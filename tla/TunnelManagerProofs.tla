------------------------- MODULE TunnelManagerProofs -------------------------
(***************************************************************************)
(* Theorems about TunnelManager, for every set of upstreams, callers and    *)
(* ports.  The inductive invariant says who owns each socket and which     *)
(* objects have a leg; the safety properties follow from it.                *)
(***************************************************************************)
EXTENDS TunnelManager, TLAPS

\* An object of the registry or of a caller has a leg exactly while it reports
\* a client port, and only while it is registered under its key.
LegsInPlace ==
    \A t \in TunnelIds : /\ hasUDP(info[t]) <=> info[t].udpClientPort # 0
                         /\ hasUDP(info[t]) => InPlace(t)

\* A bound client port is the one its owner reports.
UDPPortsOwned ==
    \A p \in UDPClientBindRange : udpOwner[p] # NoTunnel =>
        /\ InPlace(udpOwner[p])
        /\ info[udpOwner[p]].udpClientPort = p

\* A listening port is the one its owner reports.
TCPPortsOwned ==
    \A p \in TCPPool : tcpOwner[p] # NoTunnel =>
        /\ InPlace(tcpOwner[p])
        /\ info[tcpOwner[p]].tcpListener
        /\ info[tcpOwner[p]].localPort = p

\* An open leg has its upstream socket and the client port it reports.
OpenLegs ==
    \A t \in upstream : /\ hasUDP(info[t]) /\ InPlace(t)
                        /\ udpOwner[info[t].udpClientPort] = t

\* A tunnel has a listener exactly while it reports a TCP port.
ListenersHavePorts == \A t \in TunnelIds : info[t].tcpListener <=> info[t].localPort # 0

\* A tunnel is registered under its key, and has a leg or a listener, except
\* that the tunnels of a pass are deleted when the pass ends.
RegisteredHaveSockets ==
    \A k \in Keys : tunnels[k] # NoTunnel =>
        /\ info[tunnels[k]].key = k
        /\ hasUDP(info[tunnels[k]]) \/ info[tunnels[k]].tcpListener \/ reaper = "evicting"

\* The reaper and Close exclude each other, and only the one that has the lock
\* leaves a leg cut, one that it has still to close and whose port nobody has.
OneCloser ==
    /\ ~(reaper = "evicting" /\ closing = "closing")
    /\ Unlocked => due = {}
    /\ \A t \in Cut : t \in due /\ udpOwner[info[t].udpClientPort] = NoTunnel

\* NoSocketLeak and LegConsistent are not inductive: closing a leg releases the
\* ports of a tunnel, which are all its ports only if the owner of a port is
\* the tunnel that reports it, and a leg is whole when the lock is free only
\* because a cut one is among those its closer has still to close.
IInv == TypeOK /\ LegsInPlace /\ UDPPortsOwned /\ TCPPortsOwned /\ OpenLegs
               /\ ListenersHavePorts /\ RegisteredHaveSockets /\ OneCloser

-----------------------------------------------------------------------------
\* The objects createTunnel makes are tunnels.
LEMMA MadeTunnel ==
    ASSUME NEW k \in Keys, NEW p \in TCPPool \cup {0},
           NEW u \in UDPClientBindRange \cup {0}
    PROVE  MakeTunnel(k, p, u) \in Tunnel
BY DEF MakeTunnel, Tunnel

\* Zero is no port.
LEMMA ZeroIsNoPort == 0 \notin TCPPool /\ 0 \notin UDPClientBindRange
BY RangesAssumption DEF TCPPool, UDPClientBindRange

\* A bind ends on a free port of its range.
LEMMA BindsFreePort ==
    ASSUME NEW c \in Callers, NEW busy
    PROVE  /\ \A p \in TCPChoices(c, busy) : p \in TCPPool /\ tcpOwner[p] = NoTunnel
           /\ \A u \in UDPChoices(busy) : u \in UDPClientBindRange /\ udpOwner[u] = NoTunnel
BY DEF TCPChoices, UDPChoices, listenTCPInPortRange, listenUDPInPortRange, Lowest,
       FreeTCP, FreeUDP

\* Some key exists.
LEMMA AnyKeyIsKey == AnyKey \in Keys
BY KeysAssumption DEF AnyKey

-----------------------------------------------------------------------------
\* The initial state satisfies the invariant.
LEMMA InitIInv == Init => IInv
<1> SUFFICES ASSUME Init PROVE IInv
    OBVIOUS
<1>1. MakeTunnel(AnyKey, 0, 0) \in Tunnel
    BY MadeTunnel, AnyKeyIsKey
<1>2. TypeOK
    BY <1>1, AnyKeyIsKey, NamesAssumption DEF Init, TypeOK, Vias, Answers, NoAnswer
<1>3. LegsInPlace
    BY DEF Init, LegsInPlace, hasUDP, MakeTunnel
<1>4. UDPPortsOwned /\ TCPPortsOwned /\ OpenLegs
    BY DEF Init, UDPPortsOwned, TCPPortsOwned, OpenLegs
<1>5. ListenersHavePorts /\ RegisteredHaveSockets
    BY DEF Init, ListenersHavePorts, RegisteredHaveSockets, MakeTunnel
<1>6. OneCloser
    BY DEF Init, OneCloser, Cut, hasUDP, MakeTunnel
<1> QED
    BY <1>2, <1>3, <1>4, <1>5, <1>6 DEF IInv

-----------------------------------------------------------------------------
\* Closing the leg of a tunnel leaves a tunnel.
LEMMA ClosedLegIsTunnel ==
    ASSUME NEW o \in Tunnel
    PROVE  closeUDPLeg(o) \in Tunnel
BY DEF closeUDPLeg, Tunnel

\* An answer leaves the callers' variables well typed.
LEMMA AnswerTyped ==
    ASSUME TypeOK, NEW c \in Callers, NEW t \in TunnelIds, NEW o \in Tunnel,
           Answer(c, t, o)
    PROVE  /\ pc' \in [Callers -> {"idle", "lookup", "copy", "lock", "replied", "failed"}]
           /\ via' \in [Callers -> Vias]
           /\ want' \in [Callers -> Keys]
           /\ ref' \in [Callers -> TunnelIds \cup {NoTunnel}]
           /\ \A d \in Callers : ref'[d] # NoTunnel <=> pc'[d] \in {"copy", "replied"}
           /\ reply' \in [Callers -> Answers]
<1>1. TunnelInfo(o) \in Answers
    BY DEF TunnelInfo, Answers, Tunnel
<1>2. t # NoTunnel
    BY NamesAssumption
<1> QED
    BY <1>1, <1>2 DEF Answer, TypeOK

\* A registration keeps every variable in its type.
LEMMA RegisterTyped ==
    ASSUME TypeOK, NEW c \in Callers, NEW o \in Tunnel,
           o.tcpListener => o.localPort # 0, hasUDP(o) => o.udpClientPort # 0,
           Register(c, o), UNCHANGED locks
    PROVE  TypeOK'
<1> PICK t \in TunnelIds :
        /\ info' = [info EXCEPT ![t] = o]
        /\ tunnels' = [tunnels EXCEPT ![want[c]] = t]
        /\ tcpOwner' = IF o.tcpListener THEN [tcpOwner EXCEPT ![o.localPort] = t]
                                        ELSE tcpOwner
        /\ udpOwner' = IF hasUDP(o) THEN [udpOwner EXCEPT ![o.udpClientPort] = t]
                                    ELSE udpOwner
        /\ upstream' = IF hasUDP(o) THEN upstream \cup {t} ELSE upstream
        /\ Answer(c, t, o)
    BY DEF Register
<1>1. info' \in [TunnelIds -> Tunnel] /\ tunnels' \in [Keys -> TunnelIds \cup {NoTunnel}]
    BY DEF TypeOK
<1>2. /\ tcpOwner' \in [TCPPool -> TunnelIds \cup {NoTunnel}]
      /\ udpOwner' \in [UDPClientBindRange -> TunnelIds \cup {NoTunnel}]
      /\ upstream' \subseteq TunnelIds
    BY DEF TypeOK
<1> QED
    BY <1>1, <1>2, AnswerTyped DEF TypeOK, locks

\* Every step keeps every variable in its type.
LEMMA TypeStep ==
    ASSUME TypeOK, [Next]_vars
    PROVE  TypeOK'
<1> USE NamesAssumption
<1>1. ASSUME NEW c \in Callers, Call(c) PROVE TypeOK'
    BY <1>1 DEF TypeOK, Call, sockets, locks, Vias
<1>2. ASSUME NEW c \in Callers, Lookup(c) PROVE TypeOK'
    BY <1>2 DEF TypeOK, Lookup, sockets, locks
<1>3. ASSUME NEW c \in Callers, CopyInfo(c) PROVE TypeOK'
    <2>1. ref[c] \in TunnelIds /\ info[ref[c]] \in Tunnel
        BY <1>3 DEF TypeOK, CopyInfo
    <2> QED
        BY <1>3, <2>1, AnswerTyped DEF TypeOK, CopyInfo, sockets, locks
<1>4. ASSUME NEW c \in Callers, Recheck(c) PROVE TypeOK'
    <2>1. tunnels[want[c]] \in TunnelIds /\ info[tunnels[want[c]]] \in Tunnel
        BY <1>4 DEF TypeOK, Recheck
    <2> QED
        BY <1>4, <2>1, AnswerTyped DEF TypeOK, Recheck, sockets, locks
<1>5. ASSUME NEW c \in Callers, CreateUDPOnly(c) PROVE TypeOK'
    <2>1. PICK u \in UDPClientBindRange : Register(c, MakeTunnel(want[c], 0, u))
        BY <1>5, BindsFreePort DEF CreateUDPOnly
    <2>2. MakeTunnel(want[c], 0, u) \in Tunnel
        BY MadeTunnel DEF TypeOK
    <2> QED
        BY <1>5, <2>1, <2>2, RegisterTyped DEF CreateUDPOnly, MakeTunnel, hasUDP
<1>6. ASSUME NEW c \in Callers, CreateTCPOnly(c) PROVE TypeOK'
    <2>1. PICK p \in TCPPool : Register(c, MakeTunnel(want[c], p, 0))
        BY <1>6, BindsFreePort DEF CreateTCPOnly
    <2>2. MakeTunnel(want[c], p, 0) \in Tunnel
        BY MadeTunnel DEF TypeOK
    <2> QED
        BY <1>6, <2>1, <2>2, RegisterTyped DEF CreateTCPOnly, MakeTunnel, hasUDP
<1>7. ASSUME NEW c \in Callers, CreateMixed(c) PROVE TypeOK'
    <2>1. PICK p \in TCPPool, u \in UDPClientBindRange :
              Register(c, MakeTunnel(want[c], p, u))
        BY <1>7, BindsFreePort DEF CreateMixed
    <2>2. MakeTunnel(want[c], p, u) \in Tunnel
        BY MadeTunnel DEF TypeOK
    <2> QED
        BY <1>7, <2>1, <2>2, RegisterTyped DEF CreateMixed, MakeTunnel, hasUDP
<1>8. ASSUME NEW c \in Callers, CreateWithoutUDP(c) PROVE TypeOK'
    <2>1. PICK p \in TCPPool, t \in TunnelIds :
              /\ info' = [info EXCEPT ![t] = MakeTunnel(want[c], p, 0)]
              /\ tunnels' = [tunnels EXCEPT ![want[c]] = t]
              /\ Answer(c, t, MakeTunnel(want[c], p, 0))
        BY <1>8, BindsFreePort DEF CreateWithoutUDP
    <2>2. MakeTunnel(want[c], p, 0) \in Tunnel
        BY MadeTunnel DEF TypeOK
    <2>3. /\ info' \in [TunnelIds -> Tunnel]
          /\ tunnels' \in [Keys -> TunnelIds \cup {NoTunnel}]
        BY <2>1, <2>2 DEF TypeOK
    <2> QED
        BY <1>8, <2>1, <2>2, <2>3, AnswerTyped DEF TypeOK, CreateWithoutUDP, sockets, locks
<1>9. ASSUME NEW c \in Callers, CreateFails(c) PROVE TypeOK'
    BY <1>9 DEF TypeOK, CreateFails, Creating, sockets, locks
<1>10. ASSUME NEW c \in Callers, TunnelForRemoteIP(c) PROVE TypeOK'
    <2>1. PICK k \in Keys :
            /\ tunnels[k] # NoTunnel
            /\ want' = [want EXCEPT ![c] = k]
            /\ ref' = [ref EXCEPT ![c] = tunnels[k]]
            /\ reply' = [reply EXCEPT ![c] = TunnelInfo(info[tunnels[k]])]
        BY <1>10 DEF TunnelForRemoteIP
    <2>2. tunnels[k] \in TunnelIds /\ TunnelInfo(info[tunnels[k]]) \in Answers
        BY <2>1 DEF TypeOK, TunnelInfo, Answers, Tunnel
    <2> QED
        BY <1>10, <2>1, <2>2 DEF TypeOK, TunnelForRemoteIP, sockets, locks, Vias
<1>11. ASSUME NEW c \in Callers, Done(c) PROVE TypeOK'
    BY <1>11, AnyKeyIsKey DEF TypeOK, Done, sockets, locks, Vias, NoAnswer, Answers
<1>12. ASSUME NEW t \in TunnelIds, Traffic(t) PROVE TypeOK'
    <2>1. PICK b \in BOOLEAN : info' = [info EXCEPT ![t] = [info[t] EXCEPT !.idle = b]]
        BY <1>12 DEF Traffic, LegIdles, LegActive
    <2>2. info[t] \in Tunnel
        BY DEF TypeOK
    <2>3. [info[t] EXCEPT !.idle = b] \in Tunnel
        BY <2>2 DEF Tunnel
    <2>4. info' \in [TunnelIds -> Tunnel]
        BY <2>1, <2>3 DEF TypeOK
    <2> QED
        BY <1>12, <2>4 DEF TypeOK, Traffic, LegIdles, LegActive, sockets, callers, locks
<1>13. ASSUME NEW t \in TunnelIds, CloseLegSockets(t) PROVE TypeOK'
    BY <1>13 DEF TypeOK, CloseLegSockets, callers, locks, CloseSockets
<1>14. ASSUME NEW t \in TunnelIds, ForgetLeg(t),
             tcpOwner' = tcpOwner \/ tcpOwner' = CloseSockets(tcpOwner, t),
             \/ tunnels' = tunnels
             \/ tunnels' = [k \in Keys |-> IF tunnels[k] = t THEN NoTunnel ELSE tunnels[k]]
       PROVE TypeOK'
    <2>1. info' \in [TunnelIds -> Tunnel]
        BY <1>14, ClosedLegIsTunnel DEF TypeOK, ForgetLeg
    <2>2. tcpOwner' \in [TCPPool -> TunnelIds \cup {NoTunnel}]
        BY <1>14 DEF TypeOK, CloseSockets
    <2>3. tunnels' \in [Keys -> TunnelIds \cup {NoTunnel}]
        BY <1>14 DEF TypeOK
    <2> QED
        BY <1>14, <2>1, <2>2, <2>3 DEF TypeOK, ForgetLeg, callers
<1>15. CASE Reap
    <2>1. ASSUME NEW t \in TunnelIds, EvictLeg(t) PROVE TypeOK'
        BY <1>13, <1>14, <2>1 DEF EvictLeg, ForgetLeg
    <2>2. CASE BeginPass
        BY <2>2 DEF TypeOK, BeginPass, sockets, callers, Evicted
    <2>3. CASE EndPass
        BY <2>3 DEF TypeOK, EndPass, sockets, callers
    <2> QED
        BY <1>15, <2>1, <2>2, <2>3 DEF Reap
<1>16. CASE ReaperExit \/ SignalClose
    BY <1>16 DEF TypeOK, ReaperExit, SignalClose, sockets, callers
<1>17. CASE CloseAll
    <2>1. ASSUME NEW t \in TunnelIds, CloseTunnel(t) PROVE TypeOK'
        BY <1>13, <1>14, <2>1 DEF CloseTunnel, ForgetLeg
    <2>2. CASE BeginClose \/ EndClose
        BY <2>2 DEF TypeOK, BeginClose, EndClose, sockets, callers
    <2> QED
        BY <1>17, <2>1, <2>2 DEF CloseAll
<1>18. CASE UNCHANGED vars
    BY <1>18 DEF TypeOK, vars, sockets, callers, locks
<1> QED
    BY <1>1, <1>2, <1>3, <1>4, <1>5, <1>6, <1>7, <1>8, <1>9, <1>10, <1>11, <1>12,
       <1>15, <1>16, <1>17, <1>18 DEF Next, Caller, EnsureTunnel

-----------------------------------------------------------------------------
\* A new object, registered under a key that had none and given free ports or
\* none, keeps the invariant.
LEMMA RegisteredOwned ==
    ASSUME IInv, TypeOK', NEW k \in Keys, NEW t \in TunnelIds, NEW o \in Tunnel,
           Fresh(t), tunnels[k] = NoTunnel,
           o.key = k, hasUDP(o) <=> o.udpClientPort # 0, hasUDP(o) \/ o.tcpListener,
           o.tcpListener <=> o.localPort # 0,
           info' = [info EXCEPT ![t] = o],
           tunnels' = [tunnels EXCEPT ![k] = t],
           \/ tcpOwner' = tcpOwner
           \/ /\ o.tcpListener
              /\ tcpOwner' = [tcpOwner EXCEPT ![o.localPort] = t],
           hasUDP(o) => udpOwner[o.udpClientPort] = NoTunnel,
           udpOwner' = IF hasUDP(o) THEN [udpOwner EXCEPT ![o.udpClientPort] = t]
                                    ELSE udpOwner,
           upstream' = IF hasUDP(o) THEN upstream \cup {t} ELSE upstream,
           Unlocked, UNCHANGED locks
    PROVE  IInv'
<1> USE NamesAssumption, ZeroIsNoPort
<1>1. ~InPlace(t) /\ ~hasUDP(info[t])
    BY DEF IInv, TypeOK, LegsInPlace, InPlace, Fresh, Tunnel
<1>2. InPlace(t)' /\ info'[t] = o
    BY DEF InPlace, IInv, TypeOK
<1>3. ASSUME NEW u \in TunnelIds, InPlace(u) PROVE u # t /\ info'[u] = info[u] /\ InPlace(u)'
    BY <1>1, <1>3 DEF InPlace, IInv, TypeOK, Tunnel
<1>4. ASSUME NEW u \in TunnelIds, u # t PROVE info'[u] = info[u]
    BY <1>4 DEF IInv, TypeOK
<1>5. LegsInPlace'
    BY <1>2, <1>3, <1>4 DEF IInv, LegsInPlace, hasUDP
<1>6. UDPPortsOwned'
    <2> SUFFICES ASSUME NEW p \in UDPClientBindRange, udpOwner'[p] # NoTunnel
                 PROVE  InPlace(udpOwner[p])' /\ info'[udpOwner'[p]].udpClientPort = p
        BY DEF UDPPortsOwned
    <2>1. CASE hasUDP(o) /\ p = o.udpClientPort
        BY <2>1, <1>2 DEF IInv, TypeOK, InPlace
    <2>2. CASE ~(hasUDP(o) /\ p = o.udpClientPort)
        <3>1. udpOwner'[p] = udpOwner[p]
            BY <2>2 DEF IInv, TypeOK
        <3> QED
            BY <3>1, <1>3 DEF IInv, TypeOK, UDPPortsOwned, InPlace
    <2> QED
        BY <2>1, <2>2
<1>7. TCPPortsOwned'
    <2> SUFFICES ASSUME NEW p \in TCPPool, tcpOwner'[p] # NoTunnel
                 PROVE  /\ InPlace(tcpOwner[p])'
                        /\ info'[tcpOwner'[p]].tcpListener
                        /\ info'[tcpOwner'[p]].localPort = p
        BY DEF TCPPortsOwned
    <2>1. CASE tcpOwner'[p] = tcpOwner[p]
        BY <2>1, <1>3 DEF IInv, TypeOK, TCPPortsOwned, InPlace
    <2>2. CASE tcpOwner'[p] # tcpOwner[p]
        <3>1. o.tcpListener /\ p = o.localPort /\ tcpOwner'[p] = t
            BY <2>2 DEF IInv, TypeOK
        <3> QED
            BY <3>1, <1>2 DEF InPlace
    <2> QED
        BY <2>1, <2>2
<1>8. OpenLegs'
    <2> SUFFICES ASSUME NEW u \in upstream'
                 PROVE  /\ hasUDP(info'[u]) /\ InPlace(u)'
                        /\ udpOwner'[info'[u].udpClientPort] = u
        BY DEF OpenLegs, hasUDP
    <2>1. CASE u = t
        <3>1. hasUDP(o)
            BY <2>1, <1>1 DEF IInv, OpenLegs
        <3>2. udpOwner'[o.udpClientPort] = t
            BY <3>1 DEF IInv, TypeOK, Tunnel
        <3> QED
            BY <2>1, <3>1, <3>2, <1>2
    <2>2. CASE u # t
        <3>1. u \in upstream /\ u \in TunnelIds
            BY <2>2 DEF IInv, TypeOK
        <3>2. hasUDP(info[u]) /\ InPlace(u) /\ udpOwner[info[u].udpClientPort] = u
            BY <3>1 DEF IInv, OpenLegs
        <3>3. info[u].udpClientPort \in UDPClientBindRange \cup {0}
            BY <3>1 DEF IInv, TypeOK, Tunnel
        <3>4. udpOwner'[info[u].udpClientPort] = u
            BY <3>1, <3>2, <3>3 DEF IInv, TypeOK, LegsInPlace
        <3> QED
            BY <3>1, <3>2, <3>4, <1>3
    <2> QED
        BY <2>1, <2>2
<1>9. RegisteredHaveSockets'
    <2> SUFFICES ASSUME NEW j \in Keys, tunnels'[j] # NoTunnel
                 PROVE  /\ info'[tunnels'[j]].key = j
                        /\ \/ hasUDP(info'[tunnels'[j]])
                           \/ info'[tunnels'[j]].tcpListener
                           \/ reaper' = "evicting"
        BY DEF RegisteredHaveSockets, hasUDP
    <2>1. CASE j = k
        BY <2>1, <1>2 DEF IInv, TypeOK
    <2>2. CASE j # k
        <3>1. tunnels'[j] = tunnels[j] /\ tunnels[j] \in TunnelIds \ {t}
            BY <2>2 DEF IInv, TypeOK, Fresh
        <3> QED
            BY <3>1, <1>4 DEF IInv, RegisteredHaveSockets, locks
    <2> QED
        BY <2>1, <2>2
<1>10. ListenersHavePorts'
    BY <1>2, <1>4 DEF IInv, ListenersHavePorts
<1>11. OneCloser'
    <2>1. due = {} /\ Cut = {}
        BY DEF IInv, OneCloser
    <2>2. \A u \in TunnelIds : hasUDP(info'[u]) => u \in upstream'
        <3> SUFFICES ASSUME NEW u \in TunnelIds, hasUDP(info'[u]) PROVE u \in upstream'
            OBVIOUS
        <3>1. CASE u = t
            BY <3>1, <1>2
        <3>2. CASE u # t
            BY <2>1, <3>2, <1>4 DEF Cut
        <3> QED
            BY <3>1, <3>2
    <2>3. Cut' = {}
        BY <2>2 DEF Cut, hasUDP
    <2> QED
        BY <2>1, <2>3 DEF IInv, OneCloser, Unlocked, locks
<1> QED
    BY <1>5, <1>6, <1>7, <1>8, <1>9, <1>10, <1>11 DEF IInv

\* The steps of traffic: idle says nothing about ownership.
LEMMA TrafficOwned ==
    ASSUME IInv, TypeOK', NEW t \in TunnelIds, Traffic(t)
    PROVE  IInv'
<1>1. UNCHANGED <<tunnels, tcpOwner, udpOwner, upstream>>
    BY DEF Traffic, LegIdles, LegActive, sockets
<1>2. PICK b \in BOOLEAN : info' = [info EXCEPT ![t] = [info[t] EXCEPT !.idle = b]]
    BY DEF Traffic, LegIdles, LegActive
<1>3. ASSUME NEW u \in TunnelIds
      PROVE  /\ info'[u].key = info[u].key
             /\ info'[u].localPort = info[u].localPort
             /\ info'[u].udpClientPort = info[u].udpClientPort
             /\ info'[u].tcpListener = info[u].tcpListener
             /\ hasUDP(info'[u]) = hasUDP(info[u])
             /\ InPlace(u) => tunnels'[info'[u].key] = u
    <2>1. info[u] \in Tunnel /\ info[t] \in Tunnel
        BY DEF IInv, TypeOK
    <2>2. CASE u = t
        <3>1. info'[u] = [info[u] EXCEPT !.idle = b]
            BY <1>2, <2>2 DEF IInv, TypeOK
        <3> QED
            BY <1>1, <2>1, <3>1 DEF Tunnel, hasUDP, InPlace
    <2>3. CASE u # t
        BY <1>1, <1>2, <2>3 DEF IInv, TypeOK, hasUDP, InPlace
    <2> QED
        BY <2>2, <2>3
<1>4. LegsInPlace' /\ OpenLegs'
    BY <1>1, <1>3 DEF IInv, TypeOK, LegsInPlace, OpenLegs, hasUDP, InPlace
<1>5. UDPPortsOwned' /\ TCPPortsOwned'
    <2>1. ASSUME NEW u \in TunnelIds, InPlace(u)
          PROVE  InPlace(u)'
        BY <1>3, <2>1 DEF InPlace
    <2>2. UDPPortsOwned'
        BY <1>1, <1>3, <2>1 DEF IInv, UDPPortsOwned, InPlace
    <2>3. TCPPortsOwned'
        BY <1>1, <1>3, <2>1 DEF IInv, TCPPortsOwned, InPlace
    <2> QED
        BY <2>2, <2>3
<1>6. RegisteredHaveSockets'
    <2>1. reaper' = reaper
        BY DEF Traffic, LegIdles, LegActive, locks
    <2> QED
        BY <1>1, <1>3, <2>1 DEF IInv, TypeOK, RegisteredHaveSockets, hasUDP
<1>7. ListenersHavePorts'
    BY <1>3 DEF IInv, ListenersHavePorts
<1>8. OneCloser'
    <2>1. Cut' = Cut
        BY <1>1, <1>3 DEF Cut, hasUDP
    <2>2. UNCHANGED <<reaper, closing>> /\ (due' = due \/ (due' = due \ {t} /\ t \in upstream))
        BY DEF Traffic, LegIdles, LegActive, locks
    <2>3. Cut \subseteq TunnelIds \ upstream
        BY DEF Cut
    <2>4. \A u \in Cut : u \in due' /\ udpOwner'[info'[u].udpClientPort] = NoTunnel
        BY <1>1, <1>3, <2>2, <2>3 DEF IInv, OneCloser
    <2> QED
        BY <2>1, <2>2, <2>4 DEF IInv, OneCloser, Unlocked
<1> QED
    BY <1>4, <1>5, <1>6, <1>7, <1>8 DEF IInv

\* What is left of a tunnel whose leg is closed.
LEMMA ClosedLeg ==
    ASSUME NEW o \in Tunnel
    PROVE  /\ closeUDPLeg(o).key = o.key
           /\ closeUDPLeg(o).localPort = o.localPort
           /\ closeUDPLeg(o).tcpListener = o.tcpListener
           /\ closeUDPLeg(o).udpClientPort = 0
           /\ ~hasUDP(closeUDPLeg(o))
           /\ o.key \in Keys
BY DEF Tunnel, closeUDPLeg, hasUDP

\* The first half of closeUDPLeg keeps the invariant: the leg is cut.
LEMMA CutOwned ==
    ASSUME IInv, TypeOK', NEW t \in TunnelIds, CloseLegSockets(t)
    PROVE  IInv'
<1> USE NamesAssumption
<1>1. UNCHANGED <<tunnels, info, tcpOwner, locks>> /\ t \in due /\ Cut = {}
    BY DEF CloseLegSockets
<1>2. ASSUME NEW q \in UDPClientBindRange
      PROVE  udpOwner'[q] = IF udpOwner[q] = t THEN NoTunnel ELSE udpOwner[q]
    BY DEF CloseLegSockets, CloseSockets, IInv, TypeOK
<1>3. ASSUME NEW u \in TunnelIds
      PROVE  info[u].udpClientPort \in UDPClientBindRange \/ ~hasUDP(info[u])
    BY DEF IInv, TypeOK, LegsInPlace, Tunnel
<1>4. LegsInPlace' /\ TCPPortsOwned' /\ ListenersHavePorts' /\ RegisteredHaveSockets'
    BY <1>1 DEF IInv, LegsInPlace, TCPPortsOwned, ListenersHavePorts, RegisteredHaveSockets,
       InPlace, hasUDP, locks
<1>5. UDPPortsOwned'
    BY <1>1, <1>2 DEF IInv, UDPPortsOwned, InPlace
<1>6. OpenLegs'
    <2> SUFFICES ASSUME NEW u \in upstream'
                 PROVE  /\ hasUDP(info[u]) /\ InPlace(u)
                        /\ udpOwner'[info[u].udpClientPort] = u
        BY <1>1 DEF OpenLegs, InPlace, hasUDP
    <2>1. u \in upstream /\ u # t /\ u \in TunnelIds
        BY DEF CloseLegSockets, IInv, TypeOK
    <2> QED
        BY <2>1, <1>2, <1>3 DEF IInv, OpenLegs
<1>7. OneCloser'
    <2>1. udpOwner[info[t].udpClientPort] = t /\ hasUDP(info[t])
        BY DEF CloseLegSockets, IInv, OpenLegs
    <2>2. udpOwner'[info[t].udpClientPort] = NoTunnel
        BY <2>1, <1>2, <1>3
    <2>3. Cut' \subseteq {t}
        BY <1>1 DEF CloseLegSockets, Cut, hasUDP
    <2> QED
        BY <1>1, <2>2, <2>3 DEF IInv, OneCloser, Unlocked, locks
<1> QED
    BY <1>4, <1>5, <1>6, <1>7 DEF IInv

\* The second half keeps it, whether the tunnel stays, as in a pass, or its
\* listener is closed and its key deleted, as in Close.
LEMMA ForgottenOwned ==
    ASSUME IInv, TypeOK', NEW t \in TunnelIds, ForgetLeg(t),
           \/ UNCHANGED <<tunnels, tcpOwner>> /\ reaper = "evicting"
           \/ /\ tcpOwner' = CloseSockets(tcpOwner, t)
              /\ tunnels' = [k \in Keys |-> IF tunnels[k] = t THEN NoTunnel ELSE tunnels[k]]
              /\ closing = "closing"
    PROVE  IInv'
<1> USE NamesAssumption, ZeroIsNoPort
<1>1. ASSUME NEW u \in TunnelIds
      PROVE  /\ info'[u].key = info[u].key
             /\ info'[u].localPort = info[u].localPort
             /\ info'[u].tcpListener = info[u].tcpListener
             /\ info[u].key \in Keys
    BY ClosedLeg DEF ForgetLeg, IInv, TypeOK
<1>2. ~hasUDP(info'[t]) /\ info'[t].udpClientPort = 0
    BY ClosedLeg DEF ForgetLeg, IInv, TypeOK
<1>3. ASSUME NEW u \in TunnelIds \ {t} PROVE info'[u] = info[u]
    BY DEF ForgetLeg, IInv, TypeOK
<1>4. ASSUME NEW u \in TunnelIds \ {t}, InPlace(u) PROVE InPlace(u)'
    BY <1>1, <1>4 DEF InPlace
<1>5. UNCHANGED <<udpOwner, upstream, reaper, closing>> /\ t \notin upstream /\ Cut \subseteq {t}
    BY DEF ForgetLeg
<1>6. LegsInPlace'
    <2> SUFFICES ASSUME NEW u \in TunnelIds
                 PROVE  /\ hasUDP(info'[u]) <=> info'[u].udpClientPort # 0
                        /\ hasUDP(info'[u]) => InPlace(u)'
        BY DEF LegsInPlace, hasUDP
    <2> QED
        BY <1>2, <1>3, <1>4 DEF IInv, LegsInPlace
<1>7. UDPPortsOwned'
    <2> SUFFICES ASSUME NEW q \in UDPClientBindRange, udpOwner[q] # NoTunnel
                 PROVE  InPlace(udpOwner[q])' /\ info'[udpOwner[q]].udpClientPort = q
        BY <1>5 DEF UDPPortsOwned, InPlace
    <2>1. udpOwner[q] \in TunnelIds /\ InPlace(udpOwner[q]) /\ info[udpOwner[q]].udpClientPort = q
        BY DEF IInv, TypeOK, UDPPortsOwned
    <2>2. udpOwner[q] # t
        <3> SUFFICES ASSUME udpOwner[q] = t PROVE FALSE
            OBVIOUS
        <3>1. t \in Cut
            BY <2>1, <1>5 DEF IInv, LegsInPlace, Cut
        <3> QED
            BY <2>1, <3>1 DEF IInv, OneCloser
    <2> QED
        BY <2>1, <2>2, <1>3, <1>4, <1>5
<1>8. TCPPortsOwned'
    <2> SUFFICES ASSUME NEW q \in TCPPool, tcpOwner'[q] # NoTunnel
                 PROVE  /\ InPlace(tcpOwner[q])'
                        /\ info'[tcpOwner'[q]].tcpListener
                        /\ info'[tcpOwner'[q]].localPort = q
        BY DEF TCPPortsOwned
    <2>1. tcpOwner'[q] = tcpOwner[q] /\ tcpOwner[q] \in TunnelIds
        BY DEF CloseSockets, IInv, TypeOK
    <2>2. /\ InPlace(tcpOwner[q])
          /\ info[tcpOwner[q]].tcpListener /\ info[tcpOwner[q]].localPort = q
        BY <2>1 DEF IInv, TCPPortsOwned
    <2>3. InPlace(tcpOwner[q])'
        <3>1. CASE tcpOwner[q] = t
            <4>1. tunnels' = tunnels
                BY <2>1, <3>1 DEF CloseSockets, IInv, TypeOK
            <4> QED
                BY <2>1, <2>2, <4>1, <1>1 DEF InPlace
        <3>2. CASE tcpOwner[q] # t
            BY <2>1, <2>2, <3>2, <1>1 DEF InPlace
        <3> QED
            BY <3>1, <3>2
    <2> QED
        BY <2>1, <2>2, <2>3, <1>1
<1>9. OpenLegs'
    <2> SUFFICES ASSUME NEW u \in upstream
                 PROVE  /\ hasUDP(info'[u]) /\ InPlace(u)'
                        /\ udpOwner[info'[u].udpClientPort] = u
        BY <1>5 DEF OpenLegs, hasUDP, InPlace
    <2>1. u \in TunnelIds \ {t}
        BY <1>5 DEF IInv, TypeOK
    <2> QED
        BY <2>1, <1>3, <1>4 DEF IInv, OpenLegs
<1>10. ListenersHavePorts'
    BY <1>1 DEF IInv, ListenersHavePorts
<1>11. RegisteredHaveSockets'
    <2> SUFFICES ASSUME NEW k \in Keys, tunnels'[k] # NoTunnel
                 PROVE  /\ info'[tunnels'[k]].key = k
                        /\ \/ hasUDP(info'[tunnels'[k]])
                           \/ info'[tunnels'[k]].tcpListener
                           \/ reaper' = "evicting"
        BY DEF RegisteredHaveSockets, hasUDP
    <2>1. tunnels'[k] = tunnels[k] /\ tunnels[k] \in TunnelIds
        BY DEF IInv, TypeOK
    <2>2. tunnels[k] # t \/ reaper = "evicting"
        BY <2>1
    <2> QED
        BY <2>1, <2>2, <1>1, <1>3, <1>5 DEF IInv, RegisteredHaveSockets
<1>12. OneCloser'
    <2>1. Cut' = {}
        <3>1. \A u \in TunnelIds : hasUDP(info'[u]) => u \in upstream
            BY <1>2, <1>3, <1>5 DEF Cut
        <3> QED
            BY <1>5, <3>1 DEF Cut, hasUDP
    <2> QED
        BY <2>1, <1>5 DEF ForgetLeg, IInv, OneCloser, Unlocked
<1> QED
    BY <1>6, <1>7, <1>8, <1>9, <1>10, <1>11, <1>12 DEF IInv

\* The end of a pass keeps it: what is deleted has neither leg nor listener,
\* and what has neither is deleted.
LEMMA PassEndOwned ==
    ASSUME IInv, TypeOK', EndPass
    PROVE  IInv'
<1> USE NamesAssumption
<1>1. UNCHANGED <<info, tcpOwner, udpOwner, upstream, closing, due>> /\ due = {}
    BY DEF EndPass, sockets
<1>2. ASSUME NEW k \in Keys
      PROVE  tunnels'[k] = IF k \in Removed THEN NoTunnel ELSE tunnels[k]
    BY DEF EndPass
<1>3. ASSUME NEW u \in TunnelIds, InPlace(u), hasUDP(info[u]) \/ info[u].tcpListener
      PROVE  InPlace(u)'
    <2>1. info[u].key \in Keys /\ info[u].key \notin Removed
        BY <1>3 DEF IInv, TypeOK, Tunnel, InPlace, Removed
    <2> QED
        BY <1>1, <1>2, <1>3, <2>1 DEF InPlace
<1>4. LegsInPlace' /\ OpenLegs'
    BY <1>1, <1>3 DEF IInv, LegsInPlace, OpenLegs, TypeOK, hasUDP, InPlace
<1>5. UDPPortsOwned'
    <2>1. ASSUME NEW q \in UDPClientBindRange, udpOwner[q] # NoTunnel
          PROVE  hasUDP(info[udpOwner[q]])
        BY <2>1, ZeroIsNoPort DEF IInv, TypeOK, UDPPortsOwned, LegsInPlace, InPlace
    <2> QED
        BY <1>1, <1>3, <2>1 DEF IInv, UDPPortsOwned, InPlace
<1>6. TCPPortsOwned' /\ ListenersHavePorts'
    BY <1>1, <1>3 DEF IInv, TCPPortsOwned, ListenersHavePorts, InPlace
<1>7. RegisteredHaveSockets'
    BY <1>1, <1>2 DEF IInv, RegisteredHaveSockets, Removed, hasUDP
<1>8. OneCloser'
    BY <1>1 DEF EndPass, IInv, OneCloser, Unlocked, Cut, hasUDP
<1> QED
    BY <1>4, <1>5, <1>6, <1>7, <1>8 DEF IInv

-----------------------------------------------------------------------------
\* Registering a new tunnel for the address asked for keeps the invariant.
LEMMA RegisterKeeps ==
    ASSUME IInv, TypeOK', NEW c \in Callers, NEW o \in Tunnel,
           want[c] \in Keys, Creating(c), Register(c, o), UNCHANGED locks,
           o.key = want[c], hasUDP(o) <=> o.udpClientPort # 0, hasUDP(o) \/ o.tcpListener,
           o.tcpListener <=> o.localPort # 0,
           hasUDP(o) => udpOwner[o.udpClientPort] = NoTunnel
    PROVE  IInv'
<1>1. PICK t \in TunnelIds :
          /\ Fresh(t)
          /\ info' = [info EXCEPT ![t] = o]
          /\ tunnels' = [tunnels EXCEPT ![want[c]] = t]
          /\ tcpOwner' = IF o.tcpListener THEN [tcpOwner EXCEPT ![o.localPort] = t]
                                          ELSE tcpOwner
          /\ udpOwner' = IF hasUDP(o) THEN [udpOwner EXCEPT ![o.udpClientPort] = t]
                                      ELSE udpOwner
          /\ upstream' = IF hasUDP(o) THEN upstream \cup {t} ELSE upstream
    BY DEF Register
<1>2. tunnels[want[c]] = NoTunnel /\ Unlocked
    BY DEF Creating
<1>3. \/ tcpOwner' = tcpOwner
      \/ o.tcpListener /\ tcpOwner' = [tcpOwner EXCEPT ![o.localPort] = t]
    BY <1>1
<1> QED
    BY <1>1, <1>2, <1>3, RegisteredOwned

\* Every step keeps the invariant.
LEMMA StepIInv ==
    ASSUME IInv, [Next]_vars
    PROVE  IInv'
<1>1. TypeOK /\ TypeOK'
    BY TypeStep DEF IInv
<1>2. ASSUME UNCHANGED <<tunnels, info, sockets>>, OneCloser', reaper # "evicting"
      PROVE IInv'
    BY <1>1, <1>2 DEF IInv, LegsInPlace, UDPPortsOwned, TCPPortsOwned, OpenLegs,
       RegisteredHaveSockets, ListenersHavePorts, InPlace, hasUDP, sockets
<1>0. ASSUME UNCHANGED <<tunnels, info, sockets, locks>> PROVE IInv'
    <2>1. OneCloser'
        BY <1>0 DEF IInv, OneCloser, Unlocked, Cut, hasUDP, sockets, locks
    <2> QED
        BY <1>0, <1>1, <2>1 DEF IInv, LegsInPlace, UDPPortsOwned, TCPPortsOwned, OpenLegs,
           RegisteredHaveSockets, ListenersHavePorts, InPlace, hasUDP, sockets, locks
<1>3. ASSUME NEW c \in Callers,
             Call(c) \/ Lookup(c) \/ CopyInfo(c) \/ Recheck(c) \/ CreateFails(c)
                \/ TunnelForRemoteIP(c) \/ Done(c)
      PROVE  IInv'
    BY <1>0, <1>3 DEF Call, Lookup, CopyInfo, Recheck, CreateFails, TunnelForRemoteIP, Done
<1>4. ASSUME NEW c \in Callers, CreateUDPOnly(c) PROVE IInv'
    <2>1. PICK u \in UDPClientBindRange :
              udpOwner[u] = NoTunnel /\ Register(c, MakeTunnel(want[c], 0, u))
        BY <1>4, BindsFreePort DEF CreateUDPOnly
    <2>2. MakeTunnel(want[c], 0, u) \in Tunnel /\ want[c] \in Keys
        BY <1>1, MadeTunnel DEF TypeOK
    <2> DEFINE o == MakeTunnel(want[c], 0, u)
    <2>3. /\ o.key = want[c] /\ (hasUDP(o) <=> o.udpClientPort # 0)
          /\ hasUDP(o) \/ o.tcpListener
          /\ o.tcpListener <=> o.localPort # 0
          /\ hasUDP(o) => udpOwner[o.udpClientPort] = NoTunnel
        BY <2>1, ZeroIsNoPort DEF MakeTunnel, hasUDP
    <2>4. Creating(c) /\ Register(c, o) /\ UNCHANGED locks
        BY <1>4, <2>1 DEF CreateUDPOnly
    <2>5. o \in Tunnel
        BY <2>2
    <2> HIDE DEF o
    <2> QED
        BY <1>1, <2>2, <2>3, <2>4, <2>5, RegisterKeeps
<1>5. ASSUME NEW c \in Callers, CreateTCPOnly(c) PROVE IInv'
    <2>1. PICK p \in TCPPool : Register(c, MakeTunnel(want[c], p, 0))
        BY <1>5, BindsFreePort DEF CreateTCPOnly
    <2>2. MakeTunnel(want[c], p, 0) \in Tunnel /\ want[c] \in Keys
        BY <1>1, MadeTunnel DEF TypeOK
    <2> DEFINE o == MakeTunnel(want[c], p, 0)
    <2>3. /\ o.key = want[c] /\ (hasUDP(o) <=> o.udpClientPort # 0)
          /\ hasUDP(o) \/ o.tcpListener
          /\ o.tcpListener <=> o.localPort # 0
          /\ hasUDP(o) => udpOwner[o.udpClientPort] = NoTunnel
        BY <2>1, ZeroIsNoPort DEF MakeTunnel, hasUDP
    <2>4. Creating(c) /\ Register(c, o) /\ UNCHANGED locks
        BY <1>5, <2>1 DEF CreateTCPOnly
    <2>5. o \in Tunnel
        BY <2>2
    <2> HIDE DEF o
    <2> QED
        BY <1>1, <2>2, <2>3, <2>4, <2>5, RegisterKeeps
<1>6. ASSUME NEW c \in Callers, CreateMixed(c) PROVE IInv'
    <2>1. PICK p \in TCPPool, u \in UDPClientBindRange :
              udpOwner[u] = NoTunnel /\ Register(c, MakeTunnel(want[c], p, u))
        BY <1>6, BindsFreePort DEF CreateMixed
    <2>2. MakeTunnel(want[c], p, u) \in Tunnel /\ want[c] \in Keys
        BY <1>1, MadeTunnel DEF TypeOK
    <2> DEFINE o == MakeTunnel(want[c], p, u)
    <2>3. /\ o.key = want[c] /\ (hasUDP(o) <=> o.udpClientPort # 0)
          /\ hasUDP(o) \/ o.tcpListener
          /\ o.tcpListener <=> o.localPort # 0
          /\ hasUDP(o) => udpOwner[o.udpClientPort] = NoTunnel
        BY <2>1, ZeroIsNoPort DEF MakeTunnel, hasUDP
    <2>4. Creating(c) /\ Register(c, o) /\ UNCHANGED locks
        BY <1>6, <2>1 DEF CreateMixed
    <2>5. o \in Tunnel
        BY <2>2
    <2> HIDE DEF o
    <2> QED
        BY <1>1, <2>2, <2>3, <2>4, <2>5, RegisterKeeps
<1>7. ASSUME NEW c \in Callers, CreateWithoutUDP(c) PROVE IInv'
    <2>1. PICK p \in TCPPool, t \in TunnelIds :
              /\ Fresh(t)
              /\ info' = [info EXCEPT ![t] = MakeTunnel(want[c], p, 0)]
              /\ tunnels' = [tunnels EXCEPT ![want[c]] = t]
        BY <1>7, BindsFreePort DEF CreateWithoutUDP
    <2>2. MakeTunnel(want[c], p, 0) \in Tunnel /\ want[c] \in Keys
        BY <1>1, MadeTunnel DEF TypeOK
    <2> QED
        BY <1>1, <1>7, <2>1, <2>2, RegisteredOwned, ZeroIsNoPort
        DEF CreateWithoutUDP, Creating, MakeTunnel, hasUDP, sockets, Unlocked
<1>8. ASSUME NEW t \in TunnelIds, Traffic(t) PROVE IInv'
    BY <1>1, <1>8, TrafficOwned
<1>9. CASE Reap
    <2>1. ASSUME NEW t \in TunnelIds, EvictLeg(t) PROVE IInv'
        BY <1>1, <2>1, CutOwned, ForgottenOwned DEF EvictLeg
    <2>2. CASE BeginPass
        <3>1. OneCloser'
            BY <2>2 DEF BeginPass, IInv, OneCloser, Unlocked, Cut, hasUDP, sockets
        <3> QED
            BY <1>2, <2>2, <3>1 DEF BeginPass, Unlocked
    <2>3. CASE EndPass
        BY <1>1, <2>3, PassEndOwned
    <2> QED
        BY <1>9, <2>1, <2>2, <2>3 DEF Reap
<1>10. CASE CloseAll
    <2>1. ASSUME NEW t \in TunnelIds, CloseTunnel(t) PROVE IInv'
        BY <1>1, <2>1, CutOwned, ForgottenOwned DEF CloseTunnel
    <2>2. CASE BeginClose \/ EndClose
        <3>1. OneCloser'
            BY <2>2 DEF BeginClose, EndClose, IInv, OneCloser, Unlocked, Cut, hasUDP, sockets
        <3>2. reaper # "evicting"
            BY <2>2 DEF BeginClose, EndClose, IInv, OneCloser, Unlocked
        <3> QED
            BY <1>2, <2>2, <3>1, <3>2 DEF BeginClose, EndClose
    <2> QED
        BY <1>10, <2>1, <2>2 DEF CloseAll
<1>11. CASE ReaperExit
    <2>1. OneCloser'
        BY <1>11 DEF ReaperExit, IInv, OneCloser, Unlocked, Cut, hasUDP, sockets
    <2> QED
        BY <1>2, <1>11, <2>1 DEF ReaperExit
<1>12. CASE SignalClose
    <2>1. OneCloser'
        BY <1>12 DEF SignalClose, IInv, OneCloser, Unlocked, Cut, hasUDP, sockets
    <2> QED
        BY <1>1, <1>12, <2>1 DEF SignalClose, IInv, LegsInPlace, UDPPortsOwned, TCPPortsOwned,
           OpenLegs, RegisteredHaveSockets, ListenersHavePorts, InPlace, hasUDP, sockets
<1>13. CASE UNCHANGED vars
    BY <1>0, <1>13 DEF vars
<1> QED
    BY <1>3, <1>4, <1>5, <1>6, <1>7, <1>8, <1>9, <1>10, <1>11, <1>12, <1>13
    DEF Next, Caller, EnsureTunnel

-----------------------------------------------------------------------------
(***************************************************************************)
(* Safety                                                                  *)
(***************************************************************************)
\* The ownership invariant holds throughout.
THEOREM Ownership == Spec => []IInv
<1>1. IInv /\ [Next]_vars => IInv'
    BY StepIInv
<1> QED
    BY <1>1, InitIInv, PTL DEF Spec

\* The variables keep their types (all operations of the manager).
THEOREM TypeCorrect == Spec => []TypeOK
<1>1. IInv => TypeOK
    BY DEF IInv
<1> QED
    BY <1>1, Ownership, PTL

\* No socket outlives its tunnel's place in the registry (createTunnel's error
\* paths, evictIdleUDPTunnels, Close).
THEOREM SocketsNotLeaked == Spec => []NoSocketLeak
<1>1. IInv => NoSocketLeak
    BY DEF IInv, NoSocketLeak, TCPPortsOwned, UDPPortsOwned, OpenLegs
<1> QED
    BY <1>1, Ownership, PTL

\* Whenever Manager.mu is free, a registered tunnel reports the UDP leg it has
\* open, whatever the reaper and Close have done.
THEOREM LegsConsistent == Spec => []LegConsistent
<1>1. ASSUME IInv, Unlocked, NEW k \in Keys, tunnels[k] # NoTunnel
      PROVE  LET t == tunnels[k]
                 o == info[t]
             IN  /\ o.key = k
                 /\ hasUDP(o) <=> o.udpClientPort # 0
                 /\ hasUDP(o) <=> t \in upstream
                 /\ hasUDP(o) => udpOwner[o.udpClientPort] = t
                 /\ hasUDP(o) \/ o.tcpListener
    <2> DEFINE t == tunnels[k]
    <2>1. t \in TunnelIds
        BY <1>1 DEF IInv, TypeOK
    <2>2. Cut = {} /\ reaper # "evicting"
        BY <1>1 DEF IInv, OneCloser, Unlocked
    <2>3. hasUDP(info[t]) <=> t \in upstream
        BY <1>1, <2>1, <2>2 DEF IInv, OpenLegs, Cut
    <2>4. hasUDP(info[t]) => udpOwner[info[t].udpClientPort] = t
        BY <1>1, <2>3 DEF IInv, OpenLegs
    <2> QED
        BY <1>1, <2>1, <2>2, <2>3, <2>4 DEF IInv, LegsInPlace, RegisteredHaveSockets
<1>2. IInv => LegConsistent
    BY <1>1 DEF LegConsistent
<1> QED
    BY <1>2, Ownership, PTL

-----------------------------------------------------------------------------
\* A caller about to copy the info holds an object made for its key: the object
\* may have left the registry, but its name is not given to another.
CopiersHoldTheirKey ==
    \A c \in Callers : pc[c] = "copy" => info[ref[c]].key = want[c]

LEMMA CopiersStep ==
    ASSUME IInv, IInv', CopiersHoldTheirKey, [Next]_vars
    PROVE  CopiersHoldTheirKey'
<1> USE NamesAssumption
<1>0. TypeOK /\ TypeOK' /\ RegisteredHaveSockets
    BY DEF IInv
<1> SUFFICES ASSUME NEW c \in Callers, pc'[c] = "copy"
             PROVE  info'[ref'[c]].key = want'[c]
    BY DEF CopiersHoldTheirKey
<1>1. CASE Lookup(c)
    <2>1. ref'[c] = tunnels[want[c]] /\ tunnels[want[c]] # NoTunnel /\ want'[c] = want[c]
        BY <1>0, <1>1 DEF Lookup, TypeOK
    <2> QED
        BY <1>0, <1>1, <2>1 DEF Lookup, RegisteredHaveSockets, TypeOK
<1>2. ASSUME pc[c] = "copy", ref'[c] = ref[c], want'[c] = want[c],
             \A t \in TunnelIds : info'[t].key = info[t].key \/ Fresh(t)
      PROVE  info'[ref'[c]].key = want'[c]
    <2>1. ref[c] \in TunnelIds /\ ~Fresh(ref[c])
        BY <1>0, <1>2 DEF TypeOK, Fresh
    <2> QED
        BY <1>2, <2>1 DEF CopiersHoldTheirKey
<1>3. ASSUME NEW d \in Callers, d # c \/ ~Lookup(c), Caller(d)
      PROVE  pc[c] = "copy" /\ ref'[c] = ref[c] /\ want'[c] = want[c]
    BY <1>0, <1>3 DEF Caller, EnsureTunnel, Call, Lookup, CopyInfo, Recheck, CreateUDPOnly,
       CreateTCPOnly, CreateMixed, CreateWithoutUDP, CreateFails, Register, Answer,
       TunnelForRemoteIP, Done, TypeOK
<1>4. ASSUME NEW d \in Callers, Caller(d)
      PROVE  \A t \in TunnelIds : info'[t].key = info[t].key \/ Fresh(t)
    BY <1>0, <1>4 DEF Caller, EnsureTunnel, Call, Lookup, CopyInfo, Recheck, CreateUDPOnly,
       CreateTCPOnly, CreateMixed, CreateWithoutUDP, CreateFails, Register,
       TunnelForRemoteIP, Done, TypeOK
<1>5. ASSUME NEW d \in Callers, Caller(d) PROVE info'[ref'[c]].key = want'[c]
    BY <1>1, <1>2, <1>3, <1>4, <1>5
<1>6. ASSUME UNCHANGED callers, \A t \in TunnelIds : info'[t].key = info[t].key
      PROVE  info'[ref'[c]].key = want'[c]
    BY <1>2, <1>6 DEF callers
<1>7. ASSUME NEW o \in Tunnel PROVE closeUDPLeg(o).key = o.key
    BY DEF closeUDPLeg, Tunnel
<1>8. ASSUME NEW t \in TunnelIds, Traffic(t) PROVE info'[ref'[c]].key = want'[c]
    <2>1. UNCHANGED callers
        BY <1>8 DEF Traffic, LegIdles, LegActive
    <2>2. PICK b \in BOOLEAN : info' = [info EXCEPT ![t] = [info[t] EXCEPT !.idle = b]]
        BY <1>8 DEF Traffic, LegIdles, LegActive
    <2>3. ASSUME NEW o \in Tunnel PROVE [o EXCEPT !.idle = b].key = o.key
        BY DEF Tunnel
    <2>4. \A u \in TunnelIds : info'[u].key = info[u].key
        BY <1>0, <2>2, <2>3 DEF TypeOK
    <2> QED
        BY <1>6, <2>1, <2>4
<1>9. CASE Reap \/ CloseAll
    <2>1. ASSUME NEW t \in TunnelIds, EvictLeg(t) \/ CloseTunnel(t)
          PROVE  /\ UNCHANGED callers
                 /\ info' = info \/ info' = [info EXCEPT ![t] = closeUDPLeg(info[t])]
        BY <2>1 DEF EvictLeg, CloseTunnel, CloseLegSockets, ForgetLeg
    <2>2. ASSUME NEW t \in TunnelIds, EvictLeg(t) \/ CloseTunnel(t)
          PROVE  info'[ref'[c]].key = want'[c]
        <3>1. \A u \in TunnelIds : info'[u].key = info[u].key
            BY <1>0, <1>7, <2>1, <2>2 DEF TypeOK
        <3> QED
            BY <1>6, <2>1, <2>2, <3>1
    <2>3. ASSUME BeginPass \/ EndPass \/ BeginClose \/ EndClose
          PROVE  info'[ref'[c]].key = want'[c]
        BY <1>6, <2>3 DEF BeginPass, EndPass, BeginClose, EndClose
    <2> QED
        BY <1>9, <2>2, <2>3 DEF Reap, CloseAll
<1>10. CASE ReaperExit \/ SignalClose \/ UNCHANGED vars
    BY <1>6, <1>10 DEF ReaperExit, SignalClose, vars
<1> QED
    BY <1>5, <1>8, <1>9, <1>10 DEF Next

\* An answer given in a step names the state of an object of the asked key; it
\* is a copy of an unchanged object, or made while the lock is free.
LEMMA AnswerStep ==
    ASSUME IInv, IInv', CopiersHoldTheirKey, [Next]_vars, NEW c \in Callers,
           pc[c] # "replied", pc'[c] = "replied"
    PROVE  \E t \in TunnelIds :
              /\ info'[t].udpClientPort = reply'[c].udpClientPort
              /\ info'[t].key = want'[c]
              /\ \/ pc[c] = "copy" /\ UNCHANGED <<info, upstream>>
                 \/ Unlocked /\ UNCHANGED locks
<1> USE NamesAssumption
<1> DEFINE Own == \E t \in TunnelIds : /\ info'[t].udpClientPort = reply'[c].udpClientPort
                                       /\ info'[t].key = want'[c]
<1>0. TypeOK /\ TypeOK' /\ RegisteredHaveSockets
    BY DEF IInv
<1>1. ASSUME NEW t \in TunnelIds, info'[t].key = want[c], Answer(c, t, info'[t])
      PROVE  Own
    BY <1>0, <1>1 DEF Answer, TunnelInfo, TypeOK
<1>2. ASSUME CopyInfo(c) PROVE Own
    <2>1. ref[c] \in TunnelIds /\ info' = info /\ info[ref[c]].key = want[c]
        BY <1>0, <1>2 DEF CopyInfo, TypeOK, CopiersHoldTheirKey
    <2> QED
        BY <1>1, <1>2, <2>1 DEF CopyInfo
<1>3. ASSUME Recheck(c) PROVE Own
    <2>1. /\ tunnels[want[c]] \in TunnelIds /\ info' = info
          /\ info[tunnels[want[c]]].key = want[c]
        BY <1>0, <1>3 DEF Recheck, TypeOK, RegisteredHaveSockets
    <2> QED
        BY <1>1, <1>3, <2>1 DEF Recheck
<1>4. ASSUME NEW p, NEW u, Register(c, MakeTunnel(want[c], p, u))
      PROVE  Own
    <2>1. PICK t \in TunnelIds :
              /\ info' = [info EXCEPT ![t] = MakeTunnel(want[c], p, u)]
              /\ Answer(c, t, MakeTunnel(want[c], p, u))
        BY <1>4 DEF Register
    <2>2. info'[t] = MakeTunnel(want[c], p, u) /\ info'[t].key = want[c]
        BY <1>0, <2>1 DEF TypeOK, MakeTunnel
    <2> QED
        BY <1>1, <2>1, <2>2
<1>5. ASSUME CreateUDPOnly(c) \/ CreateTCPOnly(c) \/ CreateMixed(c) PROVE Own
    BY <1>4, <1>5 DEF CreateUDPOnly, CreateTCPOnly, CreateMixed
<1>6. ASSUME CreateWithoutUDP(c) PROVE Own
    <2>1. PICK p \in TCPPool, t \in TunnelIds :
              /\ info' = [info EXCEPT ![t] = MakeTunnel(want[c], p, 0)]
              /\ Answer(c, t, MakeTunnel(want[c], p, 0))
        BY <1>6, BindsFreePort DEF CreateWithoutUDP
    <2>2. info'[t] = MakeTunnel(want[c], p, 0) /\ info'[t].key = want[c]
        BY <1>0, <2>1 DEF TypeOK, MakeTunnel
    <2> QED
        BY <1>1, <2>1, <2>2
<1>7. ASSUME TunnelForRemoteIP(c) PROVE Own
    <2>1. PICK k \in Keys :
            /\ tunnels[k] # NoTunnel
            /\ want' = [want EXCEPT ![c] = k]
            /\ reply' = [reply EXCEPT ![c] = TunnelInfo(info[tunnels[k]])]
        BY <1>7 DEF TunnelForRemoteIP
    <2>2. tunnels[k] \in TunnelIds /\ info' = info /\ info[tunnels[k]].key = k
        BY <1>0, <1>7, <2>1 DEF TunnelForRemoteIP, TypeOK, RegisteredHaveSockets
    <2>3. want'[c] = k /\ reply'[c] = TunnelInfo(info[tunnels[k]])
        BY <1>0, <2>1 DEF TypeOK
    <2> QED
        BY <2>2, <2>3 DEF TunnelInfo
<1>8. ~(Call(c) \/ Lookup(c) \/ CreateFails(c) \/ Done(c))
    BY <1>0 DEF Call, Lookup, CreateFails, Done, TypeOK
<1>9. ASSUME NEW d \in Callers, d # c PROVE ~Caller(d)
    BY <1>0, <1>9 DEF Caller, EnsureTunnel, Call, Lookup, CopyInfo, Recheck, CreateUDPOnly,
       CreateTCPOnly, CreateMixed, CreateWithoutUDP, CreateFails, Register, Answer,
       TunnelForRemoteIP, Done, TypeOK
<1>10. Caller(c)
    <2>1. UNCHANGED callers => FALSE
        BY <1>0 DEF callers
    <2>2. ~(Reap \/ CloseAll)
        BY <2>1 DEF Reap, CloseAll, BeginPass, EvictLeg, EndPass, BeginClose, CloseTunnel,
           EndClose, CloseLegSockets, ForgetLeg
    <2> QED
        BY <1>9, <2>1, <2>2 DEF Next, vars, Traffic, LegIdles, LegActive, ReaperExit, SignalClose
<1>11. Own
    BY <1>2, <1>3, <1>5, <1>6, <1>7, <1>8, <1>10 DEF Caller, EnsureTunnel
<1>12. \/ pc[c] = "copy" /\ UNCHANGED <<info, upstream>>
       \/ Unlocked /\ UNCHANGED locks
    BY <1>8, <1>10 DEF Caller, EnsureTunnel, CopyInfo, Recheck, CreateUDPOnly, CreateTCPOnly,
       CreateMixed, CreateWithoutUDP, Creating, TunnelForRemoteIP, sockets
<1> QED
    BY <1>11, <1>12

\* A UDP port a caller is given is at that moment the client port of the
\* registered tunnel of the address it asked about, and open, but for a copy
\* made between the two halves of closeUDPLeg, when nobody has it (EnsureTunnel's
\* unlocked fast path, its recheck, its creations, and tunnelForRemoteIP).
THEOREM AnswersAreOwn == Spec => AnsweredLegIsOwn
<1> DEFINE Step == \A c \in Callers :
          LET t == tunnels'[want'[c]]
              port == reply'[c].udpClientPort
          IN  (pc[c] # "replied" /\ pc'[c] = "replied" /\ port # 0)
              => /\ t # NoTunnel
                 /\ info'[t].udpClientPort = port
                 /\ \/ udpOwner'[port] = t
                    \/ pc[c] = "copy" /\ t \in Cut /\ udpOwner'[port] = NoTunnel
<1>1. ASSUME IInv, IInv', CopiersHoldTheirKey, [Next]_vars PROVE Step
    <2> SUFFICES ASSUME NEW c \in Callers, pc[c] # "replied", pc'[c] = "replied",
                        reply'[c].udpClientPort # 0
                 PROVE  /\ tunnels'[want'[c]] # NoTunnel
                        /\ info'[tunnels'[want'[c]]].udpClientPort = reply'[c].udpClientPort
                        /\ \/ udpOwner'[reply'[c].udpClientPort] = tunnels'[want'[c]]
                           \/ /\ pc[c] = "copy"
                              /\ tunnels'[want'[c]] \in Cut
                              /\ udpOwner'[reply'[c].udpClientPort] = NoTunnel
        OBVIOUS
    <2>1. PICK t \in TunnelIds : /\ info'[t].udpClientPort = reply'[c].udpClientPort
                                 /\ info'[t].key = want'[c]
                                 /\ \/ pc[c] = "copy" /\ UNCHANGED <<info, upstream>>
                                    \/ Unlocked /\ UNCHANGED locks
        BY <1>1, AnswerStep
    <2>2. hasUDP(info'[t]) /\ tunnels'[info'[t].key] = t
        BY <1>1, <2>1 DEF IInv, LegsInPlace, InPlace, hasUDP
    <2>3. tunnels'[want'[c]] = t /\ t # NoTunnel
        BY <1>1, <2>1, <2>2, NamesAssumption DEF IInv, TypeOK
    <2>4. CASE t \in upstream'
        <3>1. udpOwner'[info'[t].udpClientPort] = t
            BY <1>1, <2>4 DEF IInv, OpenLegs
        <3> QED
            BY <2>1, <2>3, <3>1
    <2>5. CASE t \notin upstream'
        <3>1. t \in Cut'
            BY <2>2, <2>5 DEF Cut, hasUDP
        <3>2. t \in due' /\ udpOwner'[info'[t].udpClientPort] = NoTunnel
            BY <1>1, <3>1 DEF IInv, OneCloser
        <3>3. ~(Unlocked /\ UNCHANGED locks)
            BY <1>1, <3>2 DEF IInv, OneCloser, locks
        <3>4. pc[c] = "copy" /\ t \in Cut
            BY <2>1, <2>2, <2>5, <3>3 DEF Cut, hasUDP
        <3> QED
            BY <2>1, <2>3, <3>2, <3>4
    <2> QED
        BY <2>4, <2>5
<1>2. Init => CopiersHoldTheirKey
    BY DEF Init, CopiersHoldTheirKey
<1>3. IInv /\ IInv' /\ CopiersHoldTheirKey /\ [Next]_vars => CopiersHoldTheirKey'
    BY CopiersStep
<1>4. IInv /\ IInv' /\ CopiersHoldTheirKey /\ [Next]_vars => [Step]_vars
    BY <1>1
<1> QED
    BY <1>2, <1>3, <1>4, Ownership, PTL DEF Spec, AnsweredLegIsOwn

-----------------------------------------------------------------------------
\* Before Close, idle eviction and every other step leave a tunnel that has a
\* TCP listener registered, on its port.
THEOREM LobbyOutlives == Spec => LobbyOutlivesTheLeg
<1> DEFINE Step == \A k \in Keys :
          (closing = "no" /\ tunnels[k] # NoTunnel /\ info[tunnels[k]].tcpListener)
          => /\ tunnels'[k] = tunnels[k]
             /\ LET p == info[tunnels[k]].localPort
                IN  tcpOwner[p] = tunnels[k] => tcpOwner'[p] = tunnels[k]
<1>1. ASSUME IInv, [Next]_vars PROVE Step
    <2> USE NamesAssumption
    <2>0. TypeOK
        BY <1>1 DEF IInv
    <2> SUFFICES ASSUME NEW k \in Keys, closing = "no", tunnels[k] # NoTunnel,
                        info[tunnels[k]].tcpListener
                 PROVE  /\ tunnels'[k] = tunnels[k]
                        /\ \A p : tcpOwner[p] = tunnels[k] /\ p \in TCPPool
                                    => tcpOwner'[p] = tunnels[k]
        BY <1>1, <2>0 DEF IInv, TypeOK, Tunnel, ListenersHavePorts
    <2>1. ASSUME UNCHANGED <<tunnels, tcpOwner>>
          PROVE  /\ tunnels'[k] = tunnels[k]
                 /\ \A p : tcpOwner[p] = tunnels[k] => tcpOwner'[p] = tunnels[k]
        BY <2>1
    <2>2. ASSUME NEW c \in Callers, NEW o, Register(c, o), tunnels[want[c]] = NoTunnel,
                 o.tcpListener => o.localPort \in TCPPool /\ tcpOwner[o.localPort] = NoTunnel
          PROVE  /\ tunnels'[k] = tunnels[k]
                 /\ \A p : tcpOwner[p] = tunnels[k] /\ p \in TCPPool
                            => tcpOwner'[p] = tunnels[k]
        <3>1. tunnels'[k] = tunnels[k]
            BY <2>0, <2>2 DEF Register, TypeOK
        <3>2. ASSUME NEW p, tcpOwner[p] = tunnels[k]
              PROVE  tcpOwner'[p] = tunnels[k]
            BY <2>0, <2>2, <3>2 DEF Register, TypeOK
        <3> QED
            BY <3>1, <3>2
    <2>3. ASSUME NEW c \in Callers, CreateUDPOnly(c)
          PROVE  /\ tunnels'[k] = tunnels[k]
                 /\ \A p : tcpOwner[p] = tunnels[k] /\ p \in TCPPool
                            => tcpOwner'[p] = tunnels[k]
        BY <2>2, <2>3 DEF CreateUDPOnly, Creating, MakeTunnel
    <2>4. ASSUME NEW c \in Callers, CreateTCPOnly(c) \/ CreateMixed(c)
          PROVE  /\ tunnels'[k] = tunnels[k]
                 /\ \A p : tcpOwner[p] = tunnels[k] /\ p \in TCPPool
                            => tcpOwner'[p] = tunnels[k]
        <3>1. PICK p, u : /\ p \in TCPPool /\ tcpOwner[p] = NoTunnel
                          /\ Register(c, MakeTunnel(want[c], p, u))
            BY <2>4, BindsFreePort DEF CreateTCPOnly, CreateMixed
        <3> QED
            BY <2>2, <2>4, <3>1 DEF CreateTCPOnly, CreateMixed, Creating, MakeTunnel
    <2>5. ASSUME NEW c \in Callers, CreateWithoutUDP(c)
          PROVE  tunnels'[k] = tunnels[k] /\ tcpOwner' = tcpOwner
        BY <2>0, <2>5 DEF CreateWithoutUDP, Creating, sockets, TypeOK
    <2>6. CASE Reap
        <3>1. CASE EndPass
            <4>1. k \notin Removed
                BY DEF Removed
            <4> QED
                BY <2>0, <3>1, <4>1 DEF EndPass, sockets, TypeOK
        <3>2. CASE BeginPass \/ \E t \in TunnelIds : EvictLeg(t)
            BY <2>1, <3>2 DEF BeginPass, EvictLeg, CloseLegSockets, sockets
        <3> QED
            BY <2>6, <3>1, <3>2 DEF Reap
    <2>7. ~CloseAll
        BY DEF CloseAll, BeginClose, CloseTunnel, EndClose
    <2>8. ASSUME NEW c \in Callers,
                 Call(c) \/ Lookup(c) \/ CopyInfo(c) \/ Recheck(c) \/ CreateFails(c)
                    \/ TunnelForRemoteIP(c) \/ Done(c)
          PROVE  UNCHANGED <<tunnels, tcpOwner>>
        BY <2>8 DEF Call, Lookup, CopyInfo, Recheck, CreateFails, TunnelForRemoteIP, Done,
           sockets
    <2>9. ASSUME NEW t \in TunnelIds, Traffic(t) PROVE UNCHANGED <<tunnels, tcpOwner>>
        BY <2>9 DEF Traffic, LegIdles, LegActive, sockets
    <2>10. CASE ReaperExit \/ SignalClose \/ UNCHANGED vars
        BY <2>1, <2>10 DEF ReaperExit, SignalClose, vars, sockets
    <2> QED
        BY <1>1, <2>1, <2>3, <2>4, <2>5, <2>6, <2>7, <2>8, <2>9, <2>10
        DEF Next, Caller, EnsureTunnel
<1>2. IInv /\ [Next]_vars => [Step]_vars
    BY <1>1
<1> QED
    BY <1>2, Ownership, PTL DEF Spec, LobbyOutlivesTheLeg

-----------------------------------------------------------------------------
(***************************************************************************)
(* Refinement                                                              *)
(***************************************************************************)
\* What the directory sees of the callers.
Status == [c \in Callers |-> CASE pc[c] \in {"lookup", "lock"} -> "waiting"
                                [] pc[c] \in {"copy", "replied"} -> "answered"
                                [] OTHER -> pc[c]]

LEMMA StatusUpdate ==
    ASSUME TypeOK, NEW c \in Callers, NEW v, pc' = [pc EXCEPT ![c] = v],
           v \in {"idle", "lookup", "copy", "lock", "replied", "failed"}
    PROVE  Status' = [Status EXCEPT ![c] = CASE v \in {"lookup", "lock"} -> "waiting"
                                            [] v \in {"copy", "replied"} -> "answered"
                                            [] OTHER -> v]
BY DEF TypeOK, Status

\* A step of the registry is a step of the directory or a stutter.
LEMMA DirectoryStep ==
    ASSUME TypeOK, TypeOK', [Next]_vars
    PROVE  [Directory!Next]_(Directory!dirVars)
<1> USE NamesAssumption
<1>0. Directory!dirVars = <<tunnels, Status, want, ref>>
    BY DEF Directory!dirVars, Status
<1>1. ASSUME NEW c \in Callers, Call(c) PROVE \E k \in Keys : Directory!Ask(c, k)
    <2>1. PICK k \in Keys : want' = [want EXCEPT ![c] = k]
        BY <1>1 DEF Call
    <2>2. Status[c] = "idle" /\ Status' = [Status EXCEPT ![c] = "waiting"]
        BY <1>1, StatusUpdate DEF Call, Status
    <2> QED
        BY <1>1, <2>1, <2>2 DEF Call, Directory!Ask, Status
<1>2. ASSUME NEW c \in Callers, Lookup(c) PROVE Directory!Hit(c) \/ UNCHANGED Directory!dirVars
    <2>1. Status[c] = "waiting"
        BY <1>2 DEF Lookup, Status
    <2>2. CASE tunnels[want[c]] # NoTunnel
        <3>1. Status' = [Status EXCEPT ![c] = "answered"]
            BY <1>2, <2>2, StatusUpdate DEF Lookup
        <3> QED
            BY <1>2, <2>1, <2>2, <3>1 DEF Lookup, Directory!Hit, Directory!AnswerWith, Status
    <2>3. CASE tunnels[want[c]] = NoTunnel
        <3>1. Status' = [Status EXCEPT ![c] = "waiting"]
            BY <1>2, <2>3, StatusUpdate DEF Lookup
        <3>2. Status' = Status
            BY <2>1, <3>1 DEF Status
        <3>3. ref' = ref
            BY <1>2, <2>3 DEF Lookup, TypeOK
        <3> QED
            BY <1>0, <1>2, <3>2, <3>3 DEF Lookup, Directory!dirVars, Status
    <2> QED
        BY <2>2, <2>3
<1>3. ASSUME NEW c \in Callers, CopyInfo(c) PROVE UNCHANGED Directory!dirVars
    <2>1. Status[c] = "answered" /\ Status' = [Status EXCEPT ![c] = "answered"]
        BY <1>3, StatusUpdate DEF CopyInfo, Answer, Status
    <2>2. Status' = Status
        BY <2>1 DEF Status
    <2>3. ref' = ref
        BY <1>3 DEF CopyInfo, Answer, TypeOK
    <2> QED
        BY <1>3, <2>2, <2>3 DEF CopyInfo, Answer, Directory!dirVars, Status
<1>4. ASSUME NEW c \in Callers, Recheck(c) PROVE Directory!Hit(c)
    <2>1. Status[c] = "waiting" /\ Status' = [Status EXCEPT ![c] = "answered"]
        BY <1>4, StatusUpdate DEF Recheck, Answer, Status
    <2> QED
        BY <1>4, <2>1 DEF Recheck, Answer, Directory!Hit, Directory!AnswerWith, Status
<1>5. ASSUME NEW c \in Callers, NEW t \in TunnelIds, NEW o, Creating(c), Fresh(t),
             tunnels' = [tunnels EXCEPT ![want[c]] = t], Answer(c, t, o)
      PROVE  Directory!Install(c)
    <2>1. Status[c] = "waiting" /\ Status' = [Status EXCEPT ![c] = "answered"]
        BY <1>5, StatusUpdate DEF Creating, Answer, Status
    <2>2. t \in Directory!Free
        BY <1>5 DEF Fresh, Directory!Free
    <2> QED
        BY <1>5, <2>1, <2>2
        DEF Creating, Answer, Directory!Install, Directory!AnswerWith, Status
<1>6. ASSUME NEW c \in Callers,
             CreateUDPOnly(c) \/ CreateTCPOnly(c) \/ CreateMixed(c) \/ CreateWithoutUDP(c)
      PROVE  Directory!Install(c)
    BY <1>5, <1>6
    DEF CreateUDPOnly, CreateTCPOnly, CreateMixed, CreateWithoutUDP, Register
<1>7. ASSUME NEW c \in Callers, CreateFails(c) PROVE Directory!Refuse(c)
    <2>1. Status[c] = "waiting" /\ Status' = [Status EXCEPT ![c] = "failed"]
        BY <1>7, StatusUpdate DEF CreateFails, Creating, Status
    <2> QED
        BY <1>7, <2>1 DEF CreateFails, Creating, Directory!Refuse, Status
<1>8. ASSUME NEW c \in Callers, TunnelForRemoteIP(c)
      PROVE  \E k \in Keys : Directory!Find(c, k)
    <2>1. PICK k \in Keys : /\ tunnels[k] # NoTunnel
                            /\ want' = [want EXCEPT ![c] = k]
                            /\ ref' = [ref EXCEPT ![c] = tunnels[k]]
        BY <1>8 DEF TunnelForRemoteIP
    <2>2. Status[c] = "idle" /\ Status' = [Status EXCEPT ![c] = "answered"]
        BY <1>8, StatusUpdate DEF TunnelForRemoteIP, Status
    <2> QED
        BY <1>8, <2>1, <2>2
        DEF TunnelForRemoteIP, Directory!Find, Directory!AnswerWith, Status
<1>9. ASSUME NEW c \in Callers, Done(c) PROVE Directory!Done(c)
    <2>1. Status[c] \in {"answered", "failed"} /\ Status' = [Status EXCEPT ![c] = "idle"]
        BY <1>9, StatusUpdate DEF Done, Status
    <2> QED
        BY <1>9, <2>1, AnyKeyIsKey DEF Done, Directory!Done, Status
<1>10. CASE Reap \/ CloseAll
    <2>1. ASSUME NEW S \in SUBSET Keys, UNCHANGED callers,
                 tunnels' = [k \in Keys |-> IF k \in S THEN NoTunnel ELSE tunnels[k]]
          PROVE  Directory!Next
        BY <2>1 DEF callers, Directory!Remove, Directory!Next
    <2>2. CASE EndPass
        BY <2>1, <2>2 DEF EndPass, Removed
    <2>3. ASSUME NEW t \in TunnelIds, CloseTunnel(t), ForgetLeg(t),
                 tunnels' = [k \in Keys |-> IF tunnels[k] = t THEN NoTunnel ELSE tunnels[k]]
          PROVE  Directory!Next
        <3> DEFINE S == {k \in Keys : tunnels[k] = t}
        <3>1. tunnels' = [k \in Keys |-> IF k \in S THEN NoTunnel ELSE tunnels[k]]
            BY <2>3
        <3>2. S \in SUBSET Keys /\ UNCHANGED callers
            BY <2>3 DEF ForgetLeg
        <3> QED
            BY <2>1, <3>1, <3>2
    <2>4. ASSUME UNCHANGED <<tunnels, callers>> PROVE UNCHANGED Directory!dirVars
        BY <2>4 DEF callers, Directory!dirVars
    <2>5. CASE BeginPass \/ BeginClose \/ EndClose
        BY <2>4, <2>5 DEF BeginPass, BeginClose, EndClose
    <2>6. ASSUME NEW t \in TunnelIds, EvictLeg(t)
          PROVE  UNCHANGED Directory!dirVars
        BY <2>4, <2>6 DEF EvictLeg, CloseLegSockets, ForgetLeg
    <2>7. ASSUME NEW t \in TunnelIds, CloseTunnel(t)
          PROVE  Directory!Next \/ UNCHANGED Directory!dirVars
        BY <2>3, <2>4, <2>7 DEF CloseTunnel, CloseLegSockets
    <2> QED
        BY <1>10, <2>2, <2>5, <2>6, <2>7 DEF Reap, CloseAll
<1>11. ASSUME \/ ReaperExit \/ SignalClose \/ UNCHANGED vars
              \/ \E t \in TunnelIds : Traffic(t)
       PROVE  UNCHANGED Directory!dirVars
    BY <1>11 DEF ReaperExit, SignalClose, Traffic, LegIdles, LegActive, vars, callers,
       Directory!dirVars
<1> QED
    BY <1>1, <1>2, <1>3, <1>4, <1>6, <1>7, <1>8, <1>9, <1>10, <1>11
    DEF Next, Caller, EnsureTunnel, Directory!Next

\* EnsureTunnel, tunnelForRemoteIP, the reaper and Close implement the
\* directory: one tunnel per address, and every answer the tunnel that was
\* registered for the address at a moment of the call.
THEOREM DirectoryRefined == Spec => ImplementsDirectory
<1>1. Init => Directory!Init
    BY NamesAssumption, AnyKeyIsKey DEF Init, Directory!Init
<1>2. TypeOK /\ TypeOK' /\ [Next]_vars => [Directory!Next]_(Directory!dirVars)
    BY DirectoryStep
<1> QED
    BY <1>1, <1>2, TypeCorrect, PTL DEF Spec, ImplementsDirectory, Directory!Spec
=============================================================================
