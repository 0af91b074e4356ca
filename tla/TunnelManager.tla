---------------------------- MODULE TunnelManager ----------------------------
(***************************************************************************)
(* The registry of tunnels of src/internal/tunnels/manager.go: EnsureTunnel *)
(* with its unlocked fast path, createTunnel and its three kinds of tunnel, *)
(* the bind loops over the configured port ranges, the lookup by bare IP,   *)
(* the idle reaper of UDP legs and the shutdown.                            *)
(*                                                                          *)
(* EnsureTunnel copies the info it has found without Manager.mu, so the     *)
(* critical sections that close legs, the reaper's pass and Close, go leg   *)
(* by leg, a leg's sockets before the port it reports; the others are one   *)
(* step each.  The port is a machine word: a copy that races with its reset *)
(* sees the old value or the new.                                           *)
(*                                                                          *)
(* Time is abstracted to one bit of a tunnel, `idle': its last UDP activity *)
(* is at least UDPIdleTimeout old (UdpRelay has the clock).  Sockets are    *)
(* kept by the operating system: a port of a protocol has one owner, and a  *)
(* bind fails when another program holds the port, which may differ from    *)
(* one bind to the next.                                                    *)
(***************************************************************************)
EXTENDS Naturals, FiniteSets

CONSTANTS
    RemoteIPs,               \* upstream IPs callers ask about
    BadIPs,                  \* those net.ParseIP does not accept
    RemotePorts,             \* upstream ports callers ask about
    PortsRangeStart, PortsRangeEnd,                     \* DAD_PROXY_PORTS_RANGE
    UDPPortsRangeStart, UDPPortsRangeEnd,               \* DAD_PROXY_UDP_PORTS_RANGE
    UDPClientBindRangeStart, UDPClientBindRangeEnd,     \* DAD_PROXY_UDP_CLIENT_BIND_RANGE
    ForeignTCP, ForeignUDP,  \* ports other programs of the host may hold
    Callers,                 \* goroutines that call the manager
    TunnelIds,               \* names of tunnel objects
    NoTunnel,                \* nil
    UDPIdleTimeout           \* zero disables the reaper

Keys == RemoteIPs \X RemotePorts
TCPPool == PortsRangeStart .. PortsRangeEnd
UDPClientBindRange == UDPClientBindRangeStart .. UDPClientBindRangeEnd
Vias == {"hello", "payload", "bare"}

ASSUME RangesAssumption ==
    /\ PortsRangeStart \in Nat \ {0} /\ PortsRangeEnd \in Nat
    /\ UDPPortsRangeStart \in Nat \ {0} /\ UDPPortsRangeEnd \in Nat
    /\ UDPClientBindRangeStart \in Nat \ {0} /\ UDPClientBindRangeEnd \in Nat
ASSUME NamesAssumption == NoTunnel \notin TunnelIds
ASSUME KeysAssumption == Keys # {} /\ RemotePorts \subseteq Nat
ASSUME TimeoutAssumption == UDPIdleTimeout \in Nat

VARIABLES
    tunnels,   \* Manager.tunnels: the tunnel of each key, or NoTunnel
    info,      \* the tunnel objects
    tcpOwner,  \* the tunnel that listens on each TCP port of the pool
    udpOwner,  \* the tunnel that has each UDP client port bound
    upstream,  \* the tunnels that have their ephemeral upstream socket open
    pc,        \* control state of each caller
    via,       \* what the caller uses its answer for
    want,      \* the key it asked about
    ref,       \* the tunnel pointer it holds
    reply,     \* the TunnelInfo it was given
    reaper,    \* "running", "evicting" (in a pass, under the lock) or "stopped"
    closing,   \* Manager.Close: "no", "signalled" (idleStop closed), "closing"
               \* (under the lock) or "closed"
    due        \* the tunnels the pass or Close has still to close

sockets == <<tcpOwner, udpOwner, upstream>>
callers == <<pc, via, want, ref, reply>>
locks == <<reaper, closing, due>>
vars == <<tunnels, info, sockets, callers, locks>>

(***************************************************************************)
(* The tunnel object                                                       *)
(***************************************************************************)
\* What the fields of tunnel and of its TunnelInfo hold that this module
\* reads.  tcpListener and udpClient say that the pointer is not nil; close
\* never resets tcpListener.
Tunnel == [key : Keys, localPort : TCPPool \cup {0},
           udpClientPort : UDPClientBindRange \cup {0},
           tcpListener : BOOLEAN, udpClient : BOOLEAN, idle : BOOLEAN]

MakeTunnel(k, tcpPort, udpPort) ==
    [key |-> k, localPort |-> tcpPort, udpClientPort |-> udpPort,
     tcpListener |-> tcpPort # 0, udpClient |-> udpPort # 0, idle |-> FALSE]

\* Mutants: a field of the closed leg is left as it was.
closeUDPLegKeepsPort(o) == [o EXCEPT !.udpClient = FALSE, !.idle = FALSE]
closeUDPLegKeepsSocket(o) == [o EXCEPT !.udpClientPort = 0, !.idle = FALSE]
closeUDPLeg(o) ==
    [o EXCEPT !.udpClient = FALSE, !.udpClientPort = 0, !.idle = FALSE]

hasUDP(o) == o.udpClient

\* The part of a TunnelInfo copy the callers use.
Answers == [localPort : TCPPool \cup {0}, udpClientPort : UDPClientBindRange \cup {0}]
NoAnswer == [localPort |-> 0, udpClientPort |-> 0]
TunnelInfo(o) == [localPort |-> o.localPort, udpClientPort |-> o.udpClientPort]

ClientAdvertisedPort(r) == IF r.localPort > 0 THEN r.localPort ELSE r.udpClientPort

\* The port HandleProxy puts in the JSON it answers helloWorld with.
HelloPort(r) == IF r.udpClientPort > 0 THEN r.udpClientPort ELSE r.localPort

AdvertisedPort(v, r) == CASE v = "hello" -> HelloPort(r)
                          [] v = "payload" -> ClientAdvertisedPort(r)
                          [] v = "bare" -> r.udpClientPort

(***************************************************************************)
(* Ports                                                                   *)
(***************************************************************************)
isRemotePortInTunnelTCPPool(p) == p >= PortsRangeStart /\ p <= PortsRangeEnd

isRemoteGameUDPPort(p) == /\ p >= UDPPortsRangeStart /\ p <= UDPPortsRangeEnd
                          /\ ~isRemotePortInTunnelTCPPool(p)

Lowest(S) == {p \in S : \A q \in S : p <= q}

FreeTCP(busy) == {p \in TCPPool : tcpOwner[p] = NoTunnel} \ busy
FreeUDP(busy) == {p \in UDPClientBindRange : udpOwner[p] = NoTunnel} \ busy

\* The port the bind loops end on, as a set that is empty when they fail:
\* the upstream's own port number first, then the range in order.
listenTCPInPortRange(preferred, free) ==
    IF preferred \in free THEN {preferred} ELSE Lowest(free)

listenUDPInPortRange(free) == Lowest(free)

(***************************************************************************)
(* Initial state: NewManager                                               *)
(***************************************************************************)
AnyKey == CHOOSE k \in Keys : TRUE

Init ==
    /\ tunnels = [k \in Keys |-> NoTunnel]
    /\ info = [t \in TunnelIds |-> MakeTunnel(AnyKey, 0, 0)]
    /\ tcpOwner = [p \in TCPPool |-> NoTunnel]
    /\ udpOwner = [p \in UDPClientBindRange |-> NoTunnel]
    /\ upstream = {}
    /\ pc = [c \in Callers |-> "idle"]
    /\ via = [c \in Callers |-> "hello"]
    /\ want = [c \in Callers |-> AnyKey]
    /\ ref = [c \in Callers |-> NoTunnel]
    /\ reply = [c \in Callers |-> NoAnswer]
    /\ reaper = IF UDPIdleTimeout > 0 THEN "running" ELSE "stopped"
    /\ closing = "no" /\ due = {}

\* Nobody holds Manager.mu from one step to the next.
Unlocked == reaper # "evicting" /\ closing # "closing"

(***************************************************************************)
(* EnsureTunnel                                                            *)
(***************************************************************************)
\* HandleProxy and the payload rewriter ask for any address they are told.
Call(c) ==
    /\ pc[c] = "idle"
    /\ \E v \in {"hello", "payload"}, k \in Keys :
        /\ via' = [via EXCEPT ![c] = v]
        /\ want' = [want EXCEPT ![c] = k]
    /\ pc' = [pc EXCEPT ![c] = "lookup"]
    /\ UNCHANGED <<tunnels, info, sockets, ref, reply, locks>>

\* Mutant: the found tunnel is used without looking whether there is one.
LookupUnchecked(c) ==
    /\ pc[c] = "lookup" /\ Unlocked
    /\ pc' = [pc EXCEPT ![c] = "copy"]
    /\ ref' = [ref EXCEPT ![c] = tunnels[want[c]]]
    /\ UNCHANGED <<tunnels, info, sockets, via, want, reply, locks>>

\* The lookup under the read lock.
Lookup(c) ==
    LET t == tunnels[want[c]] IN
    /\ pc[c] = "lookup" /\ Unlocked
    /\ pc' = [pc EXCEPT ![c] = IF t # NoTunnel THEN "copy" ELSE "lock"]
    /\ ref' = [ref EXCEPT ![c] = t]
    /\ UNCHANGED <<tunnels, info, sockets, via, want, reply, locks>>

\* The caller c gets a copy of the TunnelInfo of o, the object named t.
Answer(c, t, o) ==
    /\ pc' = [pc EXCEPT ![c] = "replied"]
    /\ ref' = [ref EXCEPT ![c] = t]
    /\ reply' = [reply EXCEPT ![c] = TunnelInfo(o)]
    /\ UNCHANGED <<via, want>>

\* The copy of the found tunnel's info, made after the read lock is released:
\* at any moment of a pass of the reaper or of Close.
CopyInfo(c) ==
    /\ pc[c] = "copy"
    /\ Answer(c, ref[c], info[ref[c]])
    /\ UNCHANGED <<tunnels, info, sockets, locks>>

\* The second lookup, under the write lock: another caller made the tunnel.
Recheck(c) ==
    LET t == tunnels[want[c]] IN
    /\ pc[c] = "lock" /\ Unlocked
    /\ t # NoTunnel
    /\ Answer(c, t, info[t])
    /\ UNCHANGED <<tunnels, info, sockets, locks>>

\* A tunnel object nothing refers to: the allocator's next.
Fresh(t) == /\ \A k \in Keys : tunnels[k] # t
            /\ \A c \in Callers : ref[c] # t

\* The new object is registered under its key and its info is answered.
Register(c, o) ==
    \E t \in TunnelIds :
        /\ Fresh(t)
        /\ info' = [info EXCEPT ![t] = o]
        /\ tunnels' = [tunnels EXCEPT ![want[c]] = t]
        /\ tcpOwner' = IF o.tcpListener THEN [tcpOwner EXCEPT ![o.localPort] = t]
                                        ELSE tcpOwner
        /\ udpOwner' = IF hasUDP(o) THEN [udpOwner EXCEPT ![o.udpClientPort] = t]
                                    ELSE udpOwner
        /\ upstream' = IF hasUDP(o) THEN upstream \cup {t} ELSE upstream
        /\ Answer(c, t, o)

\* Mutant: no second lookup.
CreatingUnchecked(c) == pc[c] = "lock" /\ Unlocked

\* createTunnel runs under the write lock, for a key that has no tunnel.
Creating(c) == /\ pc[c] = "lock" /\ Unlocked
               /\ tunnels[want[c]] = NoTunnel

TCPChoices(c, busy) == listenTCPInPortRange(want[c][2], FreeTCP(busy))
UDPChoices(busy) == listenUDPInPortRange(FreeUDP(busy))

\* A game port: no TCP listener.
CreateUDPOnly(c) ==
    /\ Creating(c)
    /\ want[c][1] \notin BadIPs
    /\ isRemoteGameUDPPort(want[c][2])
    /\ \E busy \in SUBSET ForeignUDP : \E u \in UDPChoices(busy) :
            Register(c, MakeTunnel(want[c], 0, u))
    /\ UNCHANGED <<locks>>

\* A port of the TCP pool: no UDP sockets.
CreateTCPOnly(c) ==
    /\ Creating(c)
    /\ want[c][1] \notin BadIPs
    /\ isRemotePortInTunnelTCPPool(want[c][2])
    /\ \E busy \in SUBSET ForeignTCP : \E p \in TCPChoices(c, busy) :
            Register(c, MakeTunnel(want[c], p, 0))
    /\ UNCHANGED <<locks>>

\* A port of neither kind gets a TCP listener and a UDP leg.
WantsBoth(k) == /\ ~isRemoteGameUDPPort(k[2])
                /\ ~isRemotePortInTunnelTCPPool(k[2])

CreateMixed(c) ==
    /\ Creating(c)
    /\ want[c][1] \notin BadIPs
    /\ WantsBoth(want[c])
    /\ \E bt \in SUBSET ForeignTCP, bu \in SUBSET ForeignUDP :
            \E p \in TCPChoices(c, bt), u \in UDPChoices(bu) :
                Register(c, MakeTunnel(want[c], p, u))
    /\ UNCHANGED <<locks>>

\* ... and when no client port is left, the listener is closed again and the
\* tunnel is registered with it.
CreateWithoutUDP(c) ==
    /\ Creating(c)
    /\ want[c][1] \notin BadIPs
    /\ WantsBoth(want[c])
    /\ \E bt \in SUBSET ForeignTCP, bu \in SUBSET ForeignUDP :
        /\ UDPChoices(bu) = {}
        /\ \E p \in TCPChoices(c, bt), t \in TunnelIds :
            /\ Fresh(t)
            /\ info' = [info EXCEPT ![t] = MakeTunnel(want[c], p, 0)]
            /\ tunnels' = [tunnels EXCEPT ![want[c]] = t]
            /\ Answer(c, t, MakeTunnel(want[c], p, 0))
    /\ UNCHANGED <<sockets, locks>>

\* Why createTunnel returns an error: the IP does not parse, a range has no
\* free port, or the bind of the ephemeral upstream socket fails.
CreateCanFail(c) ==
    \/ want[c][1] \in BadIPs
    \/ ~isRemotePortInTunnelTCPPool(want[c][2])
    \/ \E busy \in SUBSET ForeignTCP : TCPChoices(c, busy) = {}

\* Every socket bound on the way is closed again.
CreateFails(c) ==
    /\ Creating(c)
    /\ CreateCanFail(c)
    /\ pc' = [pc EXCEPT ![c] = "failed"]
    /\ UNCHANGED <<tunnels, info, sockets, via, want, ref, reply, locks>>

EnsureTunnel(c) ==
    \/ Call(c) \/ Lookup(c) \/ CopyInfo(c) \/ Recheck(c)
    \/ CreateUDPOnly(c) \/ CreateTCPOnly(c) \/ CreateMixed(c)
    \/ CreateWithoutUDP(c) \/ CreateFails(c)

\* tunnelForRemoteIP, under the read lock.  Of the tunnels to the IP that have
\* a UDP port the map iteration picks any; an answer without a UDP port is not
\* used by the rewriter.
TunnelForRemoteIP(c) ==
    /\ pc[c] = "idle" /\ Unlocked
    /\ \E k \in Keys :
        /\ tunnels[k] # NoTunnel
        /\ info[tunnels[k]].udpClientPort > 0
        /\ want' = [want EXCEPT ![c] = k]
        /\ ref' = [ref EXCEPT ![c] = tunnels[k]]
        /\ reply' = [reply EXCEPT ![c] = TunnelInfo(info[tunnels[k]])]
    /\ pc' = [pc EXCEPT ![c] = "replied"]
    /\ via' = [via EXCEPT ![c] = "bare"]
    /\ UNCHANGED <<tunnels, info, sockets, locks>>

\* The caller uses its copy and drops its pointer.
Done(c) ==
    /\ pc[c] \in {"replied", "failed"}
    /\ pc' = [pc EXCEPT ![c] = "idle"]
    /\ via' = [via EXCEPT ![c] = "hello"]
    /\ want' = [want EXCEPT ![c] = AnyKey]
    /\ ref' = [ref EXCEPT ![c] = NoTunnel]
    /\ reply' = [reply EXCEPT ![c] = NoAnswer]
    /\ UNCHANGED <<tunnels, info, sockets, locks>>

(***************************************************************************)
(* UDP traffic and the idle reaper                                         *)
(***************************************************************************)
Registered(t) == \E k \in Keys : tunnels[k] = t

\* No relayed datagram for UDPIdleTimeout.
LegIdles(t) ==
    /\ Registered(t)
    /\ hasUDP(info[t])
    /\ info' = [info EXCEPT ![t].idle = TRUE]
    /\ UNCHANGED <<tunnels, sockets, callers, locks>>

\* markUDPActivity: a pass that has not looked at the leg yet passes it over.
LegActive(t) ==
    /\ Registered(t)
    /\ hasUDP(info[t])
    /\ info' = [info EXCEPT ![t].idle = FALSE]
    /\ \/ UNCHANGED due
       \/ reaper = "evicting" /\ t \in due \cap upstream /\ due' = due \ {t}
    /\ UNCHANGED <<tunnels, sockets, callers, reaper, closing>>

CloseSockets(owner, t) == [p \in DOMAIN owner |-> IF owner[p] = t THEN NoTunnel ELSE owner[p]]

\* The legs whose sockets are closed and whose port is not reset yet.
Cut == {t \in TunnelIds : hasUDP(info[t]) /\ t \notin upstream}

\* The first half of closeUDPLeg: both sockets of the leg are closed.
CloseLegSockets(t) ==
    /\ t \in due /\ t \in upstream /\ Cut = {}
    /\ udpOwner' = CloseSockets(udpOwner, t)
    /\ upstream' = upstream \ {t}
    /\ UNCHANGED <<tunnels, info, tcpOwner, callers, locks>>

\* The second half: the object forgets its leg.
ForgetLeg(t) ==
    /\ t \in due /\ t \notin upstream /\ Cut \subseteq {t}
    /\ info' = [info EXCEPT ![t] = closeUDPLeg(@)]
    /\ due' = due \ {t}
    /\ UNCHANGED <<udpOwner, upstream, callers, reaper, closing>>

Evictable(t) == Registered(t) /\ hasUDP(info[t]) /\ info[t].idle
\* Mutant: a pass overlooks legs beside a TCP listener.
EvictedWithoutMixed == {t \in TunnelIds : Evictable(t) /\ ~info[t].tcpListener}
Evicted == {t \in TunnelIds : Evictable(t)}

\* evictIdleUDPTunnels takes the lock: the legs idle now are due.
BeginPass ==
    /\ reaper = "running" /\ Unlocked
    /\ Evicted # {}
    /\ reaper' = "evicting"
    /\ due' = Evicted
    /\ UNCHANGED <<tunnels, info, sockets, callers, closing>>

EvictLeg(t) ==
    /\ reaper = "evicting"
    /\ \/ CloseLegSockets(t)
       \/ ForgetLeg(t) /\ UNCHANGED <<tunnels, tcpOwner>>

\* Mutant: the tunnels that keep a TCP listener are deleted too.
RemovedWithMixed == {k \in Keys : tunnels[k] # NoTunnel /\ ~hasUDP(info[tunnels[k]])}

\* removeKeys: the tunnels that have lost their leg and never had a listener.
Removed == {k \in Keys : /\ tunnels[k] # NoTunnel
                         /\ ~hasUDP(info[tunnels[k]])
                         /\ ~info[tunnels[k]].tcpListener}

EndPass ==
    /\ reaper = "evicting" /\ due = {}
    /\ reaper' = "running"
    /\ tunnels' = [k \in Keys |-> IF k \in Removed THEN NoTunnel ELSE tunnels[k]]
    /\ UNCHANGED <<info, sockets, callers, closing, due>>

Reap == BeginPass \/ (\E t \in TunnelIds : EvictLeg(t)) \/ EndPass

\* runUDPIdleReaper returns when idleStop is closed; while a tick is pending
\* too, select may still choose the tick.
ReaperExit ==
    /\ reaper = "running"
    /\ closing # "no"
    /\ reaper' = "stopped"
    /\ UNCHANGED <<tunnels, info, sockets, callers, closing, due>>

(***************************************************************************)
(* Close, called once by main; the HTTP server stops after it, so callers  *)
(* may still come.                                                         *)
(***************************************************************************)
SignalClose ==
    /\ closing = "no"
    /\ closing' = "signalled"
    /\ UNCHANGED <<tunnels, info, sockets, callers, reaper, due>>

BeginClose ==
    /\ closing = "signalled" /\ Unlocked
    /\ closing' = "closing"
    /\ due' = {t \in TunnelIds : Registered(t)}
    /\ UNCHANGED <<tunnels, info, sockets, callers, reaper>>

\* tunnel.close, and the key is deleted.
CloseTunnel(t) ==
    /\ closing = "closing"
    /\ \/ CloseLegSockets(t)
       \/ /\ ForgetLeg(t)
          /\ tcpOwner' = CloseSockets(tcpOwner, t)
          /\ tunnels' = [k \in Keys |-> IF tunnels[k] = t THEN NoTunnel ELSE tunnels[k]]

EndClose ==
    /\ closing = "closing" /\ due = {}
    /\ closing' = "closed"
    /\ UNCHANGED <<tunnels, info, sockets, callers, reaper, due>>

CloseAll == BeginClose \/ (\E t \in TunnelIds : CloseTunnel(t)) \/ EndClose

Caller(c) == EnsureTunnel(c) \/ TunnelForRemoteIP(c) \/ Done(c)
Traffic(t) == LegIdles(t) \/ LegActive(t)

Next == \/ \E c \in Callers : Caller(c)
        \/ \E t \in TunnelIds : Traffic(t)
        \/ Reap \/ ReaperExit
        \/ SignalClose \/ CloseAll

Spec == Init /\ [][Next]_vars

(***************************************************************************)
(* Properties                                                              *)
(***************************************************************************)
\* The types of the variables; a caller between its lookup and its answer
\* holds a tunnel, one that has no tunnel yet holds none.
TypeOK ==
    /\ tunnels \in [Keys -> TunnelIds \cup {NoTunnel}]
    /\ info \in [TunnelIds -> Tunnel]
    /\ tcpOwner \in [TCPPool -> TunnelIds \cup {NoTunnel}]
    /\ udpOwner \in [UDPClientBindRange -> TunnelIds \cup {NoTunnel}]
    /\ upstream \subseteq TunnelIds
    /\ pc \in [Callers -> {"idle", "lookup", "copy", "lock", "replied", "failed"}]
    /\ via \in [Callers -> Vias]
    /\ want \in [Callers -> Keys]
    /\ ref \in [Callers -> TunnelIds \cup {NoTunnel}]
    /\ \A c \in Callers : ref[c] # NoTunnel <=> pc[c] \in {"copy", "replied"}
    /\ reply \in [Callers -> Answers]
    /\ reaper \in {"running", "evicting", "stopped"}
    /\ closing \in {"no", "signalled", "closing", "closed"}
    /\ due \subseteq TunnelIds

\* The tunnel t is the one registered under its own key.
InPlace(t) == t \in TunnelIds /\ tunnels[info[t].key] = t

\* No socket outlives its tunnel's place in the registry: every bound port and
\* every upstream socket belongs to a tunnel that is registered, under the key
\* it was made for.  A failed creation, an eviction, a recheck that finds
\* another caller's tunnel and Close leave nothing open behind.
NoSocketLeak ==
    /\ \A p \in TCPPool : tcpOwner[p] # NoTunnel => InPlace(tcpOwner[p])
    /\ \A p \in UDPClientBindRange : udpOwner[p] # NoTunnel => InPlace(udpOwner[p])
    /\ \A t \in upstream : InPlace(t)

\* Whenever Manager.mu is free, what a registered tunnel says of its UDP leg is
\* what is open: it reports a client port exactly while it has both sockets of
\* the leg, the port is the one it has bound, and a tunnel without a TCP listener
\* is registered only while its leg is open (so two tunnels never share a client
\* port).
LegConsistent ==
    Unlocked => \A k \in Keys : tunnels[k] # NoTunnel =>
        LET t == tunnels[k]
            o == info[t]
        IN  /\ o.key = k
            /\ hasUDP(o) <=> o.udpClientPort # 0
            /\ hasUDP(o) <=> t \in upstream
            /\ hasUDP(o) => udpOwner[o.udpClientPort] = t
            /\ hasUDP(o) \/ o.tcpListener

\* Whatever the reaper and Close do between the lookup and the unlocked copy of
\* the info, a UDP port that a caller is given is, at that moment, the client port
\* of the tunnel registered for the address it asked about, never one that another
\* tunnel has.  The tunnel has it open, but for one moment: closeUDPLeg has closed
\* its sockets and not yet reset the port the unlocked copy reads.
AnsweredLegIsOwn ==
    [][\A c \in Callers :
          LET t == tunnels'[want'[c]]
              port == reply'[c].udpClientPort
          IN  (pc[c] # "replied" /\ pc'[c] = "replied" /\ port # 0)
              => /\ t # NoTunnel
                 /\ info'[t].udpClientPort = port
                 /\ \/ udpOwner'[port] = t
                    \/ pc[c] = "copy" /\ t \in Cut /\ udpOwner'[port] = NoTunnel]_vars

\* Until Close, a tunnel with a TCP listener stays registered and keeps its
\* port: idle eviction of its UDP leg never takes the lobby connection away.
LobbyOutlivesTheLeg ==
    [][\A k \in Keys :
          (closing = "no" /\ tunnels[k] # NoTunnel /\ info[tunnels[k]].tcpListener)
          => /\ tunnels'[k] = tunnels[k]
             /\ LET p == info[tunnels[k]].localPort
                IN  tcpOwner[p] = tunnels[k] => tcpOwner'[p] = tunnels[k]]_vars

\* The registry implements the directory: a call that has found a tunnel, or
\* made one, is answered.
Directory == INSTANCE TunnelDirectory WITH
    dir <- tunnels,
    status <- [c \in Callers |-> CASE pc[c] \in {"lookup", "lock"} -> "waiting"
                                    [] pc[c] \in {"copy", "replied"} -> "answered"
                                    [] OTHER -> pc[c]],
    asked <- want,
    answer <- ref

\* EnsureTunnel's double-checked locking, creation, eviction and Close look to
\* the callers like the directory: one tunnel per address, every answer a
\* tunnel that was registered for the address asked while the call was on.
ImplementsDirectory == Directory!Spec

\* manager.go:499 logs of the tunnel made when no client port is left "UDP side
\* disabled for tunnel (TCP only)": a registered tunnel that reports a TCP port
\* listens on it.
ReportedTCPPortListens ==
    \A k \in Keys : tunnels[k] # NoTunnel =>
        LET o == info[tunnels[k]]
        IN  o.localPort # 0 => tcpOwner[o.localPort] = tunnels[k]

\* README.md:96 has the JSON answer carry "port -> the local port of the
\* tunnel": before shutdown, an answer without an error names a port.
AnswerHasPort ==
    \A c \in Callers : (closing = "no" /\ pc[c] = "replied")
        => AdvertisedPort(via[c], reply[c]) # 0
=============================================================================
