------------------------------ MODULE UdpRelay ------------------------------
(***************************************************************************)
(* The UDP leg of one tunnel: the two goroutines of serveUDPSplit          *)
(* (src/internal/tunnels/manager.go), which share the set of clients, and  *)
(* the idle reaper, which closes the leg under their feet.                 *)
(*                                                                          *)
(* A datagram is its sender only: every read may return a datagram of any   *)
(* peer, every write may fail, and the network loses what it likes.  The    *)
(* clock advances in units; instants are kept as ages up to AgeCap, so the  *)
(* behaviours are endless.  The reaper is prompt: the clock does not pass a *)
(* tick before the pass of that tick is over.  The relay goroutines may be  *)
(* as slow as they like.                                                    *)
(***************************************************************************)
EXTENDS Naturals, FiniteSets

CONSTANTS
    Clients,      \* peers of the client socket, by address
    ServerPeers,  \* addresses on the server's IP, which also write to that socket
    Timeout,      \* UDPIdleTimeout
    Interval      \* the reaper's tick

Peers == Clients \cup ServerPeers
AgeCap == Timeout + Interval + 1
Nobody == "nobody"

ASSUME PeersAssumption ==
    Clients \cap ServerPeers = {} /\ IsFiniteSet(Peers) /\ Nobody \notin Peers
ASSUME TimeAssumption == Timeout \in Nat \ {0} /\ Interval \in Nat \ {0}

VARIABLES
    clients,    \* the map of known client addresses, under clientsMu
    active,     \* activeUDPSessions
    total,      \* totalUDPSessions
    clSocket,   \* udpClient's socket is open
    upSocket,   \* udpUpstream's socket is open
    hasLeg,     \* tunnel.udpClient is not nil
    idleAge,    \* age of lastUDPActivityUnixNano
    relayAge,   \* age of the last datagram written on to someone
    fed,        \* the sender of the datagram last written upstream, if any
    cpc, cpeer, cdests,   \* client loop: control state, sender, clients still to write to
    upc, udests,          \* upstream loop: control state, clients still to write to
    rpc, sinceTick        \* reaper: control state, time since its last tick

relay == <<cpc, cpeer, cdests, upc, udests>>
ages == <<idleAge, relayAge>>
counts == <<clients, active, total>>
vars == <<counts, clSocket, upSocket, hasLeg, ages, fed, relay, rpc, sinceTick>>

\* Everybody taken for a client.
udpSplitFromNobody(peer) == FALSE

udpSplitFromServer(peer) == peer \in ServerPeers

\* What the goroutines take under clientsMu before they write.
clientDestsLocked == {c \in clients : ~udpSplitFromServer(c)}

\* createTunnel has just stored the sockets and called markUDPCreated.
Init ==
    /\ clients = {} /\ active = 0 /\ total = 0
    /\ clSocket = TRUE /\ upSocket = TRUE /\ hasLeg = TRUE
    /\ idleAge = 0 /\ relayAge = AgeCap
    /\ fed = Nobody
    /\ cpc = "read" /\ cpeer = Nobody /\ cdests = {}
    /\ upc = "read" /\ udests = {}
    /\ rpc = "wait" /\ sinceTick = 0

(***************************************************************************)
(* Upstream loop                                                           *)
(***************************************************************************)
\* A datagram from the server, or from anybody who knows the port: it is
\* forwarded anyway.
UpRead ==
    /\ upc = "read" /\ upSocket
    /\ upc' = "got"
    /\ UNCHANGED <<counts, clSocket, upSocket, hasLeg, idleAge, relayAge, fed, cpc, cpeer,
                   cdests, udests, rpc, sinceTick>>

UpStops ==
    /\ upc = "read" /\ ~upSocket
    /\ upc' = "exit"
    /\ UNCHANGED <<counts, clSocket, upSocket, hasLeg, ages, fed, cpc, cpeer, cdests,
                   udests, rpc, sinceTick>>

\* The clients of this moment; with none the datagram is dropped and does not
\* count as activity.
UpTakesDests ==
    /\ upc = "got"
    /\ udests' = clientDestsLocked
    /\ upc' = IF clientDestsLocked = {} THEN "read" ELSE "write"
    /\ UNCHANGED <<counts, clSocket, upSocket, hasLeg, ages, fed, cpc, cpeer, cdests, rpc,
                   sinceTick>>

\* One write of the loop over the clients, through the client socket.
UpWrites ==
    /\ upc = "write"
    /\ \E c \in udests : udests' = udests \ {c}
    /\ \/ clSocket /\ relayAge' = 0
       \/ UNCHANGED relayAge
    /\ UNCHANGED <<counts, clSocket, upSocket, hasLeg, idleAge, fed, cpc, cpeer,
                   cdests, upc, rpc, sinceTick>>

\* The mark forgotten.
UpMarksNothing ==
    /\ upc = "write" /\ udests = {}
    /\ upc' = "read"
    /\ UNCHANGED <<counts, clSocket, upSocket, hasLeg, ages, fed, cpc, cpeer, cdests, udests,
                   rpc, sinceTick>>

\* markUDPActivity, after the last write, whatever became of the writes.
UpMarks ==
    /\ upc = "write" /\ udests = {}
    /\ idleAge' = 0
    /\ upc' = "read"
    /\ UNCHANGED <<counts, clSocket, upSocket, hasLeg, relayAge, fed, cpc, cpeer,
                   cdests, udests, rpc, sinceTick>>

(***************************************************************************)
(* Client loop                                                             *)
(***************************************************************************)
ClientRead ==
    /\ cpc = "read" /\ clSocket
    /\ \E p \in Peers : cpeer' = p
    /\ cpc' = "got"
    /\ UNCHANGED <<counts, clSocket, upSocket, hasLeg, idleAge, relayAge, fed, cdests, upc,
                   udests, rpc, sinceTick>>

ClientStops ==
    /\ cpc = "read" /\ ~clSocket
    /\ cpc' = "exit"
    /\ UNCHANGED <<counts, clSocket, upSocket, hasLeg, ages, fed, cpeer, cdests, upc, udests,
                   rpc, sinceTick>>

\* The server wrote to the client port: for the clients only.
ServerOnClientPort ==
    /\ cpc = "got" /\ udpSplitFromServer(cpeer)
    /\ cdests' = clientDestsLocked
    /\ cpc' = IF clientDestsLocked = {} THEN "read" ELSE "toClients"
    /\ cpeer' = IF clientDestsLocked = {} THEN Nobody ELSE cpeer
    /\ UNCHANGED <<counts, clSocket, upSocket, hasLeg, ages, fed, upc, udests, rpc, sinceTick>>

ClientLoopWrites ==
    /\ cpc = "toClients"
    /\ \E c \in cdests : cdests' = cdests \ {c}
    /\ \/ clSocket /\ relayAge' = 0
       \/ UNCHANGED relayAge
    /\ UNCHANGED <<counts, clSocket, upSocket, hasLeg, idleAge, fed, cpc, cpeer,
                   upc, udests, rpc, sinceTick>>

\* The last client alone; a session counted for every datagram.
OnlyTheLast == {cpeer}
OneForEachDatagram == 1
OneMoreActive == active + 1

\* A client's datagram: its address is remembered, once, and addresses on the
\* server's IP are thrown out.
Registered == {c \in clients : ~udpSplitFromServer(c)} \cup {cpeer}

NewSessions == IF cpeer \in clients THEN 0 ELSE 1
ActiveSessions == Cardinality(Registered)

RegisterClient ==
    /\ cpc = "got" /\ ~udpSplitFromServer(cpeer)
    /\ total' = total + NewSessions
    /\ clients' = Registered
    /\ active' = ActiveSessions
    /\ cpc' = "toUpstream"
    /\ UNCHANGED <<clSocket, upSocket, hasLeg, ages, fed, cpeer, cdests, upc, udests, rpc,
                   sinceTick>>

\* ... and it is written upstream; a failed write does not count as activity.
WriteUpstream ==
    /\ cpc = "toUpstream" /\ upSocket
    /\ relayAge' = 0
    /\ fed' = cpeer
    /\ cpc' = "mark"
    /\ UNCHANGED <<counts, clSocket, upSocket, hasLeg, idleAge, cpeer, cdests, upc,
                   udests, rpc, sinceTick>>

WriteUpstreamFails ==
    /\ cpc = "toUpstream"
    /\ cpc' = "read" /\ cpeer' = Nobody
    /\ UNCHANGED <<counts, clSocket, upSocket, hasLeg, ages, fed, cdests, upc, udests, rpc,
                   sinceTick>>

\* markUDPActivity, at the end of either branch.
ClientMarks ==
    /\ cpc = "mark" \/ (cpc = "toClients" /\ cdests = {})
    /\ idleAge' = 0
    /\ cpc' = "read" /\ cpeer' = Nobody
    /\ UNCHANGED <<counts, clSocket, upSocket, hasLeg, relayAge, fed, cdests, upc,
                   udests, rpc, sinceTick>>

(***************************************************************************)
(* Reaper                                                                  *)
(***************************************************************************)
\* Timeout taken for the last age that is not idle yet.
IdleLongerThanTimeout == idleAge > Timeout

IdleLongEnough == idleAge >= Timeout

\* The ticker fires; evictIdleUDPTunnels looks at the leg, if it has one.
ReaperLooks ==
    /\ rpc = "wait" /\ sinceTick = Interval
    /\ rpc' = IF hasLeg /\ IdleLongEnough THEN "closeClient" ELSE "wait"
    /\ sinceTick' = 0
    /\ UNCHANGED <<counts, clSocket, upSocket, hasLeg, ages, fed, relay>>

\* closeUDPLeg, whose steps the relay goroutines see one by one.
CloseClientSocket ==
    /\ rpc = "closeClient"
    /\ clSocket' = FALSE /\ hasLeg' = FALSE
    /\ rpc' = "closeUpstream"
    /\ UNCHANGED <<counts, upSocket, ages, fed, relay, sinceTick>>

\* The upstream socket left open.
KeepUpstreamSocket ==
    /\ rpc = "closeUpstream"
    /\ rpc' = "reset"
    /\ UNCHANGED <<counts, clSocket, upSocket, hasLeg, ages, fed, relay, sinceTick>>

CloseUpstreamSocket ==
    /\ rpc = "closeUpstream"
    /\ upSocket' = FALSE
    /\ rpc' = "reset"
    /\ UNCHANGED <<counts, clSocket, hasLeg, ages, fed, relay, sinceTick>>

\* The counters of the closed leg: the idle clock is cleared (no age: AgeCap).
ResetLeg ==
    /\ rpc = "reset"
    /\ active' = 0
    /\ idleAge' = AgeCap
    /\ rpc' = "wait"
    /\ UNCHANGED <<clients, total, clSocket, upSocket, hasLeg, relayAge, fed, relay,
                   sinceTick>>

Older(a) == IF a < AgeCap THEN a + 1 ELSE a

Tick ==
    /\ rpc = "wait" /\ sinceTick < Interval
    /\ sinceTick' = sinceTick + 1
    /\ idleAge' = Older(idleAge)
    /\ relayAge' = Older(relayAge)
    /\ UNCHANGED <<counts, clSocket, upSocket, hasLeg, fed, relay, rpc>>

UpLoop == UpRead \/ UpStops \/ UpTakesDests \/ UpWrites \/ UpMarks
ClientLoop == \/ ClientRead \/ ClientStops \/ ServerOnClientPort \/ ClientLoopWrites
              \/ RegisterClient \/ WriteUpstream \/ WriteUpstreamFails \/ ClientMarks
Reaper == ReaperLooks \/ CloseClientSocket \/ CloseUpstreamSocket \/ ResetLeg

Next == UpLoop \/ ClientLoop \/ Reaper \/ Tick

Spec == Init /\ [][Next]_vars

\* Go schedules every runnable goroutine; a read of an open socket may block
\* for ever, a read of a closed one returns, and no other step blocks.
FairSpec == /\ Spec
            /\ WF_vars(UpStops \/ UpTakesDests \/ UpWrites \/ UpMarks)
            /\ WF_vars(ClientStops \/ ServerOnClientPort \/ ClientLoopWrites \/ RegisterClient
                         \/ WriteUpstream \/ WriteUpstreamFails \/ ClientMarks)
            /\ WF_vars(Reaper) /\ WF_vars(Tick)

(***************************************************************************)
(* Properties                                                              *)
(***************************************************************************)
\* The types of the variables.
TypeOK ==
    /\ clients \subseteq Peers /\ cdests \subseteq Peers /\ udests \subseteq Peers
    /\ active \in 0 .. Cardinality(Peers) /\ total \in Nat
    /\ clSocket \in BOOLEAN /\ upSocket \in BOOLEAN /\ hasLeg \in BOOLEAN
    /\ idleAge \in 0 .. AgeCap /\ relayAge \in 0 .. AgeCap
    /\ fed \in Peers \cup {Nobody} /\ cpeer \in Peers \cup {Nobody}
    /\ cpc \in {"read", "got", "toClients", "toUpstream", "mark", "exit"}
    /\ upc \in {"read", "got", "write", "exit"}
    /\ rpc \in {"wait", "closeClient", "closeUpstream", "reset"}
    /\ sinceTick \in 0 .. Interval

\* manager.go:1599: datagrams of the server that arrive on the client port "must
\* go to real clients only, not back upstream", and nothing of either loop, not
\* even a list of clients taken before, is ever written to the server's IP
\* through the client socket.
NoEcho == ServerPeers \cap ({fed} \cup clients \cup cdests \cup udests) = {}

\* Every client counts once among the sessions of the leg, however the loops
\* and its datagrams interleave, and is active while the leg is open.
SessionsAreClients ==
    /\ total = Cardinality(clients)
    /\ hasLeg => active = Cardinality(clients)

\* A list of clients that a loop still writes to was taken from the map: it
\* never names a client the map does not have.
WritesToKnownClients == cdests \cup udests \subseteq clients

\* A goroutine between its first successful write and its mark.
Relaying == upc = "write" \/ cpc \in {"toClients", "mark"}

\* The reaper decides to close a leg only when nothing was relayed, in either
\* direction, for Timeout, or while a goroutine is about to record that it
\* relays: a leg in use is not taken away.
ClosedOnlyWhenQuiet ==
    [][(rpc = "wait" /\ rpc' = "closeClient") => (relayAge >= Timeout \/ Relaying)]_vars

\* A leg that relays nothing does not outlive Timeout by more than one tick.
ClosedInTime == hasLeg => idleAge < Timeout + Interval

\* Once the reaper has closed the leg, both goroutines end: neither is left
\* blocked on a socket.
GoroutinesEnd == ~hasLeg ~> (cpc = "exit" /\ upc = "exit")
=============================================================================
