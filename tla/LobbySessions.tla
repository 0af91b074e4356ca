--------------------------- MODULE LobbySessions ---------------------------
(***************************************************************************)
(* The TCP sessions of all tunnels as the announcements see them: the map  *)
(* of registered sessions, the broadcast of the announce handler            *)
(* (src/internal/tunnels/tcp_broadcast.go), and the delayed welcome of a    *)
(* session that has entered the lobby (welcome.go).                         *)
(*                                                                          *)
(* TcpRelay has the life of one session; here it is registered, loses its   *)
(* client and ends.  Frames put in a session's inject channel are kept as    *)
(* sets: their order is TcpRelay's.                                         *)
(***************************************************************************)
EXTENDS Naturals, FiniteSets

CONSTANTS
    Tunnels,             \* tunnels with a TCP listener, by local port
    AllTunnels,          \* tunnelPort 0 of a request
    Peers,               \* addresses of clients
    Sessions,            \* bound: connections ever accepted
    Requests,            \* bound: announce requests ever made
    tcpInjectQueueSize,  \* capacity of an inject channel
    NoSession            \* nil

ASSUME NamesAssumption == AllTunnels \notin Tunnels /\ NoSession \notin Sessions
ASSUME QueueAssumption == tcpInjectQueueSize \in Nat
ASSUME SetsAssumption == IsFiniteSet(Sessions) /\ Tunnels # {} /\ Peers # {}

VARIABLES
    port,         \* the tunnel each session is a connection of
    peer,         \* identity.Peer of each session
    client,       \* "new", "open" or "gone": the client's end of its connection
    tcpClients,   \* the registered sessions
    welcomeSent,  \* the flag of each session
    inject,       \* the frames waiting in each session's channel
    taken,        \* the frames drained from it, written or lost
    timers,       \* the goroutines of deliverWelcomeAnnounceDelayed, by the session that started them
    found,        \* the session each of them has found
    cast,         \* control state of each request's broadcast
    castTo,       \* the tunnels it still has to visit
    castList,     \* the sessions of the tunnel it is at, not yet served
    stats         \* its AnnounceStats: queued, queueFull, tcpSessions

conns == <<port, peer, client, tcpClients>>
welcome == <<welcomeSent, timers, found>>
broadcast == <<cast, castTo, castList, stats>>
frames == <<inject, taken>>
vars == <<conns, welcome, broadcast, frames>>

NoStats == [queued |-> 0, queueFull |-> 0, tcpSessions |-> 0]
AnyTunnel == CHOOSE t \in Tunnels : TRUE
AnyPeer == CHOOSE p \in Peers : TRUE

Init ==
    /\ port = [s \in Sessions |-> AnyTunnel]
    /\ peer = [s \in Sessions |-> AnyPeer]
    /\ client = [s \in Sessions |-> "new"]
    /\ tcpClients = {}
    /\ welcomeSent = [s \in Sessions |-> FALSE]
    /\ inject = [s \in Sessions |-> {}]
    /\ taken = [s \in Sessions |-> {}]
    /\ timers = {} /\ found = [s \in Sessions |-> NoSession]
    /\ cast = [q \in Requests |-> "new"]
    /\ castTo = [q \in Requests |-> {}] /\ castList = [q \in Requests |-> {}]
    /\ stats = [q \in Requests |-> NoStats]

(***************************************************************************)
(* Sessions                                                                *)
(***************************************************************************)
\* A connection is accepted, and its session registered with the identity of
\* its peer.  No two open connections to a port have the same peer address; a
\* connection whose client is gone does not hold the address any more.
Connect(s, t, p) ==
    /\ client[s] = "new"
    /\ \A r \in Sessions : ~(client[r] = "open" /\ port[r] = t /\ peer[r] = p)
    /\ client' = [client EXCEPT ![s] = "open"]
    /\ port' = [port EXCEPT ![s] = t]
    /\ peer' = [peer EXCEPT ![s] = p]
    /\ tcpClients' = tcpClients \cup {s}
    /\ UNCHANGED <<welcome, broadcast, frames>>

\* The session stays registered while its upstream connection lasts.
ClientLeaves(s) ==
    /\ client[s] = "open"
    /\ client' = [client EXCEPT ![s] = "gone"]
    /\ UNCHANGED <<port, peer, tcpClients, welcome, broadcast, frames>>

unregisterTCPClient(s) ==
    /\ s \in tcpClients
    /\ client' = [client EXCEPT ![s] = "gone"]
    /\ tcpClients' = tcpClients \ {s}
    /\ UNCHANGED <<port, peer, welcome, broadcast, frames>>

\* One frame of drainInjectedFrames.
Drain(s) ==
    /\ s \in tcpClients
    /\ \E x \in inject[s] : /\ inject' = [inject EXCEPT ![s] = @ \ {x}]
                            /\ taken' = [taken EXCEPT ![s] = @ \cup {x}]
    /\ UNCHANGED <<conns, welcome, broadcast>>

HasRoom(s) == Cardinality(inject[s]) < tcpInjectQueueSize

\* The select of the senders: a full channel refuses the frame.
Offer(s, x) == inject' = IF HasRoom(s) THEN [inject EXCEPT ![s] = @ \cup {x}] ELSE inject

(***************************************************************************)
(* Welcome                                                                 *)
(***************************************************************************)
\* maybeSendWelcomeAnnounce, for a lobby character info of the server.
tryMarkWelcomeSent(s) == /\ ~welcomeSent[s]
                         /\ welcomeSent' = [welcomeSent EXCEPT ![s] = TRUE]

EnterLobby(s) ==
    /\ s \in tcpClients
    /\ tryMarkWelcomeSent(s)
    /\ timers' = timers \cup {s}
    /\ UNCHANGED <<found, conns, broadcast, frames>>

\* Lookups that compare half of the address.
SamePeerAnyPort(s) == {r \in tcpClients : peer[r] = peer[s]}
SamePeerAnyPeer(s) == {r \in tcpClients : port[r] = port[s]}

\* Which sessions answer to the address the timer remembers.
SamePeer(s) == {r \in tcpClients : port[r] = port[s] /\ peer[r] = peer[s]}

\* After the delay: findTCPClientSessionByPeer, under the locks.
WelcomeFinds(s) ==
    /\ s \in timers /\ found[s] = NoSession
    /\ \E r \in SamePeer(s) : found' = [found EXCEPT ![s] = r]
    /\ UNCHANGED <<welcomeSent, timers, conns, broadcast, frames>>

WelcomeSkipped(s) ==
    /\ s \in timers /\ found[s] = NoSession
    /\ SamePeer(s) = {}
    /\ timers' = timers \ {s}
    /\ UNCHANGED <<welcomeSent, found, conns, broadcast, frames>>

\* queueAnnounceToSession, outside the locks: the session may have ended.
WelcomeQueued(s) ==
    /\ s \in timers /\ found[s] # NoSession
    /\ Offer(found[s], <<"welcome", s>>)
    /\ timers' = timers \ {s}
    /\ found' = [found EXCEPT ![s] = NoSession]
    /\ UNCHANGED <<welcomeSent, conns, broadcast, taken>>

(***************************************************************************)
(* Broadcast                                                               *)
(***************************************************************************)
\* Zero taken for a port.
TargetsAsGiven(target) == {target}

Targets(target) == IF target = AllTunnels THEN Tunnels ELSE {target}

\* BroadcastAnnounce, under the manager's read lock, which other requests hold
\* too: one tunnel or all.
BroadcastAnnounce(q) ==
    /\ cast[q] = "new"
    /\ \E target \in Tunnels \cup {AllTunnels} :
          castTo' = [castTo EXCEPT ![q] = Targets(target)]
    /\ cast' = [cast EXCEPT ![q] = "tunnels"]
    /\ UNCHANGED <<castList, stats, conns, welcome, frames>>

\* broadcastAnnounce copies the sessions of the tunnel under tcpClientsMu.
VisitTunnel(q) ==
    /\ cast[q] = "tunnels"
    /\ \E t \in castTo[q] :
          LET list == {s \in tcpClients : port[s] = t} IN
          /\ castTo' = [castTo EXCEPT ![q] = @ \ {t}]
          /\ castList' = [castList EXCEPT ![q] = list]
          /\ stats' = [stats EXCEPT ![q].tcpSessions = @ + Cardinality(list)]
    /\ cast' = [cast EXCEPT ![q] = "sessions"]
    /\ UNCHANGED <<conns, welcome, frames>>

\* The refused frame counted as queued.
CountedAlways(q, s) == [stats EXCEPT ![q].queued = @ + 1]

\* ... and then offers the frame to each, without the lock.
Counted(q, s) == IF HasRoom(s) THEN [stats EXCEPT ![q].queued = @ + 1]
                               ELSE [stats EXCEPT ![q].queueFull = @ + 1]

ServeSession(q) ==
    /\ cast[q] = "sessions"
    /\ \E s \in castList[q] : /\ Offer(s, <<"announce", q>>)
                              /\ stats' = Counted(q, s)
                              /\ castList' = [castList EXCEPT ![q] = @ \ {s}]
    /\ UNCHANGED <<cast, castTo, conns, welcome, taken>>

TunnelServed(q) ==
    /\ cast[q] = "sessions" /\ castList[q] = {}
    /\ cast' = [cast EXCEPT ![q] = IF castTo[q] = {} THEN "done" ELSE "tunnels"]
    /\ UNCHANGED <<castTo, castList, stats, conns, welcome, frames>>

Next ==
    \/ \E s \in Sessions, t \in Tunnels, p \in Peers : Connect(s, t, p)
    \/ \E s \in Sessions : \/ ClientLeaves(s) \/ unregisterTCPClient(s) \/ Drain(s)
                           \/ EnterLobby(s)
                           \/ WelcomeFinds(s) \/ WelcomeSkipped(s) \/ WelcomeQueued(s)
    \/ \E q \in Requests : \/ BroadcastAnnounce(q) \/ VisitTunnel(q)
                           \/ ServeSession(q) \/ TunnelServed(q)

Spec == Init /\ [][Next]_vars

\* The handlers' goroutines and the timers' run to their ends.
FairSpec ==
    /\ Spec
    /\ \A q \in Requests : WF_vars(VisitTunnel(q) \/ ServeSession(q) \/ TunnelServed(q))
    /\ \A s \in Sessions : WF_vars(WelcomeFinds(s) \/ WelcomeSkipped(s) \/ WelcomeQueued(s))

(***************************************************************************)
(* Properties                                                              *)
(***************************************************************************)
Frames == ({"welcome"} \X Sessions) \cup ({"announce"} \X Requests)

\* The types of the variables.
TypeOK ==
    /\ port \in [Sessions -> Tunnels] /\ peer \in [Sessions -> Peers]
    /\ client \in [Sessions -> {"new", "open", "gone"}]
    /\ tcpClients \subseteq Sessions
    /\ welcomeSent \in [Sessions -> BOOLEAN]
    /\ inject \in [Sessions -> SUBSET Frames] /\ taken \in [Sessions -> SUBSET Frames]
    /\ timers \subseteq Sessions /\ found \in [Sessions -> Sessions \cup {NoSession}]
    /\ cast \in [Requests -> {"new", "tunnels", "sessions", "done"}]
    /\ castTo \in [Requests -> SUBSET Tunnels] /\ castList \in [Requests -> SUBSET Sessions]
    /\ stats \in [Requests -> [queued : Nat, queueFull : Nat, tcpSessions : Nat]]

\* What a session was ever given.
Given(s) == inject[s] \cup taken[s]
Welcomes(s) == {x \in Given(s) : x[1] = "welcome"}

\* The count a handler answers with is the number of sessions whose channel
\* took the frame (README.md:84), and every session listed is accounted for,
\* though sessions come, end and drain their channels in between and
\* other requests and welcomes fill them.
CountsAreTrue ==
    \A q \in Requests : cast[q] = "done" =>
        /\ stats[q].queued = Cardinality({s \in Sessions : <<"announce", q>> \in Given(s)})
        /\ stats[q].queued + stats[q].queueFull = stats[q].tcpSessions

\* A welcome reaches only connections from the address, to the port, of a
\* session that entered the lobby, and no more of them than sessions of that
\* address that did.
WelcomesAreEarned ==
    \A s \in Sessions :
        /\ \A x \in Welcomes(s) : /\ welcomeSent[x[2]]
                                  /\ peer[x[2]] = peer[s] /\ port[x[2]] = port[s]
        /\ \A r \in Sessions \ {s} : Welcomes(r) \cap Welcomes(s) = {}

OneSessionAnAddress ==
    \A r, s \in tcpClients : r # s => port[r] # port[s] \/ peer[r] # peer[s]

\* As long as no two sessions of an address overlap, a session that enters the
\* lobby and is not unregistered is welcomed, unless its channel is full: the
\* address the timer remembers leads it back to that session.
WelcomeArrives ==
    []OneSessionAnAddress =>
        \A s \in Sessions :
            s \in timers ~> \/ s \notin tcpClients
                            \/ <<"welcome", s>> \in Given(s)
                            \/ ~HasRoom(s)

\* welcome.go:124 logs "welcome announce skipped: session disconnected" when the
\* delay is over and the session is not there: no session is given the welcome
\* of another.
WelcomeIsItsOwn == \A s \in Sessions : \A x \in Welcomes(s) : x[2] = s
=============================================================================
