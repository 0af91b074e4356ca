------------------------ MODULE LobbySessionsProofs ------------------------
(***************************************************************************)
(* Theorems about LobbySessions, for every set of tunnels, addresses,       *)
(* sessions and requests and every channel capacity.  Two invariants are    *)
(* carried besides the types: what a broadcast has counted, and where the   *)
(* welcomes have gone.  Both rest on the address of a session being fixed   *)
(* once it is accepted, whether or not it is still registered.              *)
(***************************************************************************)
EXTENDS LobbySessions, FiniteSetTheorems, TLAPS

\* The types, by kind.
ConnTypes ==
    /\ port \in [Sessions -> Tunnels] /\ peer \in [Sessions -> Peers]
    /\ client \in [Sessions -> {"new", "open", "gone"}]
    /\ tcpClients \subseteq Sessions

WelcomeTypes ==
    /\ welcomeSent \in [Sessions -> BOOLEAN]
    /\ timers \subseteq Sessions /\ found \in [Sessions -> Sessions \cup {NoSession}]

FrameTypes == inject \in [Sessions -> SUBSET Frames] /\ taken \in [Sessions -> SUBSET Frames]

CastTypes ==
    /\ cast \in [Requests -> {"new", "tunnels", "sessions", "done"}]
    /\ castTo \in [Requests -> SUBSET Tunnels] /\ castList \in [Requests -> SUBSET Sessions]
    /\ stats \in [Requests -> [queued : Nat, queueFull : Nat, tcpSessions : Nat]]

Types == ConnTypes /\ WelcomeTypes /\ FrameTypes /\ CastTypes

\* A registered session has been accepted.
RegisteredWereAccepted == \A s \in tcpClients : client[s] # "new"

Announced(q) == {s \in Sessions : <<"announce", q>> \in Given(s)}

\* A broadcast has counted the sessions it served; those it has served or
\* listed are of tunnels it will not visit again, and the two are disjoint.
CountedSoFar(q) ==
    /\ stats[q].queued = Cardinality(Announced(q))
    /\ stats[q].queued + stats[q].queueFull + Cardinality(castList[q]) = stats[q].tcpSessions
    /\ castList[q] \cap Announced(q) = {}
    /\ \A s \in castList[q] \cup Announced(q) : port[s] \notin castTo[q] /\ client[s] # "new"
    /\ cast[q] # "sessions" => castList[q] = {}
    /\ cast[q] = "new" => Announced(q) = {}

SameAddress(r, s) == port[r] = port[s] /\ peer[r] = peer[s]

\* A welcome is in one place at a time: with its timer, or at one session; the
\* session found and the one welcomed have the address of the one that entered.
WelcomesTracked ==
    /\ \A r, s \in Sessions : <<"welcome", r>> \in Given(s) =>
          /\ welcomeSent[r] /\ SameAddress(r, s)
          /\ client[r] # "new" /\ client[s] # "new"
          /\ r \notin timers
          /\ \A t \in Sessions : <<"welcome", r>> \in Given(t) => t = s
    /\ \A r \in timers : welcomeSent[r] /\ client[r] # "new"
    /\ \A r \in Sessions : found[r] # NoSession =>
          client[r] # "new" /\ client[found[r]] # "new" /\ SameAddress(r, found[r])

\* CountsAreTrue speaks of broadcasts that are done, WelcomesAreEarned of
\* welcomes delivered; the invariant also says where the others stand.
IInv == Types /\ RegisteredWereAccepted
              /\ (\A q \in Requests : CountedSoFar(q)) /\ WelcomesTracked

-----------------------------------------------------------------------------
\* Some tunnel and some address exist.
LEMMA AnyTunnelAndPeer == AnyTunnel \in Tunnels /\ AnyPeer \in Peers
BY SetsAssumption DEF AnyTunnel, AnyPeer

\* The initial state satisfies the invariant.
LEMMA InitIInv == Init => IInv
<1> SUFFICES ASSUME Init PROVE IInv
    OBVIOUS
<1>1. Types
    <2>1. ConnTypes
        BY AnyTunnelAndPeer DEF Init, ConnTypes
    <2>2. WelcomeTypes
        BY DEF Init, WelcomeTypes
    <2>3. FrameTypes
        BY DEF Init, FrameTypes
    <2>4. NoStats \in [queued : Nat, queueFull : Nat, tcpSessions : Nat]
        BY DEF NoStats
    <2>5. CastTypes
        BY <2>4 DEF Init, CastTypes
    <2> QED
        BY <2>1, <2>2, <2>3, <2>5 DEF Types
<1>2. RegisteredWereAccepted
    BY FS_EmptySet, QueueAssumption DEF Init, RegisteredWereAccepted
<1>3. \A s \in Sessions : Given(s) = {}
    BY DEF Init, Given
<1>4. ASSUME NEW q \in Requests PROVE CountedSoFar(q)
    <2>1. Announced(q) = {}
        BY <1>3 DEF Announced
    <2>2. castList[q] = {} /\ stats[q] = NoStats /\ cast[q] = "new"
        BY DEF Init
    <2> QED
        BY <2>1, <2>2, FS_EmptySet DEF CountedSoFar, NoStats
<1>5. WelcomesTracked
    BY <1>3 DEF Init, WelcomesTracked
<1> QED
    BY <1>1, <1>2, <1>4, <1>5 DEF IInv

-----------------------------------------------------------------------------
\* What each step is, with its actor named.
LEMMA Steps ==
    ASSUME [Next]_vars
    PROVE  \/ \E s \in Sessions, t \in Tunnels, p \in Peers : Connect(s, t, p)
           \/ \E s \in Sessions : ClientLeaves(s) \/ unregisterTCPClient(s)
           \/ \E s \in Sessions : Drain(s)
           \/ \E s \in Sessions : EnterLobby(s) \/ WelcomeFinds(s) \/ WelcomeSkipped(s)
           \/ \E s \in Sessions : WelcomeQueued(s)
           \/ \E q \in Requests : BroadcastAnnounce(q) \/ VisitTunnel(q) \/ TunnelServed(q)
           \/ \E q \in Requests : ServeSession(q)
           \/ UNCHANGED vars
BY DEF Next

\* Only connections change what a session is.
ConnStep ==
    \/ UNCHANGED conns
    \/ \E s \in Sessions, t \in Tunnels, p \in Peers : Connect(s, t, p)
    \/ \E s \in Sessions : ClientLeaves(s) \/ unregisterTCPClient(s)

LEMMA ConnSteps == [Next]_vars => ConnStep
<1> SUFFICES ASSUME [Next]_vars PROVE ConnStep
    OBVIOUS
<1> QED
    BY Steps DEF ConnStep, conns, Drain, EnterLobby, WelcomeFinds, WelcomeSkipped, WelcomeQueued,
                 BroadcastAnnounce, VisitTunnel, TunnelServed, ServeSession, vars

\* Frames are given by the two senders; draining a frame keeps it given.
FrameStep ==
    \/ UNCHANGED frames
    \/ \E s \in Sessions : Drain(s)
    \/ \E s \in Sessions : WelcomeQueued(s)
    \/ \E q \in Requests : ServeSession(q)

LEMMA FrameSteps == [Next]_vars => FrameStep
<1> SUFFICES ASSUME [Next]_vars PROVE FrameStep
    OBVIOUS
<1> QED
    BY Steps DEF FrameStep, frames, Connect, ClientLeaves, unregisterTCPClient, EnterLobby, WelcomeFinds,
                 WelcomeSkipped, BroadcastAnnounce, VisitTunnel, TunnelServed, vars

\* The types of the connections are kept.
LEMMA ConnTypesStep == ConnTypes /\ [Next]_vars => ConnTypes'
<1> SUFFICES ASSUME ConnTypes, ConnStep PROVE ConnTypes'
    BY ConnSteps
<1> QED
    BY DEF ConnTypes, ConnStep, conns, Connect, ClientLeaves, unregisterTCPClient

\* An accepted session keeps its address; a registered one has been accepted.
LEMMA AddressesFixed ==
    ASSUME ConnTypes, RegisteredWereAccepted, [Next]_vars
    PROVE  /\ RegisteredWereAccepted'
           /\ \A s \in Sessions : client[s] # "new" =>
                 client'[s] # "new" /\ port'[s] = port[s] /\ peer'[s] = peer[s]
<1>1. ConnStep
    BY ConnSteps
<1>2. CASE UNCHANGED conns
    BY <1>2 DEF conns, RegisteredWereAccepted
<1>3. CASE \E s \in Sessions, t \in Tunnels, p \in Peers : Connect(s, t, p)
    BY <1>3 DEF Connect, ConnTypes, RegisteredWereAccepted
<1>4. CASE \E s \in Sessions : ClientLeaves(s) \/ unregisterTCPClient(s)
    BY <1>4 DEF ClientLeaves, unregisterTCPClient, ConnTypes, RegisteredWereAccepted
<1> QED
    BY <1>1, <1>2, <1>3, <1>4 DEF ConnStep

-----------------------------------------------------------------------------
\* A sender's select gives one session one frame if there is room, and none if
\* there is not.
LEMMA Offered ==
    ASSUME FrameTypes,
           NEW s \in Sessions, NEW x \in Frames, Offer(s, x), UNCHANGED taken
    PROVE  /\ FrameTypes'
           /\ \A r \in Sessions : Given(r)' = IF r = s /\ HasRoom(s) THEN Given(r) \cup {x} ELSE Given(r)
<1>1. CASE ~HasRoom(s)
    BY <1>1 DEF Offer, FrameTypes, Given
<1>2. CASE HasRoom(s)
    <2>1. inject' = [inject EXCEPT ![s] = @ \cup {x}]
        BY <1>2 DEF Offer
    <2>2. FrameTypes'
        BY <2>1 DEF FrameTypes
    <2>3. \A r \in Sessions : inject'[r] = IF r = s THEN inject[s] \cup {x} ELSE inject[r]
        BY <2>1 DEF FrameTypes
    <2>4. \A r \in Sessions : Given(r)' = IF r = s THEN Given(r) \cup {x} ELSE Given(r)
        BY <2>3 DEF Given
    <2> QED
        BY <1>2, <2>2, <2>4
<1> QED
    BY <1>1, <1>2

\* Draining a frame gives nothing and takes nothing back.
LEMMA Drained ==
    ASSUME FrameTypes, NEW s \in Sessions, Drain(s)
    PROVE  /\ FrameTypes'
           /\ \A r \in Sessions : Given(r)' = Given(r)
<1>1. PICK x \in inject[s] : /\ inject' = [inject EXCEPT ![s] = @ \ {x}]
                             /\ taken' = [taken EXCEPT ![s] = @ \cup {x}]
    BY DEF Drain
<1>2. x \in Frames
    BY DEF FrameTypes
<1>3. FrameTypes'
    BY <1>1, <1>2 DEF FrameTypes
<1>4. \A r \in Sessions : /\ inject'[r] = IF r = s THEN inject[r] \ {x} ELSE inject[r]
                          /\ taken'[r] = IF r = s THEN taken[r] \cup {x} ELSE taken[r]
    BY <1>1 DEF FrameTypes
<1>5. \A r \in Sessions : Given(r)' = Given(r)
    BY <1>4 DEF Given
<1> QED
    BY <1>3, <1>5

\* What a welcome and a broadcast put in a channel are frames.
LEMMA FramesOffered ==
    /\ \A s \in Sessions : <<"welcome", s>> \in Frames
    /\ \A q \in Requests : <<"announce", q>> \in Frames
BY DEF Frames

\* A timer that has found a session offers its welcome to that session.
LEMMA WelcomeOffered ==
    ASSUME Types, NEW s \in Sessions, WelcomeQueued(s)
    PROVE  /\ found[s] \in Sessions
           /\ FrameTypes'
           /\ \A r \in Sessions : Given(r)' = IF r = found[s] /\ HasRoom(found[s])
                                              THEN Given(r) \cup {<<"welcome", s>>} ELSE Given(r)
<1>1. found[s] \in Sessions
    BY DEF WelcomeQueued, Types, WelcomeTypes
<1>2. Offer(found[s], <<"welcome", s>>) /\ UNCHANGED taken
    BY DEF WelcomeQueued
<1> QED
    BY <1>1, <1>2, Offered, FramesOffered DEF Types

\* A broadcast offers its frame to one of the sessions it lists.
LEMMA AnnounceOffered ==
    ASSUME Types, NEW q \in Requests, ServeSession(q)
    PROVE  /\ FrameTypes'
           /\ \E s \in castList[q] :
                 /\ s \in Sessions
                 /\ stats' = Counted(q, s) /\ castList' = [castList EXCEPT ![q] = @ \ {s}]
                 /\ \A r \in Sessions : Given(r)' = IF r = s /\ HasRoom(s)
                                                    THEN Given(r) \cup {<<"announce", q>>} ELSE Given(r)
<1>1. PICK s \in castList[q] : /\ Offer(s, <<"announce", q>>) /\ stats' = Counted(q, s)
                               /\ castList' = [castList EXCEPT ![q] = @ \ {s}]
    BY DEF ServeSession
<1>2. s \in Sessions /\ UNCHANGED taken
    BY DEF ServeSession, Types, CastTypes
<1> QED
    BY <1>1, <1>2, Offered, FramesOffered DEF Types

\* The channels keep their types, whatever the step.
LEMMA ChannelsStep ==
    ASSUME Types, [Next]_vars
    PROVE  FrameTypes'
<1>1. CASE UNCHANGED frames
    BY <1>1 DEF frames, Types, FrameTypes
<1>2. ASSUME NEW s \in Sessions, Drain(s) PROVE FrameTypes'
    BY <1>2, Drained DEF Types
<1>3. ASSUME NEW s \in Sessions, WelcomeQueued(s) PROVE FrameTypes'
    BY <1>3, WelcomeOffered
<1>4. ASSUME NEW q \in Requests, ServeSession(q) PROVE FrameTypes'
    BY <1>4, AnnounceOffered
<1> QED
    BY <1>1, <1>2, <1>3, <1>4, FrameSteps DEF FrameStep

\* The types of the welcome's state are kept.
LEMMA WelcomeTypesStep == Types /\ [Next]_vars => WelcomeTypes'
<1> SUFFICES ASSUME WelcomeTypes, ConnTypes, [Next]_vars PROVE WelcomeTypes'
    BY DEF Types
<1>1. CASE UNCHANGED welcome
    BY <1>1 DEF welcome, WelcomeTypes
<1>2. CASE \E s \in Sessions : EnterLobby(s) \/ WelcomeSkipped(s) \/ WelcomeQueued(s)
    BY <1>2 DEF EnterLobby, tryMarkWelcomeSent, WelcomeSkipped, WelcomeQueued, WelcomeTypes
<1>3. CASE \E s \in Sessions : WelcomeFinds(s)
    BY <1>3 DEF WelcomeFinds, SamePeer, WelcomeTypes, ConnTypes
<1> QED
    BY <1>1, <1>2, <1>3, Steps DEF welcome, Connect, ClientLeaves, unregisterTCPClient, Drain,
        BroadcastAnnounce, VisitTunnel, TunnelServed, ServeSession, vars

\* The counts of a broadcast stay numbers: the sessions it lists are finitely
\* many.
LEMMA CastTypesStep == Types /\ [Next]_vars => CastTypes'
<1> SUFFICES ASSUME CastTypes, ConnTypes, [Next]_vars PROVE CastTypes'
    BY DEF Types
<1>1. CASE UNCHANGED broadcast
    BY <1>1 DEF broadcast, CastTypes
<1>2. ASSUME NEW q \in Requests, BroadcastAnnounce(q) PROVE CastTypes'
    <2>1. \A target \in Tunnels \cup {AllTunnels} : Targets(target) \in SUBSET Tunnels
        BY DEF Targets
    <2> QED
        BY <1>2, <2>1 DEF BroadcastAnnounce, CastTypes
<1>3. ASSUME NEW q \in Requests, TunnelServed(q) PROVE CastTypes'
    BY <1>3 DEF TunnelServed, CastTypes
<1>4. ASSUME NEW q \in Requests, VisitTunnel(q) PROVE CastTypes'
    <2>1. PICK t \in castTo[q] : LET list == {s \in tcpClients : port[s] = t} IN
              /\ castTo' = [castTo EXCEPT ![q] = @ \ {t}]
              /\ castList' = [castList EXCEPT ![q] = list]
              /\ stats' = [stats EXCEPT ![q].tcpSessions = @ + Cardinality(list)]
        BY <1>4 DEF VisitTunnel
    <2> DEFINE list == {s \in tcpClients : port[s] = t}
    <2>2. list \in SUBSET Sessions /\ Cardinality(list) \in Nat
        BY FS_Subset, FS_CardinalityType, SetsAssumption DEF ConnTypes
    <2>3. cast' = [cast EXCEPT ![q] = "sessions"]
        BY <1>4 DEF VisitTunnel
    <2> HIDE DEF list
    <2>4. stats' \in [Requests -> [queued : Nat, queueFull : Nat, tcpSessions : Nat]]
        BY <2>1, <2>2 DEF CastTypes, list
    <2>5. castTo' \in [Requests -> SUBSET Tunnels] /\ castList' \in [Requests -> SUBSET Sessions]
        BY <2>1, <2>2 DEF CastTypes, list
    <2> QED
        BY <2>3, <2>4, <2>5 DEF CastTypes
<1>5. ASSUME NEW q \in Requests, ServeSession(q) PROVE CastTypes'
    <2>1. PICK s \in castList[q] : stats' = Counted(q, s) /\ castList' = [castList EXCEPT ![q] = @ \ {s}]
        BY <1>5 DEF ServeSession
    <2>2. stats' \in [Requests -> [queued : Nat, queueFull : Nat, tcpSessions : Nat]]
        BY <2>1 DEF Counted, CastTypes
    <2> QED
        BY <1>5, <2>1, <2>2 DEF ServeSession, CastTypes
<1> QED
    BY <1>1, <1>2, <1>3, <1>4, <1>5, Steps DEF broadcast, Connect, ClientLeaves, unregisterTCPClient, Drain,
        EnterLobby, WelcomeFinds, WelcomeSkipped, WelcomeQueued, vars

-----------------------------------------------------------------------------
\* The sessions a broadcast has reached change only when it serves one.
LEMMA AnnouncedKept ==
    ASSUME Types, [Next]_vars, NEW q \in Requests, ~ServeSession(q)
    PROVE  Announced(q)' = Announced(q)
<1>1. SUFFICES \A s \in Sessions : <<"announce", q>> \in Given(s)' <=> <<"announce", q>> \in Given(s)
    BY DEF Announced
<1>2. CASE UNCHANGED frames
    BY <1>2 DEF frames, Given
<1>3. CASE \E s \in Sessions : Drain(s)
    BY <1>3, Drained DEF Types
<1>4. ASSUME NEW s \in Sessions, WelcomeQueued(s)
      PROVE  \A r \in Sessions : <<"announce", q>> \in Given(r)' <=> <<"announce", q>> \in Given(r)
    <2>1. <<"announce", q>> # <<"welcome", s>>
        OBVIOUS
    <2> QED
        BY <1>4, <2>1, WelcomeOffered
<1>5. ASSUME NEW p \in Requests, ServeSession(p)
      PROVE  \A r \in Sessions : <<"announce", q>> \in Given(r)' <=> <<"announce", q>> \in Given(r)
    <2>1. p # q
        BY <1>5
    <2>2. <<"announce", q>> # <<"announce", p>>
        BY <2>1
    <2> QED
        BY <1>5, <2>2, AnnounceOffered
<1> QED
    BY <1>2, <1>3, <1>4, <1>5, FrameSteps DEF FrameStep

\* Each broadcast changes its own state only.
LEMMA CastStep ==
    ASSUME CastTypes, [Next]_vars, NEW q \in Requests
    PROVE  \/ cast'[q] = cast[q] /\ castTo'[q] = castTo[q] /\ castList'[q] = castList[q] /\ stats'[q] = stats[q]
           \/ BroadcastAnnounce(q) \/ VisitTunnel(q) \/ TunnelServed(q) \/ ServeSession(q)
<1>1. CASE UNCHANGED broadcast
    BY <1>1 DEF broadcast
<1>2. ASSUME NEW p \in Requests, p # q, BroadcastAnnounce(p) \/ TunnelServed(p)
      PROVE  cast'[q] = cast[q] /\ castTo'[q] = castTo[q] /\ castList'[q] = castList[q] /\ stats'[q] = stats[q]
    BY <1>2 DEF BroadcastAnnounce, TunnelServed, CastTypes
<1>3. ASSUME NEW p \in Requests, p # q, VisitTunnel(p)
      PROVE  cast'[q] = cast[q] /\ castTo'[q] = castTo[q] /\ castList'[q] = castList[q] /\ stats'[q] = stats[q]
    BY <1>3 DEF VisitTunnel, CastTypes
<1>4. ASSUME NEW p \in Requests, p # q, ServeSession(p)
      PROVE  cast'[q] = cast[q] /\ castTo'[q] = castTo[q] /\ castList'[q] = castList[q] /\ stats'[q] = stats[q]
    BY <1>4 DEF ServeSession, Counted, CastTypes
<1> QED
    BY <1>1, <1>2, <1>3, <1>4, Steps DEF broadcast, Connect, ClientLeaves, unregisterTCPClient, Drain,
        EnterLobby, WelcomeFinds, WelcomeSkipped, WelcomeQueued, vars

\* What a broadcast has counted stays true, whoever steps.
LEMMA CountedStep ==
    ASSUME IInv, [Next]_vars, NEW q \in Requests
    PROVE  CountedSoFar(q)'
<1>0. Types /\ RegisteredWereAccepted /\ CountedSoFar(q)
    BY DEF IInv
<1>1. CastTypes /\ ConnTypes
    BY <1>0 DEF Types
<1>2. \A s \in Sessions : client[s] # "new" => client'[s] # "new" /\ port'[s] = port[s]
    BY <1>0, <1>1, AddressesFixed
<1>3. castList[q] \subseteq Sessions /\ Announced(q) \subseteq Sessions
    BY <1>1 DEF CastTypes, Announced
<1>4. /\ Announced(q) \in SUBSET Sessions /\ IsFiniteSet(Announced(q)) /\ Cardinality(Announced(q)) \in Nat
      /\ IsFiniteSet(castList[q]) /\ Cardinality(castList[q]) \in Nat
      /\ stats[q].queued \in Nat /\ stats[q].queueFull \in Nat /\ stats[q].tcpSessions \in Nat
    BY <1>1, <1>3, FS_Subset, FS_CardinalityType, SetsAssumption DEF CastTypes
<1>5. CASE /\ cast'[q] = cast[q] /\ castTo'[q] = castTo[q] /\ castList'[q] = castList[q] /\ stats'[q] = stats[q]
           /\ ~ServeSession(q)
    <2>1. Announced(q)' = Announced(q)
        BY <1>0, <1>5, AnnouncedKept
    <2> QED
        BY <1>0, <1>2, <1>3, <1>5, <2>1 DEF CountedSoFar
<1>6. CASE BroadcastAnnounce(q)
    <2>1. Announced(q)' = Announced(q)
        BY <1>0, <1>6, AnnouncedKept DEF BroadcastAnnounce, ServeSession
    <2>2. cast[q] = "new" /\ cast'[q] = "tunnels" /\ castList' = castList /\ stats' = stats
        BY <1>1, <1>6 DEF BroadcastAnnounce, CastTypes
    <2> QED
        BY <1>0, <2>1, <2>2 DEF CountedSoFar
<1>7. CASE TunnelServed(q)
    <2>1. Announced(q)' = Announced(q)
        BY <1>0, <1>7, AnnouncedKept DEF TunnelServed, ServeSession, frames, Announced, Given
    <2>2. castList[q] = {} /\ castList' = castList /\ stats' = stats /\ castTo' = castTo /\ cast'[q] # "new"
        BY <1>1, <1>7 DEF TunnelServed, CastTypes
    <2> QED
        BY <1>0, <1>2, <1>3, <2>1, <2>2 DEF CountedSoFar
<1>8. CASE VisitTunnel(q)
    <2>1. Announced(q)' = Announced(q)
        BY <1>0, <1>8, AnnouncedKept DEF VisitTunnel, ServeSession
    <2>2. cast[q] = "tunnels" /\ cast'[q] = "sessions" /\ UNCHANGED conns
        BY <1>1, <1>8 DEF VisitTunnel, CastTypes
    <2>3. PICK t \in castTo[q] : LET list == {s \in tcpClients : port[s] = t} IN
              /\ castTo' = [castTo EXCEPT ![q] = @ \ {t}]
              /\ castList' = [castList EXCEPT ![q] = list]
              /\ stats' = [stats EXCEPT ![q].tcpSessions = @ + Cardinality(list)]
        BY <1>8 DEF VisitTunnel
    <2> DEFINE list == {s \in tcpClients : port[s] = t}
    <2>4. /\ castTo'[q] = castTo[q] \ {t} /\ castList'[q] = list
          /\ stats'[q].queued = stats[q].queued /\ stats'[q].queueFull = stats[q].queueFull
          /\ stats'[q].tcpSessions = stats[q].tcpSessions + Cardinality(list)
        BY <1>1, <2>3 DEF CastTypes
    <2>5. \A s \in list : s \in Sessions /\ port[s] = t /\ client[s] # "new"
        BY <1>0, <1>1 DEF ConnTypes, RegisteredWereAccepted
    <2>6. Cardinality(list) \in Nat
        BY <2>5, FS_Subset, FS_CardinalityType, SetsAssumption
    <2> HIDE DEF list
    <2>7. castList[q] = {} /\ Cardinality(castList[q]) = 0
        BY <1>0, <2>2, FS_EmptySet DEF CountedSoFar
    <2>8. stats'[q].queued + stats'[q].queueFull + Cardinality(list) = stats'[q].tcpSessions
        BY <1>0, <1>4, <2>4, <2>6, <2>7 DEF CountedSoFar
    <2>9. list \cap Announced(q) = {}
        BY <1>0, <2>5 DEF CountedSoFar
    <2>10. \A s \in list \cup Announced(q) : port'[s] \notin castTo'[q] /\ client'[s] # "new"
        BY <1>0, <2>2, <2>4, <2>5 DEF CountedSoFar, conns
    <2> QED
        BY <1>0, <2>1, <2>2, <2>4, <2>8, <2>9, <2>10 DEF CountedSoFar
<1>9. CASE ServeSession(q)
    <2>1. PICK s \in castList[q] :
              /\ s \in Sessions
              /\ stats' = Counted(q, s) /\ castList' = [castList EXCEPT ![q] = @ \ {s}]
              /\ \A r \in Sessions : Given(r)' = IF r = s /\ HasRoom(s)
                                                 THEN Given(r) \cup {<<"announce", q>>} ELSE Given(r)
        BY <1>0, <1>9, AnnounceOffered
    <2>2. cast[q] = "sessions" /\ UNCHANGED <<cast, castTo, conns>>
        BY <1>9 DEF ServeSession
    <2>3. castList'[q] = castList[q] \ {s} /\ Cardinality(castList'[q]) = Cardinality(castList[q]) - 1
        BY <1>1, <1>4, <2>1, FS_RemoveElement DEF CastTypes
    <2>4. s \notin Announced(q)
        BY <1>0, <2>1 DEF CountedSoFar
    <2>5. CASE HasRoom(s)
        <3>1. Announced(q)' = Announced(q) \cup {s}
            BY <2>1, <2>5 DEF Announced
        <3>2. Cardinality(Announced(q)') = Cardinality(Announced(q)) + 1
            BY <1>4, <2>4, <3>1, FS_AddElement
        <3>3. /\ stats'[q].queued = stats[q].queued + 1 /\ stats'[q].queueFull = stats[q].queueFull
              /\ stats'[q].tcpSessions = stats[q].tcpSessions
            BY <1>1, <2>1, <2>5 DEF Counted, CastTypes
        <3>4. /\ stats'[q].queued = Cardinality(Announced(q)')
              /\ stats'[q].queued + stats'[q].queueFull + Cardinality(castList'[q]) = stats'[q].tcpSessions
            BY <1>0, <1>4, <2>3, <3>2, <3>3 DEF CountedSoFar
        <3> QED
            BY <1>0, <2>1, <2>2, <2>3, <2>4, <3>1, <3>4 DEF CountedSoFar, conns
    <2>6. CASE ~HasRoom(s)
        <3>1. Announced(q)' = Announced(q)
            BY <2>1, <2>6 DEF Announced
        <3>2. /\ stats'[q].queued = stats[q].queued /\ stats'[q].queueFull = stats[q].queueFull + 1
              /\ stats'[q].tcpSessions = stats[q].tcpSessions
            BY <1>1, <2>1, <2>6 DEF Counted, CastTypes
        <3>3. stats'[q].queued + stats'[q].queueFull + Cardinality(castList'[q]) = stats'[q].tcpSessions
            BY <1>0, <1>4, <2>3, <3>2 DEF CountedSoFar
        <3> QED
            BY <1>0, <2>1, <2>2, <2>3, <3>1, <3>2, <3>3 DEF CountedSoFar, conns
    <2> QED
        BY <2>5, <2>6
<1> QED
    BY <1>1, <1>5, <1>6, <1>7, <1>8, <1>9, CastStep

-----------------------------------------------------------------------------
\* Steps that leave the welcomes where they are: no timer, no session found and
\* no welcome given changes.
WelcomeStays ==
    /\ UNCHANGED welcome
    /\ \A r, s \in Sessions : <<"welcome", r>> \in Given(s)' <=> <<"welcome", r>> \in Given(s)

LEMMA WelcomeStep ==
    ASSUME Types, [Next]_vars
    PROVE  \/ WelcomeStays
           \/ \E s \in Sessions : EnterLobby(s) \/ WelcomeFinds(s) \/ WelcomeSkipped(s) \/ WelcomeQueued(s)
<1>1. CASE UNCHANGED <<welcome, frames>>
    BY <1>1 DEF WelcomeStays, frames, Given
<1>2. ASSUME NEW s \in Sessions, Drain(s) PROVE WelcomeStays
    BY <1>2, Drained DEF WelcomeStays, Drain, Types
<1>3. ASSUME NEW q \in Requests, ServeSession(q) PROVE WelcomeStays
    <2>1. \A r \in Sessions : <<"welcome", r>> # <<"announce", q>>
        OBVIOUS
    <2>2. UNCHANGED welcome
        BY <1>3 DEF ServeSession
    <2>3. PICK s \in Sessions :
              \A r \in Sessions : Given(r)' = IF r = s /\ HasRoom(s)
                                              THEN Given(r) \cup {<<"announce", q>>} ELSE Given(r)
        BY <1>3, AnnounceOffered
    <2> QED
        BY <2>1, <2>2, <2>3 DEF WelcomeStays
<1> QED
    BY <1>1, <1>2, <1>3, Steps DEF frames, welcome, Connect, ClientLeaves, unregisterTCPClient,
        BroadcastAnnounce, VisitTunnel, TunnelServed, vars

\* Where the welcomes are stays true, whoever steps.
LEMMA WelcomesStep ==
    ASSUME IInv, [Next]_vars
    PROVE  WelcomesTracked'
<1>0. Types /\ RegisteredWereAccepted /\ WelcomesTracked
    BY DEF IInv
<1>1. WelcomeTypes /\ ConnTypes
    BY <1>0 DEF Types
<1>2. \A s \in Sessions : client[s] # "new" =>
          client'[s] # "new" /\ port'[s] = port[s] /\ peer'[s] = peer[s]
    BY <1>0, <1>1, AddressesFixed
<1>3. \A r, s \in Sessions : client[r] # "new" /\ client[s] # "new" /\ SameAddress(r, s) => SameAddress(r, s)'
    BY <1>2 DEF SameAddress
<1>4. timers \subseteq Sessions /\ \A r \in Sessions : found[r] # NoSession => found[r] \in Sessions
    BY <1>1 DEF WelcomeTypes
<1>5. CASE WelcomeStays
    <2>1. timers' = timers /\ found' = found /\ welcomeSent' = welcomeSent
        BY <1>5 DEF WelcomeStays, welcome
    <2> QED
        BY <1>0, <1>2, <1>3, <1>4, <1>5, <2>1 DEF WelcomesTracked, WelcomeStays
<1>6. ASSUME NEW e \in Sessions, EnterLobby(e) PROVE WelcomesTracked'
    <2>1. /\ timers' = timers \cup {e} /\ found' = found /\ ~welcomeSent[e] /\ client[e] # "new"
          /\ \A r \in Sessions : Given(r)' = Given(r)
        BY <1>0, <1>6 DEF EnterLobby, tryMarkWelcomeSent, RegisteredWereAccepted, frames, Given
    <2>2. \A r \in Sessions : welcomeSent'[r] <=> (welcomeSent[r] \/ r = e)
        BY <1>1, <1>6 DEF EnterLobby, tryMarkWelcomeSent, WelcomeTypes
    <2> QED
        BY <1>0, <1>2, <1>3, <1>4, <2>1, <2>2 DEF WelcomesTracked
<1>7. ASSUME NEW e \in Sessions, WelcomeFinds(e) PROVE WelcomesTracked'
    <2>1. PICK t \in SamePeer(e) : found' = [found EXCEPT ![e] = t]
        BY <1>7 DEF WelcomeFinds
    <2>2. t \in Sessions /\ client[t] # "new" /\ SameAddress(e, t) /\ client[e] # "new"
        BY <1>0, <1>1, <1>7 DEF SamePeer, ConnTypes, RegisteredWereAccepted, SameAddress, WelcomeFinds,
                                WelcomesTracked
    <2>3. /\ timers' = timers /\ welcomeSent' = welcomeSent /\ \A r \in Sessions : Given(r)' = Given(r)
          /\ \A r \in Sessions : found'[r] = IF r = e THEN t ELSE found[r]
        BY <1>1, <1>7, <2>1 DEF WelcomeFinds, WelcomeTypes, frames, Given
    <2> QED
        BY <1>0, <1>2, <1>3, <1>4, <2>2, <2>3 DEF WelcomesTracked
<1>8. ASSUME NEW e \in Sessions, WelcomeSkipped(e) PROVE WelcomesTracked'
    <2>1. /\ timers' = timers \ {e} /\ found' = found /\ welcomeSent' = welcomeSent
          /\ \A r \in Sessions : Given(r)' = Given(r)
        BY <1>8 DEF WelcomeSkipped, frames, Given
    <2> QED
        BY <1>0, <1>2, <1>3, <1>4, <2>1 DEF WelcomesTracked
<1>9. ASSUME NEW e \in Sessions, WelcomeQueued(e) PROVE WelcomesTracked'
    <2>1. /\ found[e] \in Sessions
          /\ \A r \in Sessions : Given(r)' = IF r = found[e] /\ HasRoom(found[e])
                                             THEN Given(r) \cup {<<"welcome", e>>} ELSE Given(r)
        BY <1>0, <1>9, WelcomeOffered
    <2>2. /\ e \in timers /\ timers' = timers \ {e} /\ welcomeSent' = welcomeSent
          /\ \A r \in Sessions : found'[r] = IF r = e THEN NoSession ELSE found[r]
          /\ found[e] # NoSession
        BY <1>1, <1>9 DEF WelcomeQueued, WelcomeTypes
    <2>3. /\ welcomeSent[e] /\ SameAddress(e, found[e]) /\ client[e] # "new" /\ client[found[e]] # "new"
          /\ \A s \in Sessions : <<"welcome", e>> \notin Given(s)
        BY <1>0, <2>2 DEF WelcomesTracked
    <2>4. \A r, s \in Sessions : <<"welcome", r>> \in Given(s)' =>
              <<"welcome", r>> \in Given(s) \/ (r = e /\ s = found[e])
        BY <2>1
    <2> QED
        BY <1>0, <1>2, <1>3, <1>4, <2>1, <2>2, <2>3, <2>4 DEF WelcomesTracked
<1> QED
    BY <1>0, <1>5, <1>6, <1>7, <1>8, <1>9, WelcomeStep

-----------------------------------------------------------------------------
\* Every step keeps the invariant.
LEMMA NextIInv == IInv /\ [Next]_vars => IInv'
<1> SUFFICES ASSUME IInv, [Next]_vars PROVE IInv'
    OBVIOUS
<1>1. Types /\ RegisteredWereAccepted
    BY DEF IInv
<1>2. Types'
    BY <1>1, ConnTypesStep, WelcomeTypesStep, CastTypesStep, ChannelsStep DEF Types
<1>3. RegisteredWereAccepted'
    BY <1>1, AddressesFixed DEF Types
<1>4. \A q \in Requests : CountedSoFar(q)'
    BY CountedStep
<1>5. WelcomesTracked'
    BY WelcomesStep
<1> QED
    BY <1>2, <1>3, <1>4, <1>5 DEF IInv

\* The invariant holds in every reachable state.
THEOREM Invariant == Spec => []IInv
<1>1. Init => IInv
    BY InitIInv
<1>2. IInv /\ [Next]_vars => IInv'
    BY NextIInv
<1> QED
    BY <1>1, <1>2, PTL DEF Spec

\* The variables always have their types (TypeOK).
THEOREM TypeCorrect == Spec => []TypeOK
<1>1. IInv => TypeOK
    BY DEF IInv, Types, ConnTypes, WelcomeTypes, FrameTypes, CastTypes, TypeOK
<1> QED
    BY <1>1, Invariant, PTL

\* When BroadcastAnnounce returns, its count of queued frames is the number of
\* sessions that were given one, and every session it listed is counted.
THEOREM CountsTrue == Spec => []CountsAreTrue
<1>1. ASSUME IInv, NEW q \in Requests, cast[q] = "done"
      PROVE  /\ stats[q].queued = Cardinality({s \in Sessions : <<"announce", q>> \in Given(s)})
             /\ stats[q].queued + stats[q].queueFull = stats[q].tcpSessions
    <2>1. CountedSoFar(q) /\ castList[q] = {}
        BY <1>1 DEF IInv, CountedSoFar
    <2>2. stats[q].queued \in Nat /\ stats[q].queueFull \in Nat /\ stats[q].tcpSessions \in Nat
        BY <1>1 DEF IInv, Types, CastTypes
    <2>3. Cardinality(castList[q]) = 0
        BY <2>1, FS_EmptySet
    <2> QED
        BY <2>1, <2>2, <2>3 DEF CountedSoFar, Announced
<1>2. IInv => CountsAreTrue
    BY <1>1 DEF CountsAreTrue
<1> QED
    BY <1>2, Invariant, PTL

\* A welcome goes to a session of the address and port of one that entered the
\* lobby, and no welcome is given twice.
THEOREM WelcomesEarned == Spec => []WelcomesAreEarned
<1>1. ASSUME IInv, NEW s \in Sessions
      PROVE  /\ \A x \in Welcomes(s) : /\ welcomeSent[x[2]]
                                       /\ peer[x[2]] = peer[s] /\ port[x[2]] = port[s]
             /\ \A r \in Sessions \ {s} : Welcomes(r) \cap Welcomes(s) = {}
    <2>1. \A t \in Sessions : \A x \in Welcomes(t) : x[2] \in Sessions /\ x = <<"welcome", x[2]>> /\ x \in Given(t)
        BY <1>1 DEF IInv, Types, FrameTypes, Frames, Welcomes, Given
    <2> QED
        BY <1>1, <2>1 DEF IInv, WelcomesTracked, SameAddress
<1>2. IInv => WelcomesAreEarned
    BY <1>1 DEF WelcomesAreEarned
<1> QED
    BY <1>2, Invariant, PTL
=============================================================================
