---------------------------- MODULE PlayerBinding ----------------------------
(***************************************************************************)
(* Who plays where: what the copiers of a lobby session learn of its player *)
(* from the frames they pass on (src/internal/tunnels/tcp_identity.go), and *)
(* the lists of players of the game tunnels, which a session's copier adds   *)
(* to when the server sends the client into a match (udp_player.go) while    *)
(* the reaper and Close close legs.                                         *)
(*                                                                          *)
(* The frames say whatever they like: any account, character, nick and map,  *)
(* and any of them may be left out.                                         *)
(***************************************************************************)
EXTENDS Naturals, Sequences, FiniteSets

CONSTANTS
    Sessions,    \* lobby sessions with payload rewriting on
    Peers,       \* addresses that clients connect from
    Accounts, Characters, Nicks,
    Maps,        \* dungeonIdTags
    Keys,        \* addresses of game servers
    TunnelIds,   \* names of tunnel objects
    NoTunnel,    \* nil
    Empty        \* the empty string

ASSUME NamesAssumption ==
    /\ NoTunnel \notin TunnelIds
    /\ Empty \notin Peers \cup Accounts \cup Characters \cup Nicks \cup Maps \cup Keys

VARIABLES
    peer,        \* the address of each session's client; several may have one
    withTCP,     \* the addresses whose tunnels have a TCP listener too
    identity,    \* the identity of each session, under identityMu
    nicks,       \* its characterNicks: the nick it knows of each character
    shown,       \* the characters its client has been shown with a nick
    pc,          \* control state of its remote-to-client copier
    frame,       \* the characters with a nick in the list it is to write
    binding,     \* the player bindUDPPlayerFromEnterGame is putting together
    tunnels,     \* Manager.tunnels, game servers only
    legs,        \* the tunnel objects whose UDP leg is open
    udpPlayers,  \* the players of each tunnel object, under udpPlayersMu
    bound        \* whom each has been given since it was last cleared (history)

session == <<peer, withTCP, identity, nicks, shown>>
copier == <<pc, frame, binding>>
registry == <<tunnels, legs, udpPlayers, bound>>
vars == <<session, copier, registry>>

Named(S) == S \cup {Empty}
OrElse(x, y) == IF x = Empty THEN y ELSE x

NoIdentity == [account |-> Empty, character |-> Empty, nick |-> Empty, map |-> Empty]
\* mapThen is the map of the session when ENTER_GAME was observed, and selected
\* are those selected from then on until it is read (history).
NoBinding == [key |-> Empty, nick |-> Empty, account |-> Empty, map |-> Empty,
              mapThen |-> Empty, selected |-> {}, tunnel |-> NoTunnel]

Init ==
    /\ peer \in [Sessions -> Peers] /\ withTCP \in SUBSET Keys
    /\ identity = [s \in Sessions |-> NoIdentity]
    /\ nicks = [s \in Sessions |-> [c \in Characters |-> Empty]]
    /\ shown = [s \in Sessions |-> {}]
    /\ pc = [s \in Sessions |-> "read"] /\ frame = [s \in Sessions |-> {}]
    /\ binding = [s \in Sessions |-> NoBinding]
    /\ tunnels = [k \in Keys |-> NoTunnel] /\ legs = {}
    /\ udpPlayers = [t \in TunnelIds |-> <<>>] /\ bound = [t \in TunnelIds |-> {}]

(***************************************************************************)
(* Frames of the server: observeTCPFrameFromRemote                         *)
(***************************************************************************)
\* Without an account nothing changes.
AccountLoginRes(s) ==
    /\ pc[s] = "read"
    /\ \E a \in Accounts : identity' = [identity EXCEPT ![s].account = a]
    /\ UNCHANGED <<peer, withTCP, nicks, shown, copier, registry>>

\* Every entry of a list remembered, those without a nick too.
RememberedUnchecked(old, list) ==
    [c \in Characters |-> IF c \in DOMAIN list THEN list[c] ELSE old[c]]

WithNick(list) == {c \in DOMAIN list : list[c] # Empty}

\* Of a list those that come with a nick are remembered by it.
Remembered(old, list) ==
    [c \in Characters |-> IF c \in WithNick(list) THEN list[c] ELSE old[c]]

\* The list is observed, and then written to the client.
AccountCharacterListRes(s) ==
    /\ pc[s] = "read"
    /\ \E C \in SUBSET Characters : \E list \in [C -> Named(Nicks)] :
          /\ nicks' = [nicks EXCEPT ![s] = Remembered(@, list)]
          /\ frame' = [frame EXCEPT ![s] = WithNick(list)]
    /\ pc' = [pc EXCEPT ![s] = "write"]
    /\ UNCHANGED <<peer, withTCP, identity, shown, binding, registry>>

WriteToClient(s) ==
    /\ pc[s] = "write"
    /\ shown' = [shown EXCEPT ![s] = @ \cup frame[s]]
    /\ pc' = [pc EXCEPT ![s] = "read"] /\ frame' = [frame EXCEPT ![s] = {}]
    /\ UNCHANGED <<peer, withTCP, identity, nicks, binding, registry>>

\* The character the server has let in.  A nick counts with its character only,
\* and one left out leaves the nick of the character before.
LobbyCharacterInfoRes(s) ==
    /\ pc[s] = "read"
    /\ \E c \in Named(Characters), n \in Named(Nicks), a \in Named(Accounts) :
          /\ identity' = [identity EXCEPT
                            ![s].character = OrElse(c, @),
                            ![s].nick = IF c = Empty THEN @ ELSE OrElse(n, @),
                            ![s].account = OrElse(a, @)]
          /\ nicks' = IF c = Empty THEN nicks
                      ELSE [nicks EXCEPT ![s][c] = OrElse(n, @)]
    /\ UNCHANGED <<peer, withTCP, shown, copier, registry>>

\* The tag assigned whether or not there is one.
patchAnySelection(id, tag) == [id EXCEPT !.map = tag]

patchMatchSelection(id, tag) == IF tag = Empty THEN id ELSE [id EXCEPT !.map = tag]

\* A selection made by the party or answered by the server.
GameTypeFromRemote(s) ==
    /\ pc[s] = "read"
    /\ \E tag \in Named(Maps) :
          identity' = [identity EXCEPT ![s] = patchMatchSelection(@, tag)]
    /\ UNCHANGED <<peer, withTCP, nicks, shown, copier, registry>>

(***************************************************************************)
(* Frames of the client: observeTCPFrameFromClient, in the other copier    *)
(***************************************************************************)
\* A character selected, one the session has never heard of too: its nick is
\* taken if it is known.
LobbyEnterReq(s) ==
    /\ \E c \in Characters :
          identity' = [identity EXCEPT ![s].character = c,
                                       ![s].nick = OrElse(nicks[s][c], @)]
    /\ UNCHANGED <<peer, withTCP, nicks, shown, copier, registry>>

\* The map of a binding has still to be read.
MapUnread(s) == pc[s] \in {"snapshot", "lookup", "map"}

\* A game type selected, or a match asked for.
GameTypeFromClient(s) ==
    /\ \E tag \in Named(Maps) :
          /\ identity' = [identity EXCEPT ![s] = patchMatchSelection(@, tag)]
          /\ binding' = IF MapUnread(s) /\ tag # Empty
                        THEN [binding EXCEPT ![s].selected = @ \cup {tag}] ELSE binding
    /\ UNCHANGED <<peer, withTCP, nicks, shown, pc, frame, registry>>

(***************************************************************************)
(* Entering a match: bindUDPPlayerFromEnterGame                            *)
(***************************************************************************)
\* A tunnel object nobody holds; a new one has no players.
Fresh == {t \in TunnelIds : /\ \A k \in Keys : tunnels[k] # t
                            /\ \A s \in Sessions : binding[s].tunnel # t}

\* The players of an object and the record of them are gone.
Cleared(t) == /\ udpPlayers' = [udpPlayers EXCEPT ![t] = <<>>]
              /\ bound' = [bound EXCEPT ![t] = {}]

\* EnsureTunnel, whose inside is TunnelManager's: the tunnel of the address is
\* there, with its leg or without, or is made; beside a listener there may be no
\* leg from the start.
EnsureTunnel(k) ==
    \/ /\ tunnels[k] # NoTunnel
       /\ UNCHANGED registry
    \/ /\ tunnels[k] = NoTunnel
       /\ \E t \in Fresh :
             /\ tunnels' = [tunnels EXCEPT ![k] = t]
             /\ legs' \in {legs \cup {t}} \cup (IF k \in withTCP THEN {legs \ {t}} ELSE {})
             /\ Cleared(t)

\* The server names the game server, and the nick and the account or not.  When
\* EnsureTunnel fails nothing has changed.
EnterGameServerNot(s) ==
    /\ pc[s] = "read"
    /\ \E k \in Keys, n \in Named(Nicks), a \in Named(Accounts) :
          /\ EnsureTunnel(k)
          /\ binding' = [binding EXCEPT ![s] =
                           [NoBinding EXCEPT !.key = k, !.nick = n, !.account = a,
                                             !.mapThen = identity[s].map]]
    /\ pc' = [pc EXCEPT ![s] = "snapshot"]
    /\ UNCHANGED <<session, frame>>

Leave(s) == /\ pc' = [pc EXCEPT ![s] = "read"]
            /\ binding' = [binding EXCEPT ![s] = NoBinding]

\* The nick and the account of a binding, the session's where the frame had none.
NickOf(s) == OrElse(binding[s].nick, identity[s].nick)
AccountOf(s) == OrElse(binding[s].account, identity[s].account)

\* Bound without a nick.
SnapshotUnchecked(s) ==
    /\ pc[s] = "snapshot"
    /\ binding' = [binding EXCEPT ![s].nick = NickOf(s), ![s].account = AccountOf(s)]
    /\ pc' = [pc EXCEPT ![s] = "lookup"]
    /\ UNCHANGED <<session, frame, registry>>

\* identitySnapshot fills in what the frame left out.  Without a nick there is
\* no binding; the account may be missing.
IdentitySnapshot(s) ==
    /\ pc[s] = "snapshot"
    /\ \/ /\ NickOf(s) = Empty
          /\ Leave(s)
       \/ /\ NickOf(s) # Empty
          /\ binding' = [binding EXCEPT ![s].nick = NickOf(s), ![s].account = AccountOf(s)]
          /\ pc' = [pc EXCEPT ![s] = "lookup"]
    /\ UNCHANGED <<session, frame, registry>>

\* The tunnel, looked up by itself: it may be gone again, or be another one.
LookupTunnel(s) ==
    /\ pc[s] = "lookup"
    /\ LET t == tunnels[binding[s].key] IN
       \/ /\ t = NoTunnel
          /\ Leave(s)
       \/ /\ t # NoTunnel
          /\ binding' = [binding EXCEPT ![s].tunnel = t]
          /\ pc' = [pc EXCEPT ![s] = "map"]
    /\ UNCHANGED <<session, frame, registry>>

currentMap(s) ==
    /\ pc[s] = "map"
    /\ binding' = [binding EXCEPT ![s].map = identity[s].map]
    /\ pc' = [pc EXCEPT ![s] = "upsert"]
    /\ UNCHANGED <<session, frame, registry>>

Player(s) == [nick |-> binding[s].nick, map |-> binding[s].map,
              account |-> binding[s].account, peer |-> peer[s]]

\* Entries told apart by address alone.
MatchesPeer(e, p) == e.peer = p.peer

\* Which entries an upsert may replace.
Matches(e, p) == (p.account # Empty /\ e.account = p.account) \/ e.peer = p.peer

\* The newcomer put in the first place.
UpsertedFirst(list, p) == IF list = <<>> THEN <<p>> ELSE [list EXCEPT ![1] = p]

\* The first entry that matches is replaced, the others stay; or the player is
\* appended.
Upserted(list, p) ==
    LET hits == {i \in DOMAIN list : Matches(list[i], p)} IN
    IF hits = {} THEN Append(list, p)
    ELSE [list EXCEPT ![CHOOSE i \in hits : \A j \in hits : i <= j] = p]

upsertUDPPlayer(s) ==
    /\ pc[s] = "upsert"
    /\ LET t == binding[s].tunnel
           p == Player(s) IN
       /\ udpPlayers' = [udpPlayers EXCEPT ![t] = Upserted(@, p)]
       /\ bound' = [bound EXCEPT ![t] = @ \cup {[account |-> p.account, peer |-> p.peer]}]
    /\ Leave(s)
    /\ UNCHANGED <<session, frame, tunnels, legs>>

\* The reaper, under the manager's lock: an open leg is closed and its players are
\* cleared, and a tunnel without a listener is deleted.
CloseLeg(k) ==
    /\ tunnels[k] \in legs
    /\ legs' = legs \ {tunnels[k]} /\ Cleared(tunnels[k])
    /\ tunnels' = IF k \in withTCP THEN tunnels ELSE [tunnels EXCEPT ![k] = NoTunnel]
    /\ UNCHANGED <<session, copier>>

\* Manager.Close, which deletes every tunnel, with its leg or without.
CloseTunnel(k) ==
    /\ tunnels[k] # NoTunnel
    /\ legs' = legs \ {tunnels[k]} /\ Cleared(tunnels[k])
    /\ tunnels' = [tunnels EXCEPT ![k] = NoTunnel]
    /\ UNCHANGED <<session, copier>>

ObservesRemote(s) ==
    \/ AccountLoginRes(s) \/ AccountCharacterListRes(s) \/ LobbyCharacterInfoRes(s)
    \/ GameTypeFromRemote(s) \/ EnterGameServerNot(s)
ObservesClient(s) == LobbyEnterReq(s) \/ GameTypeFromClient(s)
GoesOn(s) == \/ WriteToClient(s)
             \/ IdentitySnapshot(s) \/ LookupTunnel(s) \/ currentMap(s) \/ upsertUDPPlayer(s)

Next == \/ \E s \in Sessions : ObservesRemote(s) \/ ObservesClient(s) \/ GoesOn(s)
        \/ \E k \in Keys : CloseLeg(k) \/ CloseTunnel(k)

Spec == Init /\ [][Next]_vars

(***************************************************************************)
(* Properties                                                              *)
(***************************************************************************)
Identities == [account : Named(Accounts), character : Named(Characters),
               nick : Named(Nicks), map : Named(Maps)]
Bindings == [key : Named(Keys), nick : Named(Nicks), account : Named(Accounts),
             map : Named(Maps), mapThen : Named(Maps), selected : SUBSET Maps,
             tunnel : TunnelIds \cup {NoTunnel}]
Entry == [nick : Nicks, map : Named(Maps), account : Named(Accounts), peer : Peers]
Pair == [account : Named(Accounts), peer : Peers]

\* The types of the variables; nobody is listed without a nick (udp_player.go:66).
TypeOK ==
    /\ peer \in [Sessions -> Peers] /\ withTCP \subseteq Keys
    /\ identity \in [Sessions -> Identities]
    /\ nicks \in [Sessions -> [Characters -> Named(Nicks)]]
    /\ shown \in [Sessions -> SUBSET Characters]
    /\ pc \in [Sessions -> {"read", "write", "snapshot", "lookup", "map", "upsert"}]
    /\ frame \in [Sessions -> SUBSET Characters]
    /\ binding \in [Sessions -> Bindings]
    /\ tunnels \in [Keys -> TunnelIds \cup {NoTunnel}] /\ legs \subseteq TunnelIds
    /\ udpPlayers \in [TunnelIds -> Seq(Entry)]
    /\ bound \in [TunnelIds -> SUBSET Pair]

\* Nobody else was given to the tunnel from an address that account a came from.
OwnAddresses(t, a) ==
    \A e, f \in bound[t] : e.account = a /\ f.peer = e.peer => f.account = a

\* No account that was given to the tunnel from address q came from another.
OwnAccounts(t, q) ==
    \A e, f \in bound[t] :
        e.peer = q /\ e.account # Empty /\ f.account = e.account => f.peer = q

\* manager.go:53: the bindings are there "for deduplication on upsert".  No tunnel
\* lists an account twice, whichever of his connections a player comes back with,
\* unless one of their addresses served another account too, or none; nor an
\* address, whichever accounts it serves, unless one of them came from elsewhere.
OneEntryAPlayer ==
    \A t \in TunnelIds : \A i, j \in DOMAIN udpPlayers[t] :
        LET e == udpPlayers[t][i]
            f == udpPlayers[t][j] IN
        /\ e.account = f.account /\ e.account # Empty /\ OwnAddresses(t, e.account) => i = j
        /\ e.peer = f.peer /\ OwnAccounts(t, e.peer) => i = j

\* Who was given to a tunnel is listed until its leg is closed, whoever enters
\* later: an account unless its address served another, an address unless its
\* account came from elsewhere.
PlayersStayListed ==
    \A t \in TunnelIds : \A e \in bound[t] :
        /\ e.account # Empty /\ OwnAddresses(t, e.account) =>
              \E i \in DOMAIN udpPlayers[t] : udpPlayers[t][i].account = e.account
        /\ OwnAccounts(t, e.peer) =>
              \E i \in DOMAIN udpPlayers[t] : udpPlayers[t][i].peer = e.peer

\* What is listed as the map is the one the session had when the server sent it
\* into the match or one its client selected since, which is later than
\* README.md:112 says; a map once chosen is not lost by a selection without a tag.
MapIsListed ==
    \A s \in Sessions :
        pc[s] = "upsert" => binding[s].map \in {binding[s].mapThen} \cup binding[s].selected

\* tcp_identity.go:202: a client that selects a character it was shown with a nick
\* is known by the nick remembered, although the list is observed by one goroutine
\* and the selection by the other, and although later lists may leave nicks out.
SelectionNamesCharacter ==
    [][\A s \in Sessions :
          LobbyEnterReq(s) /\ identity'[s].character \in shown[s] =>
              /\ identity'[s].nick # Empty
              /\ identity'[s].nick = nicks[s][identity'[s].character]]_vars
=============================================================================
