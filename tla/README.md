# A verification of dad_proxy

`dad_proxy` answers a game client's *hello* with the address of a tunnel it has
opened for it, relays the client's lobby connection (TCP) and its match (UDP)
through that tunnel, rewrites the addresses of game servers in the lobby stream
so that the next connection comes to the proxy too, and injects announcements of
its own into lobby streams.  This directory holds TLA+ modules of the parts that
keep state or run concurrently, the TLC runs that check them on small instances,
and proofs, checked by TLAPS, of what the registry, the relays, the announcements,
the lists of players, the payload rewriting and the process promise for any number of
callers, addresses, clients, frames, players and requests, and for any bytes.

Paths and line numbers below are those of the repository; `manager.go`,
`tcp_broadcast.go`, `welcome.go`, `tcp_identity.go`, `udp_player.go` are in
`src/internal/tunnels`, `proxy.go`, `announce.go`, `sessions.go` in
`src/internal/handlers`.

## 1. Inventory

| component | state it keeps | operations | interacts with |
|---|---|---|---|
| tunnel registry (`Manager`, `manager.go:235-545`) | `tunnels`, a map from `ip:port` to tunnel objects, under `mu`; the sockets each object holds | `EnsureTunnel`, `createTunnel`, `tunnelForRemoteIP`, `ListTunnels`, `Close` | called by the hello handler, the payload rewriter, the player binding; starts the goroutines below |
| UDP idle reaper (`manager.go:317-389`) | `idleStop`; each tunnel's idle clock | a pass every tick: closes idle legs, deletes tunnels without a listener | takes `mu`; closes sockets under the relay goroutines |
| UDP split relay (`serveUDPSplit`, `manager.go:1512-1668`) | the map of client addresses under `clientsMu`; `activeUDPSessions`, `totalUDPSessions` | two goroutines per leg: upstream socket to clients, client socket to upstream | the idle clock, the leg's sockets |
| TCP session relay (`serveTCP` and its copiers, `manager.go:598-788`) | per connection: registration, the inject channel, the position in two streams | accept, dial, two copiers, unregister | announcements, identity, rewriting |
| announcements (`tcp_broadcast.go`, `announce.go`) | `tcpClients` of each tunnel under `tcpClientsMu` | register, unregister, broadcast to one tunnel or all, drain | handler goroutines write to channels the copiers drain |
| welcome (`welcome.go`) | `welcomeSent` of each session; sleeping goroutines | mark, sleep, look up again, queue | the channels above |
| session identity (`tcp_identity.go`) | account, character, nick, map of each session under `identityMu` | observers of both copiers, snapshots | welcome, player binding, `/api/sessions` |
| player binding (`udp_player.go`) | `udpPlayers` of each tunnel under `udpPlayersMu` | bind on entering a match, clear with the leg | `EnsureTunnel`, identity |
| payload rewriting (`manager.go:800-1490`) | none | protobuf walk, TLV walk, IP and URL rewriting, pre-creation of tunnels | `EnsureTunnel`, `tunnelForRemoteIP` |
| frame codec (`src/internal/protocol`) | none | split, parse, encode frames and announcement bodies | copiers, announcements |
| hello handler (`proxy.go:83-280`) | none | asks the API, calls `EnsureTunnel`, answers an address | registry |
| process (`main.go:43-91`) | the HTTP server and its timeouts | listen, wait for the signal, `Close`, `Shutdown`, exit | hello handler, registry |
| listings, configuration, share, logger | none, or read once | | |

What is hard in it:

* **Interleaving.**  Handlers, copiers, rewriters and the reaper all enter the
  registry.  `EnsureTunnel` looks up under a read lock, releases it, reads the
  info it found *without* the lock, or takes the write lock and looks again
  (`manager.go:261-281`).  `closeUDPLeg` pulls two sockets away from under two
  goroutines, and from under that unlocked read too: it closes the sockets first and
  resets the port it reports eight lines later (`manager.go:148-164`).
* **Stale state.**  A list of clients, a list of sessions, a session found by its
  address are used after the lock they were read under is released
  (`manager.go:1554`, `tcp_broadcast.go:139`, `welcome.go:121`).
* **Partial failure.**  `createTunnel` binds up to three sockets and may fail, or
  fall back, between any two (`manager.go:429-545`).  Either copier of a session
  may stop while the other goes on.
* **Limits.**  Port ranges, and inject channels of sixteen frames.
* **Time.**  The idle clock against the reaper's tick; the delay of the welcome;
  four timeouts of 25 and 30 seconds over one hello request and the shutdown
  (`proxy.go:78`, `proxy.go:122`, `main.go:64`, `main.go:83`).
* **Bytes.**  Lengths within lengths that must follow what is rewritten in them,
  and texts that look like messages (`manager.go:800-1490`).
* **Ordering.**  Injected frames share a connection with the server's frames and
  must not land inside one, nor in a stream that has lost its framing.

What makes each part correct is stated by the properties of section 4; the list
of hazards, each at its line, with the properties that cover it or the reason
why none does, is `hazards` in `PROJECT.json`.

## 2. Modules

| module | models | extends |
|---|---|---|
| `TunnelDirectory` | abstract: at most one tunnel per address, every answer a tunnel the directory held during the call | |
| `TunnelManager` | the registry, the reaper's passes, the shutdown | |
| `TunnelManagerProofs` | its theorems | `TunnelManager`, `TLAPS` |
| `UdpRelay` | the two goroutines of one UDP leg, the idle clock, the reaper's steps | |
| `UdpRelayProofs` | its theorems | `UdpRelay`, `TLAPS` |
| `FramedStream` | abstract: what one direction of a session promises its receiver | |
| `TcpRelay` | one TCP session from accept to end, its copiers and its channel | |
| `TcpRelayProofs` | its theorems | `TcpRelay`, `TLAPS` |
| `LobbySessions` | the sessions of all tunnels, broadcasts, welcomes | |
| `LobbySessionsProofs` | its theorems | `LobbySessions`, `TLAPS` |
| `PlayerBinding` | identities of lobby sessions, the lists of players of the game tunnels | |
| `PlayerBindingProofs` | its theorems | `PlayerBinding`, `TLAPS` |
| `WireFormat` | the two readings of a frame's body: varints and fields of a message, records with lengths of one byte or two | |
| `WireFormatProofs` | that what is written is what is read back | `WireFormat`, `TLAPS` |
| `PayloadRewrite` | the rewriting of one frame of the lobby stream, and the tunnels it makes | `WireFormat` |
| `PayloadRewriteProofs` | its theorems | `PayloadRewrite`, `WireFormatProofs` |
| `ProxyServer` | the process: `main`, the HTTP server, the hello handler, over the registry | `TunnelManager` |
| `ProxyServerProofs` | its theorems | `ProxyServer`, `TunnelManagerProofs` |
| `MC...` | the instances TLC checks | the module of the name |

Three choices run through all of them.

* *A step is what no other goroutine can see inside*: the body of a critical
  section, or one socket or channel operation outside of any.  Where the code reads
  without the lock, the critical sections it can see into are cut into steps.
* *Sockets belong to the operating system.*  `tcpOwner`, `udpOwner`, `clSocket`
  and the like are the system's view; what the program's own fields say is kept
  apart, so that the two can disagree.
* *Data are names.*  A datagram is its sender, a frame its number, a port a small
  number whose place in the configured ranges is all that matters.

### TunnelManager

`tunnels`, `info` are `Manager.tunnels` and the tunnel objects (the fields that
matter: key, ports, which sockets are not nil, and one bit `idle` for the clock).
A caller goes through `pc`: *lookup* (read lock), *copy* (the unlocked read of
the info, `manager.go:265`) or *lock* (write lock: `Recheck` or one of the
`Create...` actions), *replied* or *failed*.  `ref` is the pointer it holds, so an
object is not reused while somebody has it; `reply` is its copy of the info, and
`AdvertisedPort` what it makes of it: `HelloPort` in the hello handler,
`ClientAdvertisedPort` in the rewriter, the UDP port for a bare IP.
`CreateUDPOnly`, `CreateTCPOnly`, `CreateMixed`, `CreateWithoutUDP` and
`CreateFails` are the paths of `createTunnel`; the bind loops are
`listenTCPInPortRange` and `listenUDPInPortRange`, whose result is empty when
they fail.  Other programs may hold the ports of `ForeignTCP` and `ForeignUDP` at
one bind and not at the next.

`CopyInfo` holds no lock, so it may fall into the critical section of the reaper or of
`Close`, and these go leg by leg.  A pass of `evictIdleUDPTunnels` is `BeginPass` (the legs
idle now are `due`), for each of them `EvictLeg`, and `EndPass` (`removeKeys`); `Close` is
`SignalClose`, `BeginClose`, for each tunnel `CloseTunnel`, and `EndClose`.  `closeUDPLeg` is two
steps in both, `CloseLegSockets` and `ForgetLeg`: between the two the tunnel is *cut*, its
sockets closed and its port still reported.  What only those who take the lock can see stays one
step: their actions need `Unlocked`.  A datagram relayed during a pass takes a leg the pass has not
looked at off `due` (`LegActive`), since the code reads each clock at its turn.  Passes that
find nothing are stutters.  `main` calls `Close` before it stops the HTTP server, so
calls may come after it, and do in the model.  Reading a field of one machine word while it is
written is taken to give the old value or the new.

### UdpRelay

`upc` and `cpc` are the control states of the two goroutines, `udests` and
`cdests` the client lists they took under `clientsMu` and are still writing to.
`rpc` goes through `closeUDPLeg` socket by socket.  The clock is kept as ages:
`idleAge` is the age of `lastUDPActivityUnixNano`; `relayAge` is the true age of
the last datagram relayed, to compare it with.  The reaper is prompt (time does not pass a tick before its pass is
over); the goroutines may take any time over any step.

### TcpRelay and FramedStream

`session` goes through `serveTCP`'s goroutine and its deferred calls one by one: counted, registered,
dialed, both copiers over and the upstream connection closed, unregistered, counted no more.
A frame is its number in its direction; one of `OddFrom...` has a length prefix
that is no frame length, after which the copier relays bytes for ever (`rawRead`,
`rawWrite`).  `inject` is the session's channel.  `drained` is a history variable:
how many announcements had been queued when the last draining ended.  `FramedStream`
says what the receiver of one direction is promised; both directions are
instances of it, the client-to-server one with no frames of the proxy's own.

### LobbySessions

All sessions of all tunnels, by the port of their tunnel and the address of their
client.  `timers` are the goroutines of `deliverWelcomeAnnounceDelayed`, `found`
the session each has looked up and not yet written to.  `cast`, `castTo`,
`castList` are the loops of each announce request's broadcast.  A welcome carries
the session it was scheduled for, which the code's frame does not: it is there so
that properties can say whose it is.

### PlayerBinding

`identity` and `nicks` are `tcpClientInfo`'s fields under `identityMu`; the actions named
after frames (`AccountLoginRes`, `LobbyEnterReq`, ...) are what the two observers make of
them, one critical section each.  The server and the client may say anything: any account at any
time, lists whose entries have no nick, characters never listed, selections without a map.
What is left out leaves what is known, as in the code.  `EnterGameServerNot`, `IdentitySnapshot`,
`LookupTunnel`, `currentMap` and `upsertUDPPlayer` are the steps of
`bindUDPPlayerFromEnterGame`, between any two of which the other copier may change the identity,
the reaper may close the leg (`CloseLeg`) and `Manager.Close` may delete the tunnel
(`CloseTunnel`); an upsert into an object that is no longer registered is
possible, and happens.  Only a nick is required of a player (`udp_player.go:66`); the account may
be missing.  `EnsureTunnel` is one step here, its inside being `TunnelManager`'s; `legs`
are the objects whose UDP leg is open, and a tunnel may be made without one beside its listener.
`peer` is the address a session's client comes from; several sessions may have one, at once (which
the kernel excludes, and the model only adds) or one after the other.

Three things are recorded for the properties and nothing reads them: `bound`, whom a tunnel object
was given since its list was last cleared; `mapThen` and `selected` of a binding, the
session's map when ENTER_GAME was observed and those its client selected until the map is read; and
`shown` with `frame`, the characters a client has been written with a nick.

### WireFormat and PayloadRewrite

`rewriteTunnelPayload` as functions on sequences of bytes, with the names of the code.
`WireFormat` has the reading: `consumeProtobufVarint`, `appendProtobufVarint`, `Field` (one
turn of the loops over a message), `protobufWireConsumesFully`, `Records` (the loops over
records), and `CutTo`, the truncation of a value that its length can no longer say
(`manager.go:1156`).  `PayloadRewrite` has the rewriting: `tryRewriteProtobuf`, which walks a
message by `Message` and goes down through `rewriteProtobufLenDelim`, `rewriteTLVPayload` with
lengths of one byte and then of two and its pre-creation of tunnels (`Ahead`), the lobby address
split over two fields, `rewriteHTTPURLBytes`.  Loops and recursion are recursive functions, the
loops over the bytes that are left and the descent over the depth that is left; what the code's
methods do to the registry is a second argument and a second result (`Answer`, `After`), so the
order of the calls is the order of the bytes.  The frame's body and its declared length are apart, and so are
the frame read, the frame after the walk, and the frame sent.  A byte has two halves of
`Cont` values (32 instead of 128), a varint at most `MaxVarint` bytes, the fixed types 2 and
1 bytes: small enough to write frames down, and every boundary is still there.  Addresses are
texts of a few bytes, which may have the shape of something else.  The rewriting of a frame is
one step against a registry that is any set of tunnels, some refused and some with their leg
closed (`refused`, `closed`): what other goroutines do between two calls of one frame is
`TunnelManager`'s.  `tunnelForRemoteIP` ranges over a Go map and takes the last leg to the host
that it meets, so which of several legs answers differs from call to call: `Iterations` lists the
orders a range may take, `round` says with which the frame begins, and each range moves on to
the next (`LastMet`, `Ranged`).  Both URL rewriters read as the code does: one splits a whole
text at its slash and colon (`rewriteHTTPURL`), the other takes as many digits as the pattern
allows and leaves the rest in place (`URLOf`, `AllDigits`, `MaxDigits`).  Left out: frames shorter
than their header, spaces around texts, zeros before numbers, URLs of what is no address, host
names, and the configuration that turns rewriting off (`TcpRelay` has it).

### ProxyServer

Extends `TunnelManager`, whose actions it calls.  `http` is where a connection's request is
in `HandleProxy`: *calling* the API, or *asking* the manager, when its `pc` moves.
`AnswerWithoutTunnel` is every return before `EnsureTunnel` (API errors, other statuses, no
JSON, maintenance, an invalid address), `CallExpires` the one the deadline forces.  `phase` is
where `main` is, `age` and `grace` count what a request and `Shutdown` have taken; only waiting
takes time.  Two things are `net/http`'s and modelled as such: a connection sends one request
at a time, and `Shutdown` closes idle connections at once but gives one that has sent
nothing yet a few seconds more (`NewConnection`).  A request of the lobby copiers is a
`Rewriter` step.  The other handlers read snapshots and take no part.

## 3. Bounds, symmetry, fairness

| run | bounds | distinct states |
|---|---|---|
| `manager` | 2 callers, 1 IP, upstream ports 3 (TCP pool), 5 (game range), 9 (neither); pool 3, client range 6-7; 6 may be taken by others; 5 tunnel names | 563 000 |
| `server` | 1 connection, a good and a bad IP, ports 5 and 9, one client port, 2 names; ticks of 5 s: timeouts 5 and 6, new connections 2 | 95 000 |
| `udp_relay` | 2 clients, 1 address of the server, timeout 2, tick 1 | 29 000 |
| `tcp_relay` | 3 frames each way, the second one odd; 4 announcements, channel of 2; rewriting on and off | 320 000 |
| `lobby_sessions` | 2 connections, 2 tunnels, 2 addresses, 1 request, channel of 1 | 309 000 |
| `player_binding` | 2 sessions, 2 addresses, 2 accounts, 1 character, 1 nick, 2 maps, 1 game server, 2 tunnel names; 4 frames observed | 542 000 |
| `payload` | 4 foreign addresses (two game ports of one host, the text of one the beginning of the other's; a host whose text is a message; an HTTP port of the first host) and the proxy's own, 2 orders of a range over the map, ports of at most 2 digits, 236 bodies, every registry | 127 000 |

Two callers are what a race for an address takes; three kinds of port, one
listener's port and a client range of two are enough for a preferred port, a next one, and
exhaustion when a neighbour holds one or the other tunnel listens.  Five tunnel names are as many as can be registered or held
at once (three keys, two callers), so `Fresh` never blocks a creation.  `manager`
uses symmetry over callers and names, and a view that leaves out what
unreferenced objects hold; no run with a liveness property uses either.  Two
clients are needed for a list taken before the map changes; the ages need values
on both sides of the timeout and of the tick.  Three frames allow one before the
odd one and one after it.  Two connections with two addresses and tunnels give
every way of two sessions being told apart or not; two welcomes and a broadcast
compete for a channel of one.  Two sessions may be one player's, who comes back, or two
players', from one address or from two; two tunnel names let a binding hold a deleted tunnel
while its successor has players.  Four frames are two bindings and what makes two players differ,
or one binding and three selections in between; the proofs say the same for any number.  Two maps
let a later selection be told from an earlier one.
`player_binding` uses symmetry over sessions, addresses, accounts and tunnel names, and a view that
leaves out the players of objects nobody refers to and the character a session is known by, which no
step depends on; all its properties treat the permuted values alike.

A body of `payload` is one or two fields or records out of a list with each wire type, each
record tag, both widths, nesting beyond the limit, lengths that take two bytes and lengths
that come to take two when their content grows, a truncated record, and all sequences of at
most three bytes over three values.  Two legs to one host that a range meets in turn let two texts of a
frame be answered differently, and let a refused split address be answered from the other leg.  One record is as long as its length of one byte can say,
and its URL becomes a longer one.  One connection is what `server` needs: requests of
different connections meet in the manager only, where `manager` has two callers, and in
`Exit`, which the proofs cover for any number.  A tick of five seconds divides 25 and 30.

The same holds of the other small bounds where a theorem of section 5 states the property:
the run shows that it is reachable and not vacuous, the proof that the bound does not matter.
`lobby_sessions` has also been checked once with two requests at a time (605 000 states).

Counters without a bound in the code (`totalUDPSessions`, ages) are bounded by the
model's shape (`Cardinality(clients)`, `AgeCap`); `MaxFrames`, `MaxAnnounces`,
`Sessions` and `Requests` are bounds of the model only.  Deadlock is checked
for the registry, the UDP relay and the rewriting; a TCP session, a finite set of
connections and the process do end, and the frames of `player_binding` are used up, so their
runs say `CHECK_DEADLOCK FALSE`.

Fairness, in the server: weak for the reaper's next step (a ticker that fires again and again, and a
lock taken at a moment it is free: `ReaperExit` needs none, as `IdleLegReaped` ends with the reaper)
and for the end of `main` once the manager is closed; strong for `Close` and for each request's own
goroutine, which both need `Manager.mu`, free again and again but not for ever: `sync.RWMutex`
lets a waiter in however often others take it; strong for the clock too, which stands still only
while requests are in the manager.  Nothing is assumed of the API, nor that the signal comes.  In
the relays, weak fairness of each goroutine, except for its wait on an
open socket, which may never return; nothing is assumed of peers.  In `LobbySessions`, the
handlers and the sleeping goroutines run to their ends.

## 4. What the runs check

**Registry** (`manager`).  `NoSocketLeak`: every bound port and upstream socket
belongs to a tunnel registered under its own key; a race for an address, a failed
creation, an eviction and a shutdown leave nothing open.  `LegConsistent`: what a
registered tunnel reports of its UDP leg is what is open, whenever `mu` is free, and no two tunnels share
a client port.  `AnsweredLegIsOwn`: a UDP port handed out is, at that moment, the
port of the tunnel registered for the address asked for and never one another tunnel has, although the
info is read outside the lock.  It names the exception the code has: in the moment between the closing
of a leg's sockets and the reset of its port (`manager.go:150-158`) the unlocked copy may take the
port of a closed socket, which nobody has yet; without the exception the property is false.
`LobbyOutlivesTheLeg`: evicting an idle leg never takes the TCP
listener beside it.  `ImplementsDirectory`: all of it looks to the callers like
`TunnelDirectory`.

**Process** (`server`).  `NobodyCutOff`: when the process ends, only a request that a new
connection sent after `Shutdown` had begun can lack its answer.  `AnsweredInTime`: no answer is
written after the server's write deadline; with the client's 30 seconds instead of the context's
25 both would fail.  `HelloAnswered`, `ServerStops`: every earlier request is answered and the
process ends, whatever the API does and whenever the signal comes.  `IdleLegReaped`: while the reaper runs, idle
legs are closed in the end.

**UDP relay** (`udp_relay`).  `NoEcho`: nothing of the server's is sent back to it and its
address is never taken for a client's.  `SessionsAreClients`: the counters are the
client map.  `WritesToKnownClients`: stale lists name known clients only.
`ClosedOnlyWhenQuiet` and `ClosedInTime`: the reaper takes a leg neither too early
(except while a goroutine is between its write and its mark) nor later than one tick after
the timeout.  `GoroutinesEnd`: both goroutines come out of a closed leg.

**TCP relay** (`tcp_relay`).  `ClientGetsTheStream`, `RemoteGetsTheStream`: each direction
implements `FramedStream`.  `OneFrameLate`: an announcement queued at any moment waits for
one frame at most.  `CountedWhileItLasts`: a session is counted and listed while its copiers run,
although both are started and ended in several steps.  `SessionEnds`.

**Lobby** (`lobby_sessions`).  `CountsAreTrue`: the `sent` of an announce answer is the number of
channels that took the frame.  `WelcomesAreEarned`, `WelcomeArrives`: a welcome reaches
its address only, and does reach it if its session stays and its channel has room.

**Players** (`player_binding`).  An upsert replaces the first entry that has the account or the
address of the player, and only that (`udp_player.go:17-23`).  `OneEntryAPlayer` says for whom this is enough:
no tunnel lists an account twice, unless an address it came from served another account or none;
nor an address twice, unless one of its accounts came from elsewhere.  `PlayersStayListed`: under the
same two conditions nobody who enters takes another's place.  Without them both are false of the code:
of `<(a, p1), (none, p2)>` an upsert of `(a, p2)` replaces the first and leaves `p2` listed twice.
`MapIsListed`: the map listed is the one the session had when ENTER_GAME was observed or one
its client selected before the copier read it, and a map once chosen is not lost by a selection that names
none.  `SelectionNamesCharacter`: a client that selects a character it was shown with a nick is
known by the nick remembered of it, whatever lists and infos came in between.

**Payloads** (`payload`).  `MeaningKept`: a rewritten message decodes to what the original said,
field for field and level for level, with addresses replaced whole.  It names an exception that
the code has: a chunk whose bytes form a message is taken for one, texts included, so about one
address in forty of those with a port of four digits (`1` opens a field of eight bytes, `5` one
of four) goes to the client as it came, though `src/README.md:98` says that addresses are
replaced.  `SplitTogether`: the two halves of a lobby address are replaced together, but for the port
of a leg closed under the call; if the address is refused its port stays, and its host is replaced
only by the address of a leg to it.  `RecordsKept`: records keep their tags, number and tail, a
value that outgrows its length is cut and the next record stays where it is read, and a bare
host is answered from an address anywhere in the frame.  `LeadsWhereTheFrameSaid`: tunnels are made
only for addresses the frame names, as texts with a game port, over two fields or in URLs; the search
for URLs changes nothing but URLs, each into that of the tunnel to the address it had; and the first
URL there is, if its address is not refused, is changed without fail.

### Where the code and its documentation disagree

Each has a run that TLC must find violated; `findings` in `PROJECT.json` has the
quotations.

1. `manager_fallback`: with the client range used up, a lobby tunnel is registered with
   the listener just closed, as "TCP only"; its port is dead and stays so.
2. `manager_stale_info`: a caller may be answered with port 0 and no error.
3. `tcp_relay_gone`: a client that leaves stays listed while its server is silent.
4. `lobby_sessions_reuse`: a reconnecting client gets the welcome of its old session.
5. `payload_length`: an address in a record, or a URL within a longer text, is replaced by one of
   another length, and the frame's header keeps the old length.

Seven more were met while modelling and have no run: the hello handler answers a mixed tunnel's UDP
port where the rewriter advertises its TCP port (`HelloPort`, `ClientAdvertisedPort`); datagrams
that are read and not relayed do not count as activity; in maintenance the answer has the
proxy's IP with the upstream's port (`proxy.go:188`); and where `manager.go:788` says that the client
combines the two fields of a split address, a refused one whose host has another leg leaves the
server's port in one and puts the proxy's address and that leg's port, in one text, into the other
(the refused case of `SplitTogether`); a caller may be given the port of a leg just closed (the exception of
`AnsweredLegIsOwn`); the map listed may be one selected after ENTER_GAME, since it is read after the
tunnel is made (`udp_player.go:80`), where `README.md:112` says that it is the one chosen before; and a player
may be listed twice, although the bindings are there for deduplication on upsert (`manager.go:53`), when
an address served several accounts (the conditions of `OneEntryAPlayer`).

## 5. What is proved

`TunnelManagerProofs` proves, for every value of the constants that satisfies the
assumptions of `TunnelManager` (ports are positive numbers, some key exists, nil is
no tunnel), the type invariant, `NoSocketLeak`, `LegConsistent`, `AnsweredLegIsOwn`,
`LobbyOutlivesTheLeg` and `ImplementsDirectory`.  `NoSocketLeak` and `LegConsistent` are not
inductive by themselves: closing a leg releases the ports of a tunnel, which are all it has only if
whoever owns a port is the tunnel that reports it, and a leg is whole when the lock is free only because
a cut one is among those its closer still has to close.  `IInv` joins `TypeOK`, `LegsInPlace` (who has a
leg is registered under its key), `UDPPortsOwned`, `TCPPortsOwned` and `OpenLegs` (the port map and the
objects agree), `ListenersHavePorts`, `RegisteredHaveSockets` and `OneCloser` (the reaper and `Close`
exclude each other, and cut legs are `due`).  `InitIInv` and `StepIInv` (one step per action, over
lemmas for the shapes of change: an object registered, sockets closed, a leg forgotten) make it an
invariant.  The action properties and the refinement follow from it step by step; `AnsweredLegIsOwn`
from `OneCloser`, which says of a cut leg that nobody has its port.

`UdpRelayProofs` proves every safety property of one leg, for any clients, server
addresses, timeout and tick: the type invariant, `NoEcho`, `WritesToKnownClients`,
`SessionsAreClients`, `ClosedInTime` and `ClosedOnlyWhenQuiet`.  It assumes that the set of
peers is finite, that clients and server addresses are disjoint, and that timeout and tick
are positive.  `NoEcho` needs to know whom the client loop holds (`SenderKnown`: told apart
before it is registered or sent on); `SessionsAreClients` needs `NoEcho` (throwing server
addresses out of the map changes nothing, so the map grows by the sender alone) and that
the leg is gone before its counters are reset (`LegGoneFirst`).  `ClosedInTime` needs
`IdleSinceTick`: a leg not closed at a tick was younger than the timeout then, and has aged
by as much as the reaper's clock since.  `ClosedOnlyWhenQuiet` needs `IdleNotOverstated`:
outside a write and its mark the recorded idle time is never longer than the true one.

`PlayerBindingProofs` proves every property of `player_binding`, for any sessions, addresses,
accounts, characters, nicks, maps and game servers and any number of frames, from the assumptions that
the empty string names nothing and that nil is no tunnel.  `OneEntryAPlayer` and `PlayersStayListed` are
proved together, as promises about a list and the record of whom the tunnel was given
(`Recorded`, `Once`, `Staying`): `UpsertedKeeps` says that an upsert keeps all three.  It rests on
`MatchedIsOwn` (an entry that an upsert may replace is the player's own as far as the conditions say
so) and `Narrower` (a longer record fulfils the conditions for nobody new, so a promise once void
stays void); that the list's entries are in the record (`ListedWereBound`) is what the conditions can
be applied to.  `ListsStep` then has three cases for each object: left alone, cleared, added to.
`SelectionNamesCharacter` needs `NicksComeFirst`: the list frame is
observed before it is written, so a character a client was shown has its nick remembered, and none is
ever forgotten (`NicksStep`).  `MapIsListed` needs `MapKnown`: until it is read, the map of the session is
one of those it may be listed with.

`TcpRelayProofs` proves every safety property of a TCP session, both refinements of
`FramedStream` included, for any channel capacity, any frames and announcements and any choice of
odd ones.  `OneFrameLate` rests on the numbering of announcements
(`QueueInOrder`); `ClientGetsTheStream` needs `FramedSoFar` (the copier drains its channel only
while all it has read were frames), and `CountedWhileItLasts` needs `Listed` (from where to where a session is) and `NotStarted` (a dial that fails
has copied nothing).

`LobbySessionsProofs` proves `CountsAreTrue` and `WelcomesAreEarned` for any
finite set of sessions, any tunnels, addresses and requests and any capacity.  `CountsAreTrue`
speaks of broadcasts that are over; `CountedSoFar` says what one under way has counted: the
sessions served and those still listed are disjoint, and of tunnels that will not be visited
again.  `WelcomesTracked` says where a welcome is, with its timer or at one session, and that what
was looked up had the address of the session that entered.

`ProxyServerProofs` proves, for any timeouts in the order the code gives them (the context's
below the server's and `Shutdown`'s), `ServerTypeOK`, `NobodyCutOff` and `AnsweredInTime`.  Every step
of the server is a step of the manager or leaves it alone (the lemma `ManagerUsed`), so the manager's
type invariant holds in the server and ties a request to its caller, and what is promised of the
registry holds in the process, for requests that come after `Close` too (`RegistryInTheServer`).  `SInv` adds how old a request can be where (`RequestsInTime`) and
that nobody is in before the server listens.

`WireFormatProofs` and `PayloadRewriteProofs` prove every invariant of `payload`, `TypeOK`,
`MeaningKept`, `SplitTogether`, `RecordsKept` and `LeadsWhereTheFrameSaid`, for any bytes, any nesting
up to any depth, any registry, refusals, closed legs and orders of a range, within these assumptions.

* *Assumptions.*  `WidthsAssumption`: a byte's half has at least two values.  `PortsAssumption`:
  tunnels of the game range and no others have a UDP leg only, the leg's port fits a varint, and a
  range over the map meets last one of the tunnels it is over; a host may have any number of legs.
  `TextsAssumption` is about alphabets: ports are written in at most `MaxDigits` digits, hosts
  without colon, slash or zero, two hosts or two ports are never written alike, no host begins with
  the letter that `http://` begins with, and a slash is part of a path.  One port's text may begin
  another's.  What is excluded are texts of one address in two spellings, such as `08` for 8.
  `BodiesAssumption`: what a body can grow to fits the longest varint (the code's 64 bits against
  frames of at most two megabytes, `manager.go:702`), and the host of a split address, as a text
  of digits and dots, holds no field with content of its own.  TLC evaluates all of them on the
  run's constants.
* *The invariant.*  A frame is dealt with in one step, so `IInv` is short: types, and that what
  is about to be written is what the rewriting makes of the frame read and the registry it found.
  It is inductive because the reaper takes no tunnel of a frame in hand, only its leg, and that
  before the rewriting (`NextIInv`); everything else is about the functions.
* *Induction over bytes.*  The functions recurse on what is left of a sequence, and on the
  depth.  The library's induction theorems take an operator, which the provers cannot
  instantiate; stated with a set instead (`LessIsWellFounded`, `LeastNumber`) induction is
  a fact about the least counterexample, and the definition of a recursive function by a measure
  (`MeasuredRecursion`) is proved once.  Lemmas that end in `Def` then give each function its
  defining equation and its type.
* *Reading back.*  What is written must be read as what it was written for: `VarintValue` for
  numbers, `RecordRoundTrip` for records, `FieldOfParts` for fields, whatever follows them.
  A length must fit its varint before and after: a message becomes at most `Growth` times as long,
  counted field by field and level by level, and `BodiesAssumption` leaves room for that.
* *The registry within a frame.*  A chunk is rewritten with the registry at its turn, and
  `MeaningKept` speaks of the one the frame found and of the last.  `Later` orders the registries
  a frame goes through (tunnels are only added), and `Substitutes` only widens along it.  A host
  on its own must be answered when the registry had it to begin with, or, in records, when any
  record names it: `Ahead` has then been through all of them, which is why `RecordsKept` fails
  when `precreateTunnelsFromTLVPayload` is left out.
* *The split address.*  `SplitTogether` follows the last field 1 and the last field 2 through the
  walk: they stay the last of their kind, as tags are kept, and one context decides for
  both.  A refused address has its host looked at as any other chunk: what it becomes is a leg to
  the same host, as the port is not part of a bare host, or the host itself, if the registry had no
  leg to it or the bytes of the host are a message, whose fields are then empty and stay.
* *Where tunnels come from.*  Every function of the walk and of the search names what it makes
  tunnels for: `WalkNames`, `AheadNames`, `TLVsName`, `FieldNames`, `ChunkNames` and `SearchNames`
  each say that an address the function adds has its text in the function's own bytes.  `NamedWithin`
  carries that outward, from chunk to field to message to frame, by `OccursAt` and `OccursWithin` (a
  piece of a sequence occurs where the sequence has it).  The one exception is the split address, which is
  no text anywhere, and is named by its two fields.
* *What the search for URLs may change.*  `URLsProxied` relates the bytes before to the bytes after
  one byte or one URL at a time, and says nothing of how the search goes: not where it looks, nor
  in what order.  `SearchProxies` follows the search byte by byte; what it copies, the paths
  of URLs included, is related to itself (`Copied`), and each replacement is that of a tunnel
  the registry has in the end (`Later` again).  `FirstURLReplaced` is the other half, that the search
  does not do nothing: up to the first URL it copies, and there it must replace.  `URLsProxied`
  recurses on tails and on what is behind a URL at once, for which `LocalRecursion` proves recursion on
  any smaller arguments.

Two statements had to change for these proofs.  With several legs to a host, "both halves of a split
address or neither" is false, as the refused case shows; `SplitTogether` now says what each half
is then.  And that every address of the proxy in the frame leads to a host the frame named is false
for bytes in general, as two texts put side by side may spell an address that nobody wrote (a port
put in before a digit is another port); `LeadsWhereTheFrameSaid` now speaks of what is made and of
what is changed, not of what the result happens to spell.

Model-checked only: liveness (`IdleLegReaped`, `HelloAnswered`, `ServerStops`, `GoroutinesEnd`,
`SessionEnds`, `WelcomeArrives`), which is out of the prover's reach, and the five disagreements of
section 4.  Every safety property of a passing run is proved.

## 6. Not modelled

* *Frame codec* (`src/internal/protocol`): the parsing and formatting of single frames.  `TcpRelay`
  and `PlayerBinding` have what it does to streams and identities.
* *Listings* (`/api/tunnels`, `/api/sessions`): copies of the state formatted as JSON.
* *Configuration*: read once; what it checks of the ranges is `RangesAssumption`.
* *Share*, logger, version, models: one request at start-up, and plain types.
* *Generated protobuf code* (`src/internal/pb`), with its schemas and scripts: some 56 000 of the
  repository's 60 000 lines of Go.  It keeps no state of the proxy's; what the proxy asks of it is
  which fields a frame has.
* Traffic counters and timestamps other than the idle clock, everywhere.
* *Lock order.*  `mu` comes before `tcpClientsMu`, that before `identityMu`, and `mu` before
  `udpPlayersMu`; no function that holds a later one calls one that takes an earlier one, and nothing
  blocks on a socket or a channel under any of them.  The order is fixed in the text of each
  function, so a model of it would only repeat the reading.
