------------------------------ MODULE TcpRelay ------------------------------
(***************************************************************************)
(* One TCP session of a tunnel: the goroutine serveTCP starts for an       *)
(* accepted connection, its two copiers, and the queue of injected frames  *)
(* (src/internal/tunnels/manager.go and tcp_broadcast.go).                 *)
(*                                                                          *)
(* A frame is its number in its direction.  A frame of Odd has a length     *)
(* prefix outside 4 bytes .. 2 MiB: from it on the copier relays bytes.     *)
(* Payload rewriting does not change which frames there are.  The peers     *)
(* send and close when they like; a close may take unread frames with it.   *)
(***************************************************************************)
EXTENDS Naturals, Sequences

CONSTANTS
    tcpInjectQueueSize,     \* capacity of the inject channel
    OddFromRemote, OddFromClient,   \* frames with no frame length
    MaxFrames,              \* bound: frames each peer sends
    MaxAnnounces            \* bound: announcements queued

ASSUME BoundsAssumption == {tcpInjectQueueSize, MaxFrames, MaxAnnounces} \subseteq Nat

VARIABLES
    TCPPayloadRewrite,    \* of the configuration: never changes
    session,      \* "accepted", "counted", "dialing", "relaying", "leaving" (its
                  \* deferred calls begin), "left" (the map) or "ended"
    registered,   \* the session is in tunnel.tcpClients
    activeTCP,    \* its share of activeTCPConnections
    clientOpen, remoteOpen,   \* the peers have not closed their ends
    remoteSent, clientSent,   \* frames each peer has sent
    remoteRead, clientRead,   \* frames each copier has read
    rpc, cpc,     \* remote->client and client->remote copier
    inject,       \* sess.inject
    announced,    \* announcements queued so far
    drained,      \* history: how many had been queued when the last draining ended
    toClient, toRemote        \* what the copiers have written

peers == <<clientOpen, remoteOpen, remoteSent, clientSent>>
r2c == <<remoteRead, rpc, toClient>>
c2r == <<clientRead, cpc, toRemote>>
life == <<TCPPayloadRewrite, session, registered, activeTCP>>
queue == <<inject, announced, drained>>
vars == <<life, peers, r2c, c2r, queue>>

Init ==
    /\ TCPPayloadRewrite \in BOOLEAN
    /\ session = "accepted" /\ registered = FALSE /\ activeTCP = 0
    /\ clientOpen = TRUE /\ remoteOpen = TRUE
    /\ remoteSent = 0 /\ clientSent = 0 /\ remoteRead = 0 /\ clientRead = 0
    /\ rpc = "off" /\ cpc = "off"
    /\ inject = <<>> /\ announced = 0 /\ drained = 0
    /\ toClient = <<>> /\ toRemote = <<>>

(***************************************************************************)
(* The peers                                                               *)
(***************************************************************************)
RemoteSends ==
    /\ session = "relaying" /\ remoteOpen /\ remoteSent < MaxFrames
    /\ remoteSent' = remoteSent + 1
    /\ UNCHANGED <<life, clientOpen, remoteOpen, clientSent, r2c, c2r, queue>>

ClientSends ==
    /\ session # "ended" /\ clientOpen /\ clientSent < MaxFrames
    /\ clientSent' = clientSent + 1
    /\ UNCHANGED <<life, clientOpen, remoteOpen, remoteSent, r2c, c2r, queue>>

RemoteCloses ==
    /\ session = "relaying" /\ remoteOpen
    /\ remoteOpen' = FALSE
    /\ UNCHANGED <<life, clientOpen, remoteSent, clientSent, r2c, c2r, queue>>

ClientCloses ==
    /\ session # "ended" /\ clientOpen
    /\ clientOpen' = FALSE
    /\ UNCHANGED <<life, remoteOpen, remoteSent, clientSent, r2c, c2r, queue>>

(***************************************************************************)
(* The session goroutine of serveTCP                                       *)
(***************************************************************************)
\* Mutant: the connection is not counted.
CountNothing ==
    /\ session = "accepted"
    /\ session' = "counted"
    /\ UNCHANGED <<TCPPayloadRewrite, registered, activeTCP, peers, r2c, c2r, queue>>

CountConnection ==
    /\ session = "accepted"
    /\ session' = "counted"
    /\ activeTCP' = activeTCP + 1
    /\ UNCHANGED <<TCPPayloadRewrite, registered, peers, r2c, c2r, queue>>

registerTCPClient ==
    /\ session = "counted"
    /\ session' = "dialing"
    /\ registered' = TRUE
    /\ UNCHANGED <<TCPPayloadRewrite, activeTCP, peers, r2c, c2r, queue>>

Dialed ==
    /\ session = "dialing"
    /\ session' = "relaying"
    /\ rpc' = IF TCPPayloadRewrite THEN "drain" ELSE "rawRead"
    /\ cpc' = IF TCPPayloadRewrite THEN "read" ELSE "rawRead"
    /\ UNCHANGED <<TCPPayloadRewrite, registered, activeTCP, peers, remoteRead, toClient, clientRead, toRemote,
                   queue>>

\* An error, or no answer for ten seconds.
DialFails ==
    /\ session = "dialing"
    /\ session' = "leaving"
    /\ UNCHANGED <<TCPPayloadRewrite, registered, activeTCP, peers, r2c, c2r, queue>>

Stopped == {"done", "failed"}

\* Mutant: a copier that failed has not called wg.Done.
WaitDoneForClean == session = "relaying" /\ rpc = "done" /\ cpc = "done"

WaitDone == session = "relaying" /\ rpc \in Stopped /\ cpc \in Stopped

\* wg.Wait has returned, and the upstream connection is closed.
CopiersDone ==
    /\ WaitDone
    /\ session' = "leaving"
    /\ UNCHANGED <<TCPPayloadRewrite, registered, activeTCP, peers, r2c, c2r, queue>>

\* Mutant: the session is left in the map.
KeepTCPClient ==
    /\ session = "leaving"
    /\ session' = "left"
    /\ UNCHANGED <<TCPPayloadRewrite, registered, activeTCP, peers, r2c, c2r, queue>>

unregisterTCPClient ==
    /\ session = "leaving"
    /\ session' = "left"
    /\ registered' = FALSE
    /\ UNCHANGED <<TCPPayloadRewrite, activeTCP, peers, r2c, c2r, queue>>

\* The connection counts no more, and is closed.
EndSession ==
    /\ session = "left"
    /\ session' = "ended"
    /\ activeTCP' = activeTCP - 1
    /\ UNCHANGED <<TCPPayloadRewrite, registered, peers, r2c, c2r, queue>>

(***************************************************************************)
(* copyTCPRemoteToClientFramed; io.Copy is its transparent part            *)
(***************************************************************************)
\* drainInjectedFrames takes all there is before the next frame is read; a
\* frame whose write fails is lost, and the draining goes on.
DrainOne ==
    /\ rpc = "drain" /\ inject # <<>>
    /\ inject' = Tail(inject)
    /\ \/ toClient' = Append(toClient, <<"announce", Head(inject)>>)
       \/ ~clientOpen /\ UNCHANGED toClient
    /\ UNCHANGED <<life, peers, remoteRead, rpc, c2r, announced, drained>>

\* Mutant: one announcement at most between two frames.
DrainedSoon ==
    /\ rpc = "drain"
    /\ rpc' = "read"
    /\ drained' = announced
    /\ UNCHANGED <<life, peers, remoteRead, toClient, c2r, inject, announced>>

Drained ==
    /\ rpc = "drain" /\ inject = <<>>
    /\ rpc' = "read"
    /\ drained' = announced
    /\ UNCHANGED <<life, peers, remoteRead, toClient, c2r, inject, announced>>

\* Mutant: frames again after a stretch of bytes.
AfterReadResume(mode, i, odd) == IF i \in odd THEN "rawWrite" ELSE "write"

\* After a prefix that is no frame length the copier never returns to frames.
AfterRead(mode, i, odd) == IF mode = "rawRead" \/ i \in odd THEN "rawWrite" ELSE "write"

ReadRemote ==
    /\ rpc \in {"read", "rawRead"} /\ remoteRead < remoteSent
    /\ remoteRead' = remoteRead + 1
    /\ rpc' = AfterRead(rpc, remoteRead + 1, OddFromRemote)
    /\ UNCHANGED <<life, peers, toClient, c2r, queue>>

WriteClient ==
    /\ rpc \in {"write", "rawWrite"}
    /\ \/ /\ toClient' = Append(toClient, <<"frame", remoteRead>>)
          /\ rpc' = IF rpc = "write" THEN "drain" ELSE "rawRead"
       \/ /\ ~clientOpen
          /\ rpc' = "failed"
          /\ UNCHANGED toClient
    /\ UNCHANGED <<life, peers, remoteRead, c2r, queue>>

\* A copier returns at the end of its stream, as it does after a failed write;
\* nothing is closed before the other returns too.
RemoteToClientEnds ==
    /\ rpc \in {"read", "rawRead"} /\ ~remoteOpen
    /\ rpc' = "done"
    /\ UNCHANGED <<life, peers, remoteRead, toClient, c2r, queue>>

(***************************************************************************)
(* copyTCPClientToRemoteFramed                                             *)
(***************************************************************************)
ReadClient ==
    /\ cpc \in {"read", "rawRead"} /\ clientRead < clientSent
    /\ clientRead' = clientRead + 1
    /\ cpc' = AfterRead(cpc, clientRead + 1, OddFromClient)
    /\ UNCHANGED <<life, peers, r2c, toRemote, queue>>

\* Mutant: the prefix that is no frame length is lost with what it belongs to.
WriteRemoteFramesOnly ==
    /\ cpc \in {"write", "rawWrite"}
    /\ toRemote' = IF cpc = "write" THEN Append(toRemote, <<"frame", clientRead>>) ELSE toRemote
    /\ cpc' = IF cpc = "write" THEN "read" ELSE "rawRead"
    /\ UNCHANGED <<life, peers, r2c, clientRead, queue>>

WriteRemote ==
    /\ cpc \in {"write", "rawWrite"}
    /\ \/ /\ toRemote' = Append(toRemote, <<"frame", clientRead>>)
          /\ cpc' = IF cpc = "write" THEN "read" ELSE "rawRead"
       \/ /\ ~remoteOpen
          /\ cpc' = "failed"
          /\ UNCHANGED toRemote
    /\ UNCHANGED <<life, peers, r2c, clientRead, queue>>

ClientToRemoteEnds ==
    /\ cpc \in {"read", "rawRead"} /\ ~clientOpen
    /\ cpc' = "done"
    /\ UNCHANGED <<life, peers, r2c, clientRead, toRemote, queue>>

(***************************************************************************)
(* Announcements                                                           *)
(***************************************************************************)
HasRoom == Len(inject) < tcpInjectQueueSize

\* broadcastAnnounce, broadcastTCP and queueAnnounceToSession put a frame in
\* the channel of a registered session; a full channel refuses it.  They found
\* the session in the map a moment ago: it may have ended since.
QueueAnnounce ==
    /\ session \notin {"accepted", "counted"}
    /\ announced < MaxAnnounces
    /\ HasRoom
    /\ announced' = announced + 1
    /\ inject' = Append(inject, announced + 1)
    /\ UNCHANGED <<life, peers, r2c, c2r, drained>>

Peer == RemoteSends \/ ClientSends \/ RemoteCloses \/ ClientCloses
Session == \/ CountConnection \/ registerTCPClient \/ Dialed
           \/ DialFails \/ CopiersDone \/ unregisterTCPClient \/ EndSession
RemoteToClient == DrainOne \/ Drained \/ ReadRemote \/ WriteClient \/ RemoteToClientEnds
ClientToRemote == ReadClient \/ WriteRemote \/ ClientToRemoteEnds

Next == Peer \/ Session \/ RemoteToClient \/ ClientToRemote \/ QueueAnnounce

Spec == Init /\ [][Next]_vars

\* The goroutines run when they can; the peers owe nothing.
FairSpec == /\ Spec
            /\ WF_vars(Session)
            /\ WF_vars(RemoteToClient)
            /\ WF_vars(ClientToRemote)

(***************************************************************************)
(* Properties                                                              *)
(***************************************************************************)
\* The types of the variables.
TypeOK ==
    /\ session \in {"accepted", "counted", "dialing", "relaying", "leaving", "left", "ended"}
    /\ TCPPayloadRewrite \in BOOLEAN
    /\ registered \in BOOLEAN /\ activeTCP \in Nat
    /\ clientOpen \in BOOLEAN /\ remoteOpen \in BOOLEAN
    /\ remoteSent \in Nat /\ clientSent \in Nat
    /\ remoteRead \in Nat /\ remoteRead <= remoteSent
    /\ clientRead \in Nat /\ clientRead <= clientSent
    /\ rpc \in {"off", "drain", "read", "write", "rawRead", "rawWrite", "failed", "done"}
    /\ cpc \in {"off", "read", "write", "rawRead", "rawWrite", "failed", "done"}
    /\ inject \in Seq(Nat) /\ announced \in Nat /\ drained \in Nat

\* A session that is in the map counts among the active connections, and one that
\* has ended, however it ended, does not; while a copier of it runs it is in the
\* map, so that a broadcast misses nobody whose stream is still relayed.
CountedWhileItLasts ==
    /\ registered => activeTCP = 1
    /\ activeTCP = IF session \in {"accepted", "ended"} THEN 0 ELSE 1
    /\ ~registered => rpc \in {"off"} \cup Stopped /\ cpc \in {"off"} \cup Stopped

\* An announcement waits for one frame of the server at most: while a frame is
\* awaited or written, none is waiting that was queued before the copier began
\* to wait.
OneFrameLate ==
    rpc \in {"read", "write"} => \A j \in 1 .. Len(inject) : inject[j] > drained

\* A copier holds the frame it has read until the write succeeds.
Forwarded(state, read) == IF state \in {"write", "rawWrite", "failed"} THEN read - 1 ELSE read

ToClient == INSTANCE FramedStream WITH
    Odd <- OddFromRemote, Own <- 1 .. MaxAnnounces, sent <- remoteSent, forwarded <- Forwarded(rpc, remoteRead),
    pending <- inject, out <- toClient

ToRemote == INSTANCE FramedStream WITH
    Odd <- OddFromClient, Own <- {}, sent <- clientSent, forwarded <- Forwarded(cpc, clientRead),
    pending <- <<>>, out <- toRemote

\* The client gets every frame of the server once, in order and whole, and
\* announcements only between frames of a stream that is framed: an injected
\* frame never lands inside a transparent byte stream or a frame.
ClientGetsTheStream == ToClient!Spec

\* The server gets what the client sends and nothing else.
RemoteGetsTheStream == ToRemote!Spec

\* When both peers have closed, the session ends and is taken off the list.
SessionEnds == (~clientOpen /\ ~remoteOpen) ~> session = "ended"

\* tcp_broadcast.go:73: unregisterTCPClient "removes the TCP session when the
\* client disconnects".
GoneClientsAreUnregistered == ~clientOpen ~> ~registered
=============================================================================
