--------------------------- MODULE TcpRelayProofs ---------------------------
(***************************************************************************)
(* Theorems about TcpRelay, for every queue capacity, every choice of odd   *)
(* frames and any number of frames and announcements.  The inductive        *)
(* invariant adds what orders the announcements and what a framed stream    *)
(* has read so far; the two refinements follow from it step by step.        *)
(***************************************************************************)
EXTENDS TcpRelay, TLAPS

Written == {"frame", "announce"} \X Nat

\* The queue holds numbers; what the copiers write are frames and announcements.
Streams ==
    /\ inject \in Seq(Nat)
    /\ toClient \in Seq(Written) /\ toRemote \in Seq(Written)

\* The types, by kind.
Flags ==
    /\ TCPPayloadRewrite \in BOOLEAN /\ registered \in BOOLEAN
    /\ clientOpen \in BOOLEAN /\ remoteOpen \in BOOLEAN

States ==
    /\ session \in {"accepted", "counted", "dialing", "relaying", "leaving", "left", "ended"}
    /\ rpc \in {"off", "drain", "read", "write", "rawRead", "rawWrite", "failed", "done"}
    /\ cpc \in {"off", "read", "write", "rawRead", "rawWrite", "failed", "done"}

Counters ==
    /\ activeTCP \in Nat /\ announced \in Nat /\ drained \in Nat
    /\ remoteSent \in Nat /\ clientSent \in Nat
    /\ remoteRead \in Nat /\ remoteRead <= remoteSent
    /\ clientRead \in Nat /\ clientRead <= clientSent

\* The whole type of the state; it implies TypeOK.
Types == Flags /\ States /\ Counters /\ Streams

\* Nothing is copied before the upstream connection is there.
NotStarted ==
    session \in {"accepted", "counted", "dialing"} => rpc = "off" /\ cpc = "off" /\ remoteRead = 0

\* The session is in the map from registerTCPClient to unregisterTCPClient, and
\* its copiers have stopped before that.
Listed ==
    /\ registered <=> session \in {"dialing", "relaying", "leaving"}
    /\ session = "leaving" => rpc \in {"off"} \cup Stopped /\ cpc \in {"off"} \cup Stopped

\* Announcements are numbered in the order in which they were queued.
QueueInOrder ==
    /\ drained <= announced
    /\ \A j \in 1 .. Len(inject) : inject[j] <= announced
    /\ \A i, j \in 1 .. Len(inject) : i < j => inject[i] < inject[j]
    /\ \A i \in 1 .. Len(toClient) : toClient[i][1] = "announce" => toClient[i][2] <= announced

\* The copier drains the queue only while every frame it has read was one.
FramedSoFar ==
    rpc \in {"drain", "read", "write"} => \A i \in 1 .. remoteRead : i \notin OddFromRemote

\* CountedWhileItLasts needs Listed, and that NotStarted for a dial that fails;
\* OneFrameLate needs the numbering, ClientGetsTheStream what has been read.
IInv == Types /\ NotStarted /\ Listed /\ CountedWhileItLasts
               /\ QueueInOrder /\ OneFrameLate /\ FramedSoFar

-----------------------------------------------------------------------------
\* A sequence of naturals, its first element and the rest.
LEMMA TailOf ==
    ASSUME NEW q \in Seq(Nat), q # <<>>
    PROVE  /\ Tail(q) \in Seq(Nat) /\ Head(q) = q[1] /\ q[1] \in Nat
           /\ Len(q) \in Nat /\ Len(q) >= 1 /\ Len(Tail(q)) = Len(q) - 1
           /\ \A j \in 1 .. Len(Tail(q)) : Tail(q)[j] = q[j + 1]
           /\ \A j \in 1 .. Len(q) : q[j] \in Nat
OBVIOUS

\* What is appended comes last, and nothing else changes.
LEMMA AppendOf ==
    ASSUME NEW S, NEW q \in Seq(S), NEW x \in S
    PROVE  /\ Append(q, x) \in Seq(S)
           /\ Len(q) \in Nat /\ Len(Append(q, x)) = Len(q) + 1
           /\ \A j \in 1 .. Len(q) : Append(q, x)[j] = q[j]
           /\ Append(q, x)[Len(q) + 1] = x
OBVIOUS

\* The initial state satisfies the invariant.
LEMMA InitIInv == Init => IInv
<1> SUFFICES ASSUME Init PROVE IInv
    OBVIOUS
<1>1. Types
    <2>1. Flags
        BY DEF Init, Flags
    <2>2. States
        BY DEF Init, States
    <2>3. Counters
        BY DEF Init, Counters
    <2>4. Streams
        BY DEF Init, Streams
    <2> QED
        BY <2>1, <2>2, <2>3, <2>4 DEF Types
<1>2. NotStarted /\ Listed /\ CountedWhileItLasts /\ FramedSoFar
    BY DEF Init, NotStarted, Listed, CountedWhileItLasts, FramedSoFar
<1>3. QueueInOrder /\ OneFrameLate
    BY DEF Init, QueueInOrder, OneFrameLate
<1> QED
    BY <1>1, <1>2, <1>3 DEF IInv

\* The flags are kept boolean.
LEMMA FlagsStep == Flags /\ [Next]_vars => Flags'
<1> SUFFICES ASSUME Flags, [Next]_vars PROVE Flags'
    OBVIOUS
<1> USE DEF Flags, life, peers
<1>1. CASE Peer
    BY <1>1 DEF Peer, RemoteSends, ClientSends, RemoteCloses, ClientCloses
<1>2. CASE Session
    <2>1. TCPPayloadRewrite' = TCPPayloadRewrite /\ UNCHANGED peers
        BY <1>2 DEF Session, CountConnection, registerTCPClient, Dialed, DialFails, CopiersDone,
            unregisterTCPClient, EndSession
    <2>2. registered' = TRUE \/ registered' = FALSE \/ registered' = registered
        BY <1>2 DEF Session, CountConnection, registerTCPClient, Dialed, DialFails, CopiersDone,
            unregisterTCPClient, EndSession
    <2> QED
        BY <2>1, <2>2
<1>3. CASE RemoteToClient
    BY <1>3 DEF RemoteToClient, DrainOne, Drained, ReadRemote, WriteClient, RemoteToClientEnds
<1>4. CASE ClientToRemote
    BY <1>4 DEF ClientToRemote, ReadClient, WriteRemote, ClientToRemoteEnds
<1>5. CASE QueueAnnounce
    BY <1>5 DEF QueueAnnounce
<1>6. CASE UNCHANGED vars
    BY <1>6 DEF vars
<1> QED
    BY <1>1, <1>2, <1>3, <1>4, <1>5, <1>6 DEF Next

\* So are the states of the session and of its copiers.
LEMMA StatesStep == States /\ [Next]_vars => States'
<1> SUFFICES ASSUME States, [Next]_vars PROVE States'
    OBVIOUS
<1> USE DEF States, life, r2c, c2r
<1>1. CASE Peer
    BY <1>1 DEF Peer, RemoteSends, ClientSends, RemoteCloses, ClientCloses
<1>2. CASE Session
    BY <1>2 DEF Session, CountConnection, registerTCPClient, Dialed, DialFails, CopiersDone,
            unregisterTCPClient, EndSession
<1>3. CASE RemoteToClient
    BY <1>3 DEF RemoteToClient, DrainOne, Drained, ReadRemote, WriteClient, RemoteToClientEnds, AfterRead
<1>4. CASE ClientToRemote
    BY <1>4 DEF ClientToRemote, ReadClient, WriteRemote, ClientToRemoteEnds, AfterRead
<1>5. CASE QueueAnnounce
    BY <1>5 DEF QueueAnnounce
<1>6. CASE UNCHANGED vars
    BY <1>6 DEF vars
<1> QED
    BY <1>1, <1>2, <1>3, <1>4, <1>5, <1>6 DEF Next

\* A session that ends was counted, so the count does not fall below zero; a
\* copier reads no more than was sent.
LEMMA CountersStep == Counters /\ CountedWhileItLasts /\ [Next]_vars => Counters'
<1> SUFFICES ASSUME Counters, CountedWhileItLasts, [Next]_vars PROVE Counters'
    OBVIOUS
<1> USE DEF Counters, life, peers, r2c, c2r, queue
<1>1. CASE Peer
    BY <1>1 DEF Peer, RemoteSends, ClientSends, RemoteCloses, ClientCloses
<1>2. CASE Session
    <2>1. session \notin {"accepted", "ended"} => activeTCP = 1
        BY DEF CountedWhileItLasts
    <2> QED
        BY <1>2, <2>1 DEF Session, CountConnection, registerTCPClient, Dialed, DialFails, CopiersDone,
            unregisterTCPClient, EndSession, WaitDone
<1>3. CASE RemoteToClient
    BY <1>3 DEF RemoteToClient, DrainOne, Drained, ReadRemote, WriteClient, RemoteToClientEnds
<1>4. CASE ClientToRemote
    BY <1>4 DEF ClientToRemote, ReadClient, WriteRemote, ClientToRemoteEnds
<1>5. CASE QueueAnnounce
    BY <1>5 DEF QueueAnnounce
<1>6. CASE UNCHANGED vars
    BY <1>6 DEF vars
<1> QED
    BY <1>1, <1>2, <1>3, <1>4, <1>5, <1>6 DEF Next

\* The queue stays a sequence of numbers, the streams sequences of frames.
LEMMA StreamsStep ==
    ASSUME Counters, Streams, [Next]_vars PROVE Streams'
<1> USE DEF Streams, peers, r2c, c2r, queue
<1>1. CASE DrainOne
    <2>1. Tail(inject) \in Seq(Nat) /\ <<"announce", Head(inject)>> \in Written
        BY <1>1, TailOf DEF DrainOne, Written
    <2>2. Append(toClient, <<"announce", Head(inject)>>) \in Seq(Written)
        BY <2>1, AppendOf
    <2> QED
        BY <1>1, <2>1, <2>2 DEF DrainOne
<1>2. CASE WriteClient
    <2>1. <<"frame", remoteRead>> \in Written
        BY DEF Written, Counters
    <2>2. Append(toClient, <<"frame", remoteRead>>) \in Seq(Written)
        BY <2>1, AppendOf
    <2> QED
        BY <1>2, <2>2 DEF WriteClient
<1>3. CASE WriteRemote
    <2>1. <<"frame", clientRead>> \in Written
        BY DEF Written, Counters
    <2>2. Append(toRemote, <<"frame", clientRead>>) \in Seq(Written)
        BY <2>1, AppendOf
    <2> QED
        BY <1>3, <2>2 DEF WriteRemote
<1>4. CASE QueueAnnounce
    <2>1. Append(inject, announced + 1) \in Seq(Nat)
        BY AppendOf DEF Counters
    <2> QED
        BY <1>4, <2>1 DEF QueueAnnounce
<1>5. CASE Peer \/ Session
    BY <1>5 DEF Peer, RemoteSends, ClientSends, RemoteCloses, ClientCloses,
                Session, CountConnection, registerTCPClient, Dialed, DialFails, CopiersDone,
            unregisterTCPClient, EndSession
<1>6. CASE Drained \/ ReadRemote \/ RemoteToClientEnds \/ ReadClient \/ ClientToRemoteEnds
    BY <1>6 DEF Drained, ReadRemote, RemoteToClientEnds, ReadClient, ClientToRemoteEnds
<1>7. CASE UNCHANGED vars
    BY <1>7 DEF vars
<1> QED
    BY <1>1, <1>2, <1>3, <1>4, <1>5, <1>6, <1>7 DEF Next, RemoteToClient, ClientToRemote

\* Nothing is copied, and nothing read, before the session relays.
LEMMA NotStartedStep == NotStarted /\ [Next]_vars => NotStarted'
<1> SUFFICES ASSUME NotStarted, [Next]_vars PROVE NotStarted'
    OBVIOUS
<1> USE DEF NotStarted, life, r2c, c2r
<1>1. CASE Peer
    BY <1>1 DEF Peer, RemoteSends, ClientSends, RemoteCloses, ClientCloses
<1>2. CASE Session
    BY <1>2 DEF Session, CountConnection, registerTCPClient, Dialed, DialFails, CopiersDone,
            unregisterTCPClient, EndSession
<1>3. CASE RemoteToClient
    BY <1>3 DEF RemoteToClient, DrainOne, Drained, ReadRemote, WriteClient, RemoteToClientEnds
<1>4. CASE ClientToRemote
    BY <1>4 DEF ClientToRemote, ReadClient, WriteRemote, ClientToRemoteEnds
<1>5. CASE QueueAnnounce
    BY <1>5 DEF QueueAnnounce
<1>6. CASE UNCHANGED vars
    BY <1>6 DEF vars
<1> QED
    BY <1>1, <1>2, <1>3, <1>4, <1>5, <1>6 DEF Next

\* A session is in the map while its copiers run, and counts while it is in the
\* map.
LEMMA CountedStep ==
    ASSUME Types, NotStarted, Listed, CountedWhileItLasts, [Next]_vars
    PROVE  Listed' /\ CountedWhileItLasts'
<1> USE DEF life, r2c, c2r
<1>0. registered \in BOOLEAN
    BY DEF Types, Flags
<1>1. CASE Peer \/ QueueAnnounce \/ UNCHANGED vars
    BY <1>0, <1>1 DEF Peer, RemoteSends, ClientSends, RemoteCloses, ClientCloses, QueueAnnounce, vars,
                      Listed, CountedWhileItLasts
<1>2. CASE CountConnection \/ registerTCPClient \/ Dialed
    BY <1>0, <1>2 DEF CountConnection, registerTCPClient, Dialed, NotStarted, Listed, CountedWhileItLasts
<1>3. CASE DialFails \/ CopiersDone
    BY <1>0, <1>3 DEF DialFails, CopiersDone, WaitDone, NotStarted, Stopped, Listed, CountedWhileItLasts
<1>4. CASE unregisterTCPClient \/ EndSession
    BY <1>0, <1>4 DEF unregisterTCPClient, EndSession, Listed, CountedWhileItLasts
<1>5. CASE RemoteToClient
    BY <1>0, <1>5 DEF RemoteToClient, DrainOne, Drained, ReadRemote, WriteClient, RemoteToClientEnds,
                      Stopped, Listed, CountedWhileItLasts
<1>6. CASE ClientToRemote
    BY <1>0, <1>6 DEF ClientToRemote, ReadClient, WriteRemote, ClientToRemoteEnds, Stopped,
                      Listed, CountedWhileItLasts
<1> QED
    BY <1>1, <1>2, <1>3, <1>4, <1>5, <1>6 DEF Next, Session

\* A frame that is not odd keeps the copier in the framed stream.
LEMMA FramedStep ==
    ASSUME Types, NotStarted, FramedSoFar, [Next]_vars PROVE FramedSoFar'
<1> USE DEF life, r2c, c2r, FramedSoFar
<1>0. remoteRead \in Nat
    BY DEF Types, Counters
<1>1. CASE ReadRemote
    BY <1>0, <1>1 DEF ReadRemote, AfterRead
<1>2. CASE Dialed
    BY <1>2 DEF Dialed, NotStarted
<1>3. CASE Peer \/ QueueAnnounce \/ UNCHANGED vars
    BY <1>3 DEF Peer, RemoteSends, ClientSends, RemoteCloses, ClientCloses, QueueAnnounce, vars
<1>4. CASE CountConnection \/ registerTCPClient \/ DialFails \/ CopiersDone \/ unregisterTCPClient \/ EndSession
    BY <1>4 DEF CountConnection, registerTCPClient, DialFails, CopiersDone, unregisterTCPClient,
                EndSession
<1>5. CASE DrainOne \/ Drained \/ WriteClient \/ RemoteToClientEnds
    BY <1>5 DEF DrainOne, Drained, WriteClient, RemoteToClientEnds
<1>6. CASE ClientToRemote
    BY <1>6 DEF ClientToRemote, ReadClient, WriteRemote, ClientToRemoteEnds
<1> QED
    BY <1>1, <1>2, <1>3, <1>4, <1>5, <1>6 DEF Next, Session, RemoteToClient

\* What is queued comes after everything queued and sent before; what is sent
\* comes before everything that still waits.
LEMMA QueueStep ==
    ASSUME Types, QueueInOrder, OneFrameLate, [Next]_vars
    PROVE  QueueInOrder' /\ OneFrameLate'
<1> USE DEF r2c, c2r, queue
<1>s. inject \in Seq(Nat) /\ toClient \in Seq(Written)
    BY DEF Types, Streams
<1>0. announced \in Nat /\ drained \in Nat /\ remoteRead \in Nat
    BY DEF Types, Counters
<1>1. CASE QueueAnnounce
    <2> DEFINE q == Append(inject, announced + 1)
    <2>1. inject' = q /\ announced' = announced + 1
          /\ UNCHANGED <<drained, toClient, rpc>>
        BY <1>1 DEF QueueAnnounce
    <2>2. /\ Len(inject) \in Nat /\ Len(q) = Len(inject) + 1
          /\ \A j \in 1 .. Len(inject) : q[j] = inject[j] /\ inject[j] \in Nat
          /\ q[Len(inject) + 1] = announced + 1
        BY <1>s, <1>0, AppendOf
    <2>3. Len(toClient) \in Nat /\ \A i \in 1 .. Len(toClient) : toClient[i][2] \in Nat
        BY <1>s DEF Written
    <2> HIDE DEF q
    <2>4. \A j \in 1 .. Len(q) :
             \/ j \in 1 .. Len(inject) /\ q[j] = inject[j] /\ inject[j] \in Nat /\ inject[j] <= announced
             \/ j = Len(inject) + 1 /\ q[j] = announced + 1
        BY <2>2 DEF QueueInOrder
    <2>5. \A j \in 1 .. Len(q) : q[j] <= announced + 1
        BY <1>0, <2>4
    <2>6. \A i, j \in 1 .. Len(q) : i < j => q[i] < q[j]
        <3> SUFFICES ASSUME NEW i \in 1 .. Len(q), NEW j \in 1 .. Len(q), i < j PROVE q[i] < q[j]
            OBVIOUS
        <3>1. i \in 1 .. Len(inject) /\ q[i] = inject[i] /\ inject[i] \in Nat /\ inject[i] <= announced
            BY <2>2, <2>4
        <3> QED
            BY <1>0, <2>4, <3>1 DEF QueueInOrder
    <2>8. \A i \in 1 .. Len(toClient) : toClient[i][1] = "announce" => toClient[i][2] <= announced + 1
        BY <1>0, <2>3 DEF QueueInOrder
    <2>9. QueueInOrder'
        BY <1>0, <2>1, <2>5, <2>6, <2>8 DEF QueueInOrder
    <2>11. OneFrameLate'
        BY <1>0, <2>1, <2>4 DEF OneFrameLate, QueueInOrder
    <2> QED
        BY <2>9, <2>11
<1>2. CASE DrainOne
    <2> DEFINE q == Tail(inject)
    <2>1. inject' = q /\ rpc' = rpc /\ rpc = "drain" /\ UNCHANGED <<announced, drained>>
        BY <1>2 DEF DrainOne
    <2>2. /\ Head(inject) = inject[1] /\ inject[1] \in Nat
          /\ Len(inject) \in Nat /\ Len(inject) >= 1 /\ Len(q) = Len(inject) - 1
          /\ \A j \in 1 .. Len(q) : q[j] = inject[j + 1]
          /\ \A j \in 1 .. Len(inject) : inject[j] \in Nat
        BY <1>s, <1>2, TailOf DEF DrainOne
    <2> HIDE DEF q
    <2>3. \A j \in 1 .. Len(q) : j + 1 \in 1 .. Len(inject) /\ q[j] = inject[j + 1] /\ q[j] \in Nat
        BY <1>0, <2>2
    <2>4. \A i, j \in 1 .. Len(q) : i < j => q[i] < q[j]
        <3> SUFFICES ASSUME NEW i \in 1 .. Len(q), NEW j \in 1 .. Len(q), i < j PROVE q[i] < q[j]
            OBVIOUS
        <3>1. i + 1 \in 1 .. Len(inject) /\ j + 1 \in 1 .. Len(inject) /\ i + 1 < j + 1
            BY <2>2
        <3>2. inject[i + 1] < inject[j + 1]
            BY <3>1 DEF QueueInOrder
        <3> QED
            BY <2>3, <3>2
    <2>5. \A j \in 1 .. Len(q) : q[j] <= announced
        BY <2>3 DEF QueueInOrder
    <2>10. OneFrameLate'
        BY <2>1 DEF OneFrameLate
    <2>6. inject[1] <= announced
        BY <2>2 DEF QueueInOrder
    <2>7. CASE toClient' = toClient
        <3>1. QueueInOrder'
            BY <2>1, <2>4, <2>5, <2>7 DEF QueueInOrder
        <3> QED
            BY <2>10, <3>1
    <2>8. CASE toClient' = Append(toClient, <<"announce", inject[1]>>)
        <3>1. <<"announce", inject[1]>> \in Written
            BY <2>2 DEF Written
        <3>2. /\ Len(toClient) \in Nat /\ Len(toClient') = Len(toClient) + 1
              /\ \A i \in 1 .. Len(toClient) : toClient'[i] = toClient[i]
              /\ toClient'[Len(toClient) + 1] = <<"announce", inject[1]>>
            BY <1>0, <1>s, <2>8, <3>1, AppendOf
        <3>3. \A i \in 1 .. Len(toClient') : i \in 1 .. Len(toClient) \/ i = Len(toClient) + 1
            BY <3>2
        <3>4. QueueInOrder'
            BY <1>0, <2>1, <2>4, <2>5, <2>6, <3>2, <3>3 DEF QueueInOrder
        <3> QED
            BY <2>10, <3>4
    <2> QED
        BY <1>2, <2>2, <2>7, <2>8 DEF DrainOne
<1>3. CASE WriteClient
    <2>1. UNCHANGED <<inject, announced, drained>> /\ rpc' \notin {"read", "write"}
        BY <1>3 DEF WriteClient
    <2>2. CASE toClient' = toClient
        BY <2>1, <2>2 DEF QueueInOrder, OneFrameLate
    <2>3. CASE toClient' = Append(toClient, <<"frame", remoteRead>>)
        <3>1. <<"frame", remoteRead>> \in Written
            BY <1>0 DEF Written
        <3>2. /\ Len(toClient) \in Nat /\ Len(toClient') = Len(toClient) + 1
              /\ \A i \in 1 .. Len(toClient) : toClient'[i] = toClient[i]
              /\ toClient'[Len(toClient) + 1] = <<"frame", remoteRead>>
            BY <1>0, <1>s, <2>3, <3>1, AppendOf
        <3>3. \A i \in 1 .. Len(toClient') :
                 toClient'[i][1] = "announce" => i \in 1 .. Len(toClient) /\ toClient'[i] = toClient[i]
            BY <3>2
        <3> QED
            BY <2>1, <3>3 DEF QueueInOrder, OneFrameLate
    <2> QED
        BY <1>3, <2>2, <2>3 DEF WriteClient
<1>4. CASE Drained
    BY <1>0, <1>4 DEF Drained, QueueInOrder, OneFrameLate
<1>5. CASE ReadRemote \/ RemoteToClientEnds
    BY <1>5 DEF ReadRemote, RemoteToClientEnds, AfterRead, QueueInOrder, OneFrameLate
<1>6. CASE Peer \/ ClientToRemote \/ UNCHANGED vars
    BY <1>6 DEF Peer, RemoteSends, ClientSends, RemoteCloses, ClientCloses, ClientToRemote, ReadClient,
                WriteRemote, ClientToRemoteEnds, vars, QueueInOrder, OneFrameLate
<1>7. CASE Session
    BY <1>7 DEF Session, CountConnection, registerTCPClient, Dialed, DialFails, CopiersDone,
            unregisterTCPClient, EndSession,
                QueueInOrder, OneFrameLate
<1> QED
    BY <1>1, <1>2, <1>3, <1>4, <1>5, <1>6, <1>7 DEF Next, RemoteToClient

\* Every step keeps the invariant.
LEMMA NextIInv == IInv /\ [Next]_vars => IInv'
<1> SUFFICES ASSUME IInv, [Next]_vars PROVE IInv'
    OBVIOUS
<1>1. Types'
    BY FlagsStep, StatesStep, CountersStep, StreamsStep DEF IInv, Types
<1>2. NotStarted' /\ Listed' /\ CountedWhileItLasts' /\ FramedSoFar'
    BY NotStartedStep, CountedStep, FramedStep DEF IInv
<1>3. QueueInOrder' /\ OneFrameLate'
    BY QueueStep DEF IInv
<1> QED
    BY <1>1, <1>2, <1>3 DEF IInv

\* The invariant holds in every reachable state.
THEOREM Invariant == Spec => []IInv
<1>1. Init => IInv
    BY InitIInv
<1>2. IInv /\ [Next]_vars => IInv'
    BY NextIInv
<1> QED
    BY <1>1, <1>2, PTL DEF Spec

\* The variables of a session always have their types (TypeOK).
THEOREM TypeCorrect == Spec => []TypeOK
<1>1. IInv => TypeOK
    BY DEF IInv, Types, Flags, States, Counters, Streams, TypeOK
<1> QED
    BY <1>1, Invariant, PTL

\* A listed session counts, an ended one does not, and copiers run only while
\* their session is listed: serveTCP unregisters it after both have returned.
THEOREM SessionCounted == Spec => []CountedWhileItLasts
<1>1. IInv => CountedWhileItLasts
    BY DEF IInv
<1> QED
    BY <1>1, Invariant, PTL

\* While a frame of the server is awaited or written, no announcement waits that
\* was queued before the last draining ended.
THEOREM AnnouncementsOneFrameLate == Spec => []OneFrameLate
<1>1. IInv => OneFrameLate
    BY DEF IInv
<1> QED
    BY <1>1, Invariant, PTL

-----------------------------------------------------------------------------
\* The streams start empty.
LEMMA StreamsInit == Init => ToClient!Init /\ ToRemote!Init
BY DEF Init, ToClient!Init, ToRemote!Init, Forwarded

\* Every step of a session is a step of the stream towards its client, or none.
LEMMA ToClientStep == IInv /\ [Next]_vars => [ToClient!Next]_(ToClient!streamVars)
<1> SUFFICES ASSUME IInv, [Next]_vars PROVE [ToClient!Next]_(ToClient!streamVars)
    OBVIOUS
<1> USE DEF life, peers, r2c, c2r, queue, Forwarded
<1>0. /\ remoteRead \in Nat /\ remoteSent \in Nat /\ remoteRead <= remoteSent
      /\ announced \in Nat /\ MaxAnnounces \in Nat
    BY BoundsAssumption DEF IInv, Types, Counters
<1>1. CASE RemoteSends
    BY <1>1 DEF RemoteSends, ToClient!Next, ToClient!Send
<1>2. CASE WriteClient
    <2>1. CASE toClient' = Append(toClient, <<"frame", remoteRead>>) /\ rpc' \in {"drain", "rawRead"}
        BY <1>0, <1>2, <2>1 DEF WriteClient, ToClient!Next, ToClient!Forward
    <2>2. CASE UNCHANGED toClient /\ rpc' = "failed"
        BY <1>2, <2>2 DEF WriteClient, ToClient!streamVars
    <2> QED
        BY <1>2, <2>1, <2>2 DEF WriteClient
<1>3. CASE DrainOne
    <2>1. ToClient!Take /\ ToClient!Framed
        BY <1>0, <1>3 DEF DrainOne, ToClient!Take, ToClient!Framed, IInv, FramedSoFar
    <2> QED
        BY <1>3, <2>1 DEF DrainOne, ToClient!Next, ToClient!Inject, ToClient!Lose
<1>4. CASE QueueAnnounce
    <2>1. announced + 1 \in 1 .. MaxAnnounces
        BY <1>0, <1>4 DEF QueueAnnounce
    <2>2. ToClient!Queue(announced + 1)
        BY <1>4 DEF QueueAnnounce, ToClient!Queue
    <2> QED
        BY <2>1, <2>2 DEF ToClient!Next
<1>5. CASE Drained \/ ReadRemote \/ RemoteToClientEnds
    BY <1>0, <1>5 DEF Drained, ReadRemote, RemoteToClientEnds, AfterRead, ToClient!streamVars
<1>6. CASE ClientSends \/ RemoteCloses \/ ClientCloses \/ ClientToRemote \/ UNCHANGED vars
    BY <1>6 DEF ClientSends, RemoteCloses, ClientCloses, ClientToRemote, ReadClient, WriteRemote,
                ClientToRemoteEnds, vars, ToClient!streamVars
<1>7. CASE Dialed
    BY <1>7 DEF Dialed, IInv, NotStarted, ToClient!streamVars
<1>8. CASE CountConnection \/ registerTCPClient \/ DialFails \/ CopiersDone \/ unregisterTCPClient \/ EndSession
    BY <1>8 DEF CountConnection, registerTCPClient, DialFails, CopiersDone, unregisterTCPClient,
                EndSession, ToClient!streamVars
<1> QED
    BY <1>1, <1>2, <1>3, <1>4, <1>5, <1>6, <1>7, <1>8 DEF Next, Peer, Session, RemoteToClient

\* Every step of a session is a step of the stream towards the server, or none.
LEMMA ToRemoteStep == IInv /\ [Next]_vars => [ToRemote!Next]_(ToRemote!streamVars)
<1> SUFFICES ASSUME IInv, [Next]_vars PROVE [ToRemote!Next]_(ToRemote!streamVars)
    OBVIOUS
<1> USE DEF life, peers, r2c, c2r, queue, Forwarded
<1>0. clientRead \in Nat /\ clientSent \in Nat /\ clientRead <= clientSent
    BY DEF IInv, Types, Counters
<1>1. CASE ClientSends
    BY <1>1 DEF ClientSends, ToRemote!Next, ToRemote!Send
<1>2. CASE WriteRemote
    <2>1. CASE toRemote' = Append(toRemote, <<"frame", clientRead>>) /\ cpc' \in {"read", "rawRead"}
        BY <1>0, <1>2, <2>1 DEF WriteRemote, ToRemote!Next, ToRemote!Forward
    <2>2. CASE UNCHANGED toRemote /\ cpc' = "failed"
        BY <1>2, <2>2 DEF WriteRemote, ToRemote!streamVars
    <2> QED
        BY <1>2, <2>1, <2>2 DEF WriteRemote
<1>3. CASE ReadClient \/ ClientToRemoteEnds
    BY <1>0, <1>3 DEF ReadClient, ClientToRemoteEnds, AfterRead, ToRemote!streamVars
<1>4. CASE RemoteSends \/ RemoteCloses \/ ClientCloses \/ RemoteToClient \/ QueueAnnounce \/ UNCHANGED vars
    BY <1>4 DEF RemoteSends, RemoteCloses, ClientCloses, RemoteToClient, DrainOne, Drained, ReadRemote,
                WriteClient, RemoteToClientEnds, QueueAnnounce, vars, ToRemote!streamVars
<1>5. CASE Dialed
    BY <1>5 DEF Dialed, IInv, NotStarted, ToRemote!streamVars
<1>6. CASE CountConnection \/ registerTCPClient \/ DialFails \/ CopiersDone \/ unregisterTCPClient \/ EndSession
    BY <1>6 DEF CountConnection, registerTCPClient, DialFails, CopiersDone, unregisterTCPClient,
                EndSession, ToRemote!streamVars
<1> QED
    BY <1>1, <1>2, <1>3, <1>4, <1>5, <1>6 DEF Next, Peer, Session, ClientToRemote

\* The client gets the server's frames once, in order and whole, with
\* announcements only in a framed stream and between its frames.
THEOREM ClientStream == Spec => ClientGetsTheStream
<1>1. Init => ToClient!Init
    BY StreamsInit
<1>2. IInv /\ [Next]_vars => [ToClient!Next]_(ToClient!streamVars)
    BY ToClientStep
<1> QED
    BY <1>1, <1>2, Invariant, PTL DEF Spec, ClientGetsTheStream, ToClient!Spec

\* The server gets the client's frames once, in order and whole, and nothing
\* else.
THEOREM RemoteStream == Spec => RemoteGetsTheStream
<1>1. Init => ToRemote!Init
    BY StreamsInit
<1>2. IInv /\ [Next]_vars => [ToRemote!Next]_(ToRemote!streamVars)
    BY ToRemoteStep
<1> QED
    BY <1>1, <1>2, Invariant, PTL DEF Spec, RemoteGetsTheStream, ToRemote!Spec
=============
