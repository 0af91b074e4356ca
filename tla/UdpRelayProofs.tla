--------------------------- MODULE UdpRelayProofs ---------------------------
(***************************************************************************)
(* Theorems about UdpRelay, for every set of clients and of addresses of   *)
(* the server, every timeout and every tick.                                *)
(***************************************************************************)
EXTENDS UdpRelay, FiniteSetTheorems, TLAPS

\* The sender the client loop holds: anybody until it has been told apart, a
\* client afterwards.
SenderKnown ==
    /\ cpc = "got" => cpeer \in Peers
    /\ cpc \in {"toUpstream", "mark"} => cpeer \in Clients

\* closeUDPLeg begins with what makes the leg closed.
LegGoneFirst == rpc \in {"closeUpstream", "reset"} => ~hasLeg

\* A leg that was not closed at the last tick was younger than Timeout then.
IdleSinceTick ==
    hasLeg => idleAge < Timeout + (IF rpc = "wait" THEN sinceTick ELSE Interval)

\* The recorded idle time is never longer than the true one, except between a
\* write and its mark.
IdleNotOverstated == hasLeg => Relaying \/ idleAge <= relayAge

Relayed == NoEcho /\ SenderKnown /\ WritesToKnownClients
Timed == LegGoneFirst /\ IdleSinceTick /\ IdleNotOverstated
IInv == TypeOK /\ Relayed /\ SessionsAreClients /\ Timed

USE DEF Peers, AgeCap, udpSplitFromServer

-----------------------------------------------------------------------------
\* Adding one client to the map adds at most one to its size.
LEMMA OneMoreClient ==
    ASSUME NEW S \in SUBSET Peers, NEW c \in Peers
    PROVE  /\ IsFiniteSet(S) /\ IsFiniteSet(S \cup {c})
           /\ Cardinality(S) \in Nat
           /\ Cardinality(S) <= Cardinality(Peers) /\ Cardinality(Peers) \in Nat
           /\ Cardinality(S \cup {c}) = IF c \in S THEN Cardinality(S)
                                                   ELSE Cardinality(S) + 1
<1>1. IsFiniteSet(S) /\ Cardinality(S) <= Cardinality(Peers)
    BY PeersAssumption, FS_Subset
<1>2. IsFiniteSet(S \cup {c}) /\ Cardinality(S \cup {c}) = IF c \in S THEN Cardinality(S)
                                                   ELSE Cardinality(S) + 1
    BY <1>1, FS_AddElement
<1>3. Cardinality(S) \in Nat /\ Cardinality(Peers) \in Nat
    BY <1>1, PeersAssumption, FS_CardinalityType
<1> QED
    BY <1>1, <1>2, <1>3

\* The initial state satisfies the invariant.
LEMMA InitIInv == Init => IInv
<1> SUFFICES ASSUME Init PROVE IInv
    OBVIOUS
<1>1. Cardinality({}) = 0
    BY FS_EmptySet
<1>2. Cardinality(Peers) \in Nat
    BY PeersAssumption, FS_CardinalityType
<1>3. TypeOK
    BY <1>2, TimeAssumption DEF Init, TypeOK
<1>4. Relayed
    BY PeersAssumption DEF Init, Relayed, NoEcho, SenderKnown, WritesToKnownClients
<1>5. SessionsAreClients
    BY <1>1 DEF Init, SessionsAreClients
<1>6. Timed
    BY TimeAssumption DEF Init, Timed, LegGoneFirst, IdleSinceTick, IdleNotOverstated
<1> QED
    BY <1>3, <1>4, <1>5, <1>6 DEF IInv

\* In a state with no client of the server's address, what RegisterClient makes
\* of the map is the map and the sender.
LEMMA RegisteredAdds ==
    ASSUME NoEcho
    PROVE  Registered = clients \cup {cpeer}
BY DEF NoEcho, Registered

\* Every step keeps every variable in its type.
LEMMA TypeStep ==
    ASSUME IInv, [Next]_vars
    PROVE  TypeOK'
<1> USE DEF IInv, TypeOK
<1>1. CASE UpRead
    BY <1>1, TimeAssumption DEF UpRead, counts, relay, ages
<1>2. CASE UpStops
    BY <1>2 DEF UpStops, counts, relay, ages
<1>3. CASE UpTakesDests
    BY <1>3 DEF UpTakesDests, clientDestsLocked, counts, relay, ages
<1>4. CASE UpWrites
    BY <1>4, TimeAssumption DEF UpWrites, counts, relay, ages
<1>5. CASE UpMarks
    BY <1>5, TimeAssumption DEF UpMarks, counts, relay, ages
<1>6. CASE ClientRead
    BY <1>6, TimeAssumption DEF ClientRead, counts, relay, ages
<1>7. CASE ClientStops
    BY <1>7 DEF ClientStops, counts, relay, ages
<1>8. CASE ServerOnClientPort
    BY <1>8 DEF ServerOnClientPort, clientDestsLocked, counts, relay, ages
<1>9. CASE ClientLoopWrites
    BY <1>9, TimeAssumption DEF ClientLoopWrites, counts, relay, ages
<1>10. CASE RegisterClient
    <2>1. cpeer \in Peers /\ Registered = clients \cup {cpeer}
        BY <1>10, RegisteredAdds DEF RegisterClient, Relayed, SenderKnown
    <2>2. Registered \in SUBSET Peers
        BY <2>1
    <2>3. /\ Cardinality(Registered) \in Nat /\ Cardinality(Peers) \in Nat
          /\ Cardinality(Registered) <= Cardinality(Peers)
        BY <2>1, <2>2, OneMoreClient
    <2> QED
        BY <1>10, <2>1, <2>3 DEF RegisterClient, ActiveSessions, NewSessions, ages
<1>11. CASE WriteUpstream
    BY <1>11, TimeAssumption DEF WriteUpstream, counts, relay, ages
<1>12. CASE WriteUpstreamFails
    BY <1>12 DEF WriteUpstreamFails, counts, relay, ages
<1>13. CASE ClientMarks
    BY <1>13, TimeAssumption DEF ClientMarks, counts, relay, ages
<1>14. CASE ReaperLooks
    BY <1>14, TimeAssumption DEF ReaperLooks, counts, relay, ages
<1>15. CASE CloseClientSocket
    BY <1>15 DEF CloseClientSocket, counts, relay, ages
<1>16. CASE CloseUpstreamSocket
    BY <1>16 DEF CloseUpstreamSocket, counts, relay, ages
<1>17. CASE ResetLeg
    BY <1>17, TimeAssumption, PeersAssumption, FS_CardinalityType DEF ResetLeg, counts, relay, ages
<1>18. CASE Tick
    BY <1>18, TimeAssumption DEF Tick, Older, counts, relay, ages
<1>19. CASE UNCHANGED vars
    BY <1>19 DEF vars, counts, relay, ages
<1> QED
    BY <1>1, <1>2, <1>3, <1>4, <1>5, <1>6, <1>7, <1>8, <1>9, <1>10, <1>11, <1>12, <1>13,
       <1>14, <1>15, <1>16, <1>17, <1>18, <1>19 DEF Next, UpLoop, ClientLoop, Reaper

\* Every step keeps the server's addresses out of the clients and the lists
\* within the map.
LEMMA RelayedStep ==
    ASSUME IInv, [Next]_vars
    PROVE  Relayed'
<1> USE DEF IInv, Relayed, NoEcho, SenderKnown, WritesToKnownClients
<1>1. CASE UpRead
    BY <1>1 DEF UpRead, counts, relay, ages
<1>2. CASE UpStops
    BY <1>2 DEF UpStops, counts, relay, ages
<1>3. CASE UpTakesDests
    BY <1>3 DEF UpTakesDests, clientDestsLocked, counts, relay, ages
<1>4. CASE UpWrites
    BY <1>4 DEF UpWrites, counts, relay, ages
<1>5. CASE UpMarks
    BY <1>5 DEF UpMarks, counts, relay, ages
<1>6. CASE ClientRead
    BY <1>6, PeersAssumption DEF ClientRead, counts, relay, ages
<1>7. CASE ClientStops
    BY <1>7 DEF ClientStops, counts, relay, ages
<1>8. CASE ServerOnClientPort
    BY <1>8, PeersAssumption DEF ServerOnClientPort, clientDestsLocked, counts, relay, ages
<1>9. CASE ClientLoopWrites
    BY <1>9 DEF ClientLoopWrites, counts, relay, ages
<1>10. CASE RegisterClient
    BY <1>10, PeersAssumption DEF RegisterClient, Registered, counts, relay, ages
<1>11. CASE WriteUpstream
    BY <1>11, PeersAssumption DEF WriteUpstream, counts, relay, ages
<1>12. CASE WriteUpstreamFails
    BY <1>12 DEF WriteUpstreamFails, counts, relay, ages
<1>13. CASE ClientMarks
    BY <1>13 DEF ClientMarks, counts, relay, ages
<1>14. CASE ReaperLooks
    BY <1>14 DEF ReaperLooks, counts, relay, ages
<1>15. CASE CloseClientSocket
    BY <1>15 DEF CloseClientSocket, counts, relay, ages
<1>16. CASE CloseUpstreamSocket
    BY <1>16 DEF CloseUpstreamSocket, counts, relay, ages
<1>17. CASE ResetLeg
    BY <1>17 DEF ResetLeg, counts, relay, ages
<1>18. CASE Tick
    BY <1>18 DEF Tick, counts, relay, ages
<1>19. CASE UNCHANGED vars
    BY <1>19 DEF vars, counts, relay, ages
<1> QED
    BY <1>1, <1>2, <1>3, <1>4, <1>5, <1>6, <1>7, <1>8, <1>9, <1>10, <1>11, <1>12, <1>13,
       <1>14, <1>15, <1>16, <1>17, <1>18, <1>19 DEF Next, UpLoop, ClientLoop, Reaper

\* Every step keeps the counts equal to the size of the map.
LEMMA SessionsStep ==
    ASSUME IInv, [Next]_vars
    PROVE  SessionsAreClients'
<1> USE DEF IInv, SessionsAreClients
<1>1. CASE UpRead
    BY <1>1 DEF UpRead, counts, relay, ages
<1>2. CASE UpStops
    BY <1>2 DEF UpStops, counts, relay, ages
<1>3. CASE UpTakesDests
    BY <1>3 DEF UpTakesDests, counts, relay, ages
<1>4. CASE UpWrites
    BY <1>4 DEF UpWrites, counts, relay, ages
<1>5. CASE UpMarks
    BY <1>5 DEF UpMarks, counts, relay, ages
<1>6. CASE ClientRead
    BY <1>6 DEF ClientRead, counts, relay, ages
<1>7. CASE ClientStops
    BY <1>7 DEF ClientStops, counts, relay, ages
<1>8. CASE ServerOnClientPort
    BY <1>8 DEF ServerOnClientPort, counts, relay, ages
<1>9. CASE ClientLoopWrites
    BY <1>9 DEF ClientLoopWrites, counts, relay, ages
<1>10. CASE RegisterClient
    <2>1. cpeer \in Peers /\ Registered = clients \cup {cpeer}
        BY <1>10, RegisteredAdds DEF RegisterClient, Relayed, SenderKnown
    <2>2. Cardinality(Registered) = Cardinality(clients) + NewSessions
        BY <2>1, OneMoreClient DEF TypeOK, NewSessions
    <2> QED
        BY <1>10, <2>2 DEF RegisterClient, ActiveSessions
<1>11. CASE WriteUpstream
    BY <1>11 DEF WriteUpstream, counts, relay, ages
<1>12. CASE WriteUpstreamFails
    BY <1>12 DEF WriteUpstreamFails, counts, relay, ages
<1>13. CASE ClientMarks
    BY <1>13 DEF ClientMarks, counts, relay, ages
<1>14. CASE ReaperLooks
    BY <1>14 DEF ReaperLooks, counts, relay, ages
<1>15. CASE CloseClientSocket
    BY <1>15 DEF CloseClientSocket, counts, relay, ages
<1>16. CASE CloseUpstreamSocket
    BY <1>16 DEF CloseUpstreamSocket, counts, relay, ages
<1>17. CASE ResetLeg
    BY <1>17 DEF ResetLeg, Timed, LegGoneFirst, counts, relay, ages
<1>18. CASE Tick
    BY <1>18 DEF Tick, counts, relay, ages
<1>19. CASE UNCHANGED vars
    BY <1>19 DEF vars, counts, relay, ages
<1> QED
    BY <1>1, <1>2, <1>3, <1>4, <1>5, <1>6, <1>7, <1>8, <1>9, <1>10, <1>11, <1>12, <1>13,
       <1>14, <1>15, <1>16, <1>17, <1>18, <1>19 DEF Next, UpLoop, ClientLoop, Reaper

\* Every step keeps what the reaper relies on.
LEMMA TimedStep ==
    ASSUME IInv, [Next]_vars
    PROVE  Timed'
<1> USE DEF IInv, TypeOK, Timed, LegGoneFirst, IdleSinceTick, IdleNotOverstated, Relaying
<1>1. CASE UpRead
    BY <1>1, TimeAssumption DEF UpRead, counts, relay, ages
<1>2. CASE UpStops
    BY <1>2, TimeAssumption DEF UpStops, counts, relay, ages
<1>3. CASE UpTakesDests
    BY <1>3, TimeAssumption DEF UpTakesDests, clientDestsLocked, counts, relay, ages
<1>4. CASE UpWrites
    BY <1>4, TimeAssumption DEF UpWrites, counts, relay, ages
<1>5. CASE UpMarks
    BY <1>5, TimeAssumption DEF UpMarks, counts, relay, ages
<1>6. CASE ClientRead
    BY <1>6, TimeAssumption DEF ClientRead, counts, relay, ages
<1>7. CASE ClientStops
    BY <1>7, TimeAssumption DEF ClientStops, counts, relay, ages
<1>8. CASE ServerOnClientPort
    BY <1>8, TimeAssumption DEF ServerOnClientPort, counts, relay, ages
<1>9. CASE ClientLoopWrites
    BY <1>9, TimeAssumption DEF ClientLoopWrites, counts, relay, ages
<1>10. CASE RegisterClient
    BY <1>10, TimeAssumption DEF RegisterClient, counts, relay, ages
<1>11. CASE WriteUpstream
    BY <1>11, TimeAssumption DEF WriteUpstream, counts, relay, ages
<1>12. CASE WriteUpstreamFails
    BY <1>12, TimeAssumption DEF WriteUpstreamFails, counts, relay, ages
<1>13. CASE ClientMarks
    BY <1>13, TimeAssumption DEF ClientMarks, counts, relay, ages
<1>14. CASE ReaperLooks
    BY <1>14, TimeAssumption DEF ReaperLooks, IdleLongEnough, counts, relay, ages
<1>15. CASE CloseClientSocket
    BY <1>15, TimeAssumption DEF CloseClientSocket, counts, relay, ages
<1>16. CASE CloseUpstreamSocket
    BY <1>16, TimeAssumption DEF CloseUpstreamSocket, counts, relay, ages
<1>17. CASE ResetLeg
    BY <1>17, TimeAssumption DEF ResetLeg, counts, relay, ages
<1>18. CASE Tick
    BY <1>18, TimeAssumption DEF Tick, Older, counts, relay, ages
<1>19. CASE UNCHANGED vars
    BY <1>19 DEF vars, counts, relay, ages
<1> QED
    BY <1>1, <1>2, <1>3, <1>4, <1>5, <1>6, <1>7, <1>8, <1>9, <1>10, <1>11, <1>12, <1>13,
       <1>14, <1>15, <1>16, <1>17, <1>18, <1>19 DEF Next, UpLoop, ClientLoop, Reaper

\* Every step keeps the invariant.
LEMMA StepIInv == IInv /\ [Next]_vars => IInv'
BY TypeStep, RelayedStep, SessionsStep, TimedStep DEF IInv

(***************************************************************************)
(* Theorems                                                                *)
(***************************************************************************)
\* The invariant of the relay holds throughout.
THEOREM Invariance == Spec => []IInv
BY InitIInv, StepIInv, PTL DEF Spec

\* The variables of the relay keep their types.
THEOREM TypeCorrect == Spec => []TypeOK
<1>1. IInv => TypeOK
    BY DEF IInv
<1> QED
    BY <1>1, Invariance, PTL

\* Nothing of the server's is sent back to it, and none of its addresses is ever
\* a client.
THEOREM ServerNeverEchoed == Spec => []NoEcho
<1>1. IInv => NoEcho
    BY DEF IInv, Relayed
<1> QED
    BY <1>1, Invariance, PTL

\* The lists the loops write to name clients of the map only.
THEOREM ListsAreKnown == Spec => []WritesToKnownClients
<1>1. IInv => WritesToKnownClients
    BY DEF IInv, Relayed
<1> QED
    BY <1>1, Invariance, PTL

\* The counters of a leg are the size of the map.
THEOREM SessionsCounted == Spec => []SessionsAreClients
<1>1. IInv => SessionsAreClients
    BY DEF IInv
<1> QED
    BY <1>1, Invariance, PTL

\* A leg is closed before it has been idle for Timeout and one tick more.
THEOREM IdleLegClosed == Spec => []ClosedInTime
<1>1. IInv => ClosedInTime
    <2> SUFFICES ASSUME IInv, hasLeg PROVE idleAge < Timeout + Interval
        BY DEF ClosedInTime
    <2>1. CASE rpc = "wait" /\ sinceTick < Interval
        BY <2>1, TimeAssumption DEF IInv, TypeOK, Timed, IdleSinceTick
    <2>2. CASE rpc = "wait" /\ sinceTick = Interval
        BY <2>2, TimeAssumption DEF IInv, TypeOK, Timed, IdleSinceTick
    <2>3. CASE rpc # "wait"
        BY <2>3, TimeAssumption DEF IInv, TypeOK, Timed, IdleSinceTick
    <2> QED
        BY <2>1, <2>2, <2>3, TimeAssumption DEF IInv, TypeOK
<1> QED
    BY <1>1, Invariance, PTL

\* The reaper does not close a leg that relays, but between a write and its mark.
THEOREM BusyLegKept == Spec => ClosedOnlyWhenQuiet
<1>1. IInv /\ [Next]_vars
        => [(rpc = "wait" /\ rpc' = "closeClient") => (relayAge >= Timeout \/ Relaying)]_vars
    <2> SUFFICES ASSUME IInv, [Next]_vars, rpc = "wait", rpc' = "closeClient"
                 PROVE  relayAge >= Timeout \/ Relaying
        OBVIOUS
    <2>1. ReaperLooks
        BY DEF Next, UpLoop, ClientLoop, Reaper, UpRead, UpStops, UpTakesDests, UpWrites,
               UpMarks, ClientRead, ClientStops, ServerOnClientPort, ClientLoopWrites,
               RegisterClient, WriteUpstream, WriteUpstreamFails, ClientMarks,
               CloseClientSocket, CloseUpstreamSocket, ResetLeg, Tick, vars
    <2>2. hasLeg /\ idleAge >= Timeout
        BY <2>1 DEF ReaperLooks, IdleLongEnough
    <2> QED
        BY <2>2, TimeAssumption DEF IInv, TypeOK, Timed, IdleNotOverstated
<1> QED
    BY <1>1, Invariance, PTL DEF Spec, ClosedOnlyWhenQuiet
=============================================================================
