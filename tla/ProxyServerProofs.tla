-------------------------- MODULE ProxyServerProofs --------------------------
(***************************************************************************)
(* Proofs about ProxyServer, for any connections and any timeouts in the    *)
(* order TimeoutsAssumption states.  That the server only uses the manager  *)
(* comes first: it makes the manager's type invariant hold here too, which  *)
(* ties requests to the manager's callers.                                  *)
(***************************************************************************)
EXTENDS ProxyServer, TunnelManagerProofs

\* How long what is going on has been going on: a request under way not longer
\* than the call to the API may last, and nothing is under way on a connection
\* before the server listens.
RequestsInTime ==
    \A c \in Hellos : IF Busy(c) THEN age[c] <= APIDeadline ELSE age[c] = 0

NobodyBeforeListen ==
    (phase \in {"up", "closing"} /\ ~listening) => \A c \in Hellos : http[c] = "idle"

SInv == TypeOK /\ ServerTypeOK /\ RequestsInTime /\ NobodyBeforeListen /\ NobodyCutOff

-----------------------------------------------------------------------------
\* The call to the API ends before the server's other limits.
LEMMA DeadlineShortest ==
    /\ APIDeadline \in Nat
    /\ APIDeadline < WriteTimeout /\ APIDeadline < ShutdownTimeout
    /\ WriteTimeout \in Nat /\ ShutdownTimeout \in Nat
BY TimeoutsAssumption DEF APIDeadline

\* A step of the server is one of the manager, or leaves the manager alone.
LEMMA StepUsesManager ==
    ASSUME ServerNext PROVE [Next]_vars
<1>1. ASSUME NEW c \in Hellos, Hello(c) PROVE [Next]_vars
    <2>1. c \in Callers
        BY HellosAssumption
    <2>2. CASE Connect(c) \/ Accept(c)
        BY <2>2 DEF Connect, Accept
    <2>3. CASE AnswerWithoutTunnel(c) \/ CallExpires(c)
        BY <2>3 DEF AnswerWithoutTunnel, CallExpires
    <2>4. CASE AskManager(c)
        BY <2>1, <2>4 DEF AskManager, EnsureTunnel, Caller, Next
    <2>5. CASE Ensure(c)
        BY <2>1, <2>5 DEF Ensure, Caller, Next
    <2>6. CASE AnswerWithTunnel(c)
        BY <2>1, <2>6 DEF AnswerWithTunnel, Caller, Next
    <2> QED
        BY <1>1, <2>2, <2>3, <2>4, <2>5, <2>6 DEF Hello
<1>2. ASSUME NEW c \in Callers \ Hellos, Rewriter(c) PROVE [Next]_vars
    BY <1>2 DEF Rewriter, Next
<1>3. CASE Background
    BY <1>3 DEF Background, Next
<1>4. CASE Tick
    BY <1>4 DEF Tick
<1>5. CASE Main
    BY <1>5 DEF Main, Listen, ListenFails, Signal, Close, Shutdown, Exit, Next
<1> QED
    BY <1>1, <1>2, <1>3, <1>4, <1>5 DEF ServerNext

\* The server uses the manager as callers, traffic and one Close.
LEMMA ManagerUsed == ServerSpec => Spec
<1>1. ServerInit => Init
    BY DEF ServerInit
<1>2. [ServerNext]_serverVars => [Next]_vars
    BY StepUsesManager DEF serverVars
<1> QED
    BY <1>1, <1>2, PTL DEF ServerSpec, Spec

-----------------------------------------------------------------------------
\* A caller's step moves its own control state only; within EnsureTunnel it does
\* not become idle.
LEMMA CallerMovesItself ==
    ASSUME NEW c \in Callers, Caller(c)
    PROVE  \E v : pc' = [pc EXCEPT ![c] = v]
BY DEF Caller, EnsureTunnel, Call, Lookup, CopyInfo, Recheck, CreateUDPOnly, CreateTCPOnly,
       CreateMixed, CreateWithoutUDP, CreateFails, Register, Answer, TunnelForRemoteIP, Done

LEMMA EnsureGoesOn ==
    ASSUME NEW c \in Callers, EnsureTunnel(c)
    PROVE  \E v : v # "idle" /\ pc' = [pc EXCEPT ![c] = v]
BY DEF EnsureTunnel, Call, Lookup, CopyInfo, Recheck, CreateUDPOnly, CreateTCPOnly,
       CreateMixed, CreateWithoutUDP, CreateFails, Register, Answer

\* The manager's other steps move no caller.
LEMMA OthersMoveNobody ==
    ASSUME Reap \/ ReaperExit \/ SignalClose \/ CloseAll \/ (\E t \in TunnelIds : Traffic(t))
    PROVE  pc' = pc
BY DEF Reap, BeginPass, EvictLeg, EndPass, ReaperExit, SignalClose, CloseAll, BeginClose,
       CloseTunnel, EndClose, CloseLegSockets, ForgetLeg, Traffic, LegIdles, LegActive, callers

-----------------------------------------------------------------------------
\* The initial state satisfies the invariant.
LEMMA InitSInv == ServerInit => SInv
<1> SUFFICES ASSUME ServerInit PROVE SInv
    OBVIOUS
<1>1. TypeOK
    BY InitIInv DEF ServerInit, IInv
<1>2. ServerTypeOK
    BY HellosAssumption DEF ServerInit, ServerTypeOK, Init
<1>3. RequestsInTime /\ NobodyBeforeListen /\ NobodyCutOff
    BY DEF ServerInit, RequestsInTime, NobodyBeforeListen, NobodyCutOff, Busy
<1> QED
    BY <1>1, <1>2, <1>3 DEF SInv

\* A step that leaves requests, their ages and the callers alone, goes on with
\* main, and lets nobody in before the server listens.
LEMMA MainStep ==
    ASSUME SInv, TypeOK', UNCHANGED <<http, age, pc>>, grace' \in Nat, listening' \in BOOLEAN,
           phase' \in {"up", "closing", "draining", "exited"},
           NobodyBeforeListen', NobodyCutOff'
    PROVE  SInv'
<1>1. ServerTypeOK'
    BY DEF SInv, ServerTypeOK
<1>2. RequestsInTime'
    BY DEF SInv, RequestsInTime, Busy
<1> QED
    BY <1>1, <1>2 DEF SInv

\* Every step preserves the invariant.
LEMMA StepSInv ==
    ASSUME SInv, [ServerNext]_serverVars
    PROVE  SInv'
<1>0. TypeOK /\ TypeOK'
    BY TypeStep, StepUsesManager DEF SInv, serverVars
<1>t. ServerTypeOK /\ RequestsInTime /\ NobodyBeforeListen /\ NobodyCutOff
    BY DEF SInv
<1>p. DOMAIN pc = Callers /\ Hellos \subseteq Callers
    BY <1>0, HellosAssumption DEF TypeOK
<1>1. CASE UNCHANGED serverVars
    BY <1>0, <1>1, <1>t DEF serverVars, server, vars, callers, SInv, ServerTypeOK,
       RequestsInTime, NobodyBeforeListen, NobodyCutOff, Busy
<1>2. ASSUME NEW c \in Hellos, Hello(c), phase # "exited" PROVE SInv'
    <2> USE <1>0, <1>t, <1>p, <1>2
    <2>1. CASE Connect(c)
        <3> USE <2>1 DEF Connect, vars, callers
        <3>1. ServerTypeOK'
            BY DEF ServerTypeOK
        <3>2. RequestsInTime' /\ NobodyBeforeListen' /\ NobodyCutOff'
            BY DEF ServerTypeOK, RequestsInTime, NobodyBeforeListen, NobodyCutOff, Busy
        <3> QED
            BY <3>1, <3>2 DEF SInv
    <2>2. CASE Accept(c)
        <3> USE <2>2 DEF Accept, NextRequest, vars, callers
        <3>1. ServerTypeOK'
            BY DEF ServerTypeOK
        <3>2. RequestsInTime'
            BY DeadlineShortest DEF ServerTypeOK, RequestsInTime, Busy
        <3>3. NobodyBeforeListen' /\ NobodyCutOff'
            BY DEF ServerTypeOK, NobodyBeforeListen, NobodyCutOff
        <3> QED
            BY <3>1, <3>2, <3>3 DEF SInv
    <2>3. CASE AnswerWithoutTunnel(c) \/ CallExpires(c)
        <3> USE <2>3 DEF AnswerWithoutTunnel, CallExpires, Answered, vars, callers
        <3>1. ServerTypeOK'
            BY DEF ServerTypeOK
        <3>2. RequestsInTime' /\ NobodyBeforeListen' /\ NobodyCutOff'
            BY DEF ServerTypeOK, RequestsInTime, NobodyBeforeListen, NobodyCutOff, Busy
        <3> QED
            BY <3>1, <3>2 DEF SInv
    <2>4. CASE AskManager(c)
        <3>1. pc' = [pc EXCEPT ![c] = "lookup"] /\ http[c] = "calling"
              /\ http' = [http EXCEPT ![c] = "asking"]
              /\ UNCHANGED <<phase, listening, age, grace>>
            BY <2>4 DEF AskManager, Call
        <3>2. ServerTypeOK'
            BY <3>1 DEF ServerTypeOK
        <3>3. RequestsInTime' /\ NobodyBeforeListen' /\ NobodyCutOff'
            BY <3>1 DEF ServerTypeOK, RequestsInTime, NobodyBeforeListen, NobodyCutOff, Busy
        <3> QED
            BY <3>2, <3>3 DEF SInv
    <2>5. CASE Ensure(c)
        <3>1. PICK v : v # "idle" /\ pc' = [pc EXCEPT ![c] = v]
            BY <2>5, EnsureGoesOn DEF Ensure
        <3>2. http[c] = "asking" /\ UNCHANGED <<phase, listening, http, age, grace>>
            BY <2>5 DEF Ensure, server
        <3>3. ServerTypeOK'
            BY <3>1, <3>2 DEF ServerTypeOK
        <3>4. RequestsInTime' /\ NobodyBeforeListen' /\ NobodyCutOff'
            BY <3>2 DEF RequestsInTime, NobodyBeforeListen, NobodyCutOff, Busy
        <3> QED
            BY <3>3, <3>4 DEF SInv
    <2>6. CASE AnswerWithTunnel(c)
        <3>1. pc' = [pc EXCEPT ![c] = "idle"] /\ http' = [http EXCEPT ![c] = "idle"]
              /\ age' = [age EXCEPT ![c] = 0] /\ UNCHANGED <<phase, listening, grace>>
            BY <2>6 DEF AnswerWithTunnel, Answered, Done
        <3>2. ServerTypeOK'
            BY <3>1 DEF ServerTypeOK
        <3>3. RequestsInTime' /\ NobodyBeforeListen' /\ NobodyCutOff'
            BY <3>1 DEF ServerTypeOK, RequestsInTime, NobodyBeforeListen, NobodyCutOff, Busy
        <3> QED
            BY <3>2, <3>3 DEF SInv
    <2> QED
        BY <2>1, <2>2, <2>3, <2>4, <2>5, <2>6 DEF Hello
<1>3. ASSUME NEW c \in Callers \ Hellos, Rewriter(c), phase # "exited" PROVE SInv'
    <2>1. PICK v : pc' = [pc EXCEPT ![c] = v]
        BY <1>3, CallerMovesItself DEF Rewriter
    <2>2. UNCHANGED <<phase, listening, http, age, grace>>
        BY <1>3 DEF Rewriter, server
    <2>3. ServerTypeOK'
        BY <1>t, <1>p, <2>1, <2>2 DEF ServerTypeOK
    <2> QED
        BY <1>0, <1>t, <2>2, <2>3 DEF SInv, RequestsInTime, NobodyBeforeListen, NobodyCutOff, Busy
<1>4. CASE Background
    <2>1. pc' = pc /\ UNCHANGED <<phase, listening, http, age, grace>>
        BY <1>4, OthersMoveNobody DEF Background, server
    <2> QED
        BY <1>0, <1>t, <2>1, MainStep DEF ServerTypeOK, NobodyBeforeListen, NobodyCutOff, Busy
<1>5. CASE Tick /\ phase # "exited"
    <2> USE <1>5 DEF Tick
    <2>1. ServerTypeOK'
        BY <1>t DEF ServerTypeOK, vars, callers
    <2>2. RequestsInTime'
        BY <1>t, DeadlineShortest DEF RequestsInTime, Busy, Waiting, ServerTypeOK
    <2>3. NobodyBeforeListen' /\ NobodyCutOff'
        BY <1>t DEF NobodyBeforeListen, NobodyCutOff
    <2> QED
        BY <1>0, <2>1, <2>2, <2>3 DEF SInv
<1>6. CASE Main /\ phase # "exited"
    <2>1. pc' = pc /\ UNCHANGED <<http, age>>
        BY <1>6, OthersMoveNobody DEF Main, Listen, ListenFails, Signal, Close, Shutdown, Exit,
           vars, callers, server
    <2>2. CASE Listen \/ Signal \/ Close \/ Shutdown
        BY <1>0, <1>6, <1>t, <2>1, <2>2, MainStep
        DEF Listen, Signal, Close, Shutdown, server, ServerTypeOK, NobodyBeforeListen, NobodyCutOff
    <2>3. CASE ListenFails
        BY <1>0, <1>t, <2>1, <2>3, MainStep
        DEF ListenFails, ServerTypeOK, NobodyBeforeListen, NobodyCutOff, Busy
    <2>4. CASE Exit
        <3>1. NobodyCutOff'
            BY <1>t, <2>4, DeadlineShortest
            DEF Exit, NobodyCutOff, RequestsInTime, Busy, ServerTypeOK
        <3> QED
            BY <1>0, <1>t, <2>1, <2>4, <3>1, MainStep DEF Exit, ServerTypeOK, NobodyBeforeListen
    <2> QED
        BY <1>6, <2>2, <2>3, <2>4 DEF Main
<1> QED
    BY <1>1, <1>2, <1>3, <1>4, <1>5, <1>6 DEF ServerNext

-----------------------------------------------------------------------------
\* The invariant holds, from the start of main to its end.
THEOREM ServerInvariant == ServerSpec => []SInv
<1>1. SInv /\ [ServerNext]_serverVars => SInv'
    BY StepSInv
<1> QED
    BY <1>1, InitSInv, PTL DEF ServerSpec

\* The server's variables keep their types, and the manager's callers are the
\* requests under way (HandleProxy).
THEOREM ServerTypeCorrect == ServerSpec => []ServerTypeOK
<1>1. SInv => ServerTypeOK
    BY DEF SInv
<1> QED
    BY <1>1, ServerInvariant, PTL

\* main's limit on Shutdown cuts off only requests that came after it had begun.
THEOREM CutsNobodyOff == ServerSpec => []NobodyCutOff
<1>1. SInv => NobodyCutOff
    BY DEF SInv
<1> QED
    BY <1>1, ServerInvariant, PTL

\* Answers are written before the server's write deadline (HandleProxy's context).
THEOREM TimelyAnswers == ServerSpec => AnsweredInTime
<1>1. SInv => \A c \in Hellos : Busy(c) /\ http'[c] = "idle" => age[c] < WriteTimeout
    BY DeadlineShortest DEF SInv, RequestsInTime, ServerTypeOK
<1> QED
    BY <1>1, ServerInvariant, PTL DEF AnsweredInTime, ServerSpec

\* In the whole process, requests that come after Close included, no socket leaks, the
\* registry reports the legs that are open, and to the callers it is a directory of one
\* tunnel an address (main.go:81, EnsureTunnel).
THEOREM RegistryInTheServer ==
    ServerSpec => /\ []NoSocketLeak /\ []LegConsistent
                  /\ AnsweredLegIsOwn /\ LobbyOutlivesTheLeg /\ ImplementsDirectory
<1>1. Spec => []NoSocketLeak /\ []LegConsistent
    BY SocketsNotLeaked, LegsConsistent
<1>2. Spec => AnsweredLegIsOwn /\ LobbyOutlivesTheLeg /\ ImplementsDirectory
    BY AnswersAreOwn, LobbyOutlives, DirectoryRefined
<1>3. ServerSpec => Spec
    BY ManagerUsed
<1> QED
    BY <1>1, <1>2, <1>3
=============================================================================
