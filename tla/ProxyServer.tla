----------------------------- MODULE ProxyServer -----------------------------
(***************************************************************************)
(* The process: main (src/cmd/dad_proxy/main.go), its HTTP server, and the  *)
(* hello handler (src/internal/handlers/proxy.go) in front of the tunnel    *)
(* manager, whose actions this module composes with its own.                *)
(*                                                                          *)
(* Time is counted in ticks from the moment a request is accepted, and from *)
(* the start of Shutdown; only waiting for the API takes time.  The         *)
(* handlers that answer at once from a snapshot have no state of their own. *)
(***************************************************************************)
EXTENDS TunnelManager

CONSTANTS
    Hellos,            \* connections with hello requests, among the callers
    ContextTimeout,    \* of the call to the API: 25 seconds
    ClientTimeout,     \* of the HTTP client that makes it: 30 seconds
    WriteTimeout,      \* of the server, for an answer: 30 seconds
    ShutdownTimeout,   \* what main grants Shutdown: 30 seconds
    NewConnection      \* how long net/http still serves, after Shutdown has begun,
                       \* a connection that has sent nothing: 5 to 7 seconds

\* Mutant: the handler's own context is not passed to the call.
APIDeadlineOfClient == ClientTimeout
\* The shorter timeout ends the call.
APIDeadline == IF ContextTimeout < ClientTimeout THEN ContextTimeout ELSE ClientTimeout

ASSUME HellosAssumption == Hellos \subseteq Callers
ASSUME TimeoutsAssumption ==
    /\ {ContextTimeout, ClientTimeout, WriteTimeout, ShutdownTimeout, NewConnection} \subseteq Nat
    /\ ContextTimeout < WriteTimeout
    /\ ContextTimeout < ShutdownTimeout

VARIABLES
    phase,       \* of main: "up", "closing", "draining" or "exited"
    listening,   \* the server accepts connections
    http,        \* of each connection: "idle" between requests or not made, "new" and
                 \* nothing sent yet, "calling" the API, "asking" the manager
    age,         \* how long its request has been going on
    grace        \* how long Shutdown has been going on

server == <<phase, listening, http, age, grace>>
serverVars == <<server, vars>>

ServerInit ==
    /\ Init
    /\ phase = "up" /\ listening = FALSE /\ grace = 0
    /\ http = [c \in Hellos |-> "idle"] /\ age = [c \in Hellos |-> 0]

(***************************************************************************)
(* HandleProxy                                                             *)
(***************************************************************************)
Connect(c) ==
    /\ listening /\ http[c] = "idle"
    /\ http' = [http EXCEPT ![c] = "new"]
    /\ UNCHANGED <<phase, listening, age, grace, vars>>

\* A connection sends one request at a time until Shutdown; one that has sent
\* none yet may still do so for a while after.
\* Mutant: it takes a request before the last one is answered.
NextRequestPipelined(c) == listening /\ http[c] # "calling"
NextRequest(c) ==
    \/ http[c] = "idle" /\ listening
    \/ http[c] = "new" /\ (listening \/ (phase = "draining" /\ grace < NewConnection))

\* Requests for other paths and methods are answered at once.
Accept(c) ==
    /\ NextRequest(c)
    /\ http' = [http EXCEPT ![c] = "calling"]
    /\ UNCHANGED <<phase, listening, age, grace, vars>>

\* The answer is written; the connection waits for its next request.
Answered(c) == /\ http' = [http EXCEPT ![c] = "idle"]
               /\ age' = [age EXCEPT ![c] = 0]
               /\ UNCHANGED <<phase, listening, grace>>

\* An error of the API, another status than 200, no JSON, maintenance, or no
\* valid address: no tunnel is asked for.
AnswerWithoutTunnel(c) == http[c] = "calling" /\ Answered(c) /\ UNCHANGED vars

\* Mutant: the deadline has to be over, not only reached.
ExpiredLater(c) == age[c] > APIDeadline
Expired(c) == age[c] = APIDeadline

\* The call is given up and answered with an error.
CallExpires(c) == Expired(c) /\ AnswerWithoutTunnel(c)

\* The API names an address.
AskManager(c) ==
    /\ http[c] = "calling"
    /\ Call(c) /\ via'[c] = "hello"
    /\ http' = [http EXCEPT ![c] = "asking"]
    /\ UNCHANGED <<phase, listening, age, grace>>

\* EnsureTunnel in the request's goroutine.
Ensure(c) == http[c] = "asking" /\ EnsureTunnel(c) /\ UNCHANGED server

AnswerWithTunnel(c) == http[c] = "asking" /\ Done(c) /\ Answered(c)

Hello(c) ==
    \/ Connect(c) \/ Accept(c) \/ AnswerWithoutTunnel(c) \/ CallExpires(c)
    \/ AskManager(c) \/ Ensure(c) \/ AnswerWithTunnel(c)

(***************************************************************************)
(* The rest of the process                                                 *)
(***************************************************************************)
\* The copiers of lobby sessions ask the manager too.
Rewriter(c) ==
    /\ Caller(c)
    /\ pc[c] = "idle" => via'[c] \in {"payload", "bare"}
    /\ UNCHANGED server

Background == /\ Reap \/ ReaperExit \/ (\E t \in TunnelIds : Traffic(t))
              /\ UNCHANGED server

\* Time passes while requests wait for the API; none waits beyond its deadline,
\* nor main beyond its own.
Waiting(c) == http[c] = "calling"

Tick ==
    /\ \A c \in Hellos : http[c] # "asking" /\ (Waiting(c) => age[c] < APIDeadline)
    /\ phase = "draining" => grace < ShutdownTimeout
    /\ phase = "draining" \/ \E c \in Hellos : Waiting(c)
    /\ age' = [c \in Hellos |-> IF Waiting(c) THEN age[c] + 1 ELSE age[c]]
    /\ grace' = IF phase = "draining" THEN grace + 1 ELSE grace
    /\ UNCHANGED <<phase, listening, http, vars>>

(***************************************************************************)
(* main                                                                    *)
(***************************************************************************)
\* ListenAndServe, in its goroutine; it does not begin once Shutdown has.
Listen ==
    /\ phase \in {"up", "closing"} /\ ~listening
    /\ listening' = TRUE
    /\ UNCHANGED <<phase, http, age, grace, vars>>

\* os.Exit(1)
ListenFails ==
    /\ phase \in {"up", "closing"} /\ ~listening
    /\ phase' = "exited"
    /\ UNCHANGED <<listening, http, age, grace, vars>>

\* Mutant: the signal does not lead to Close.
SignalWithoutClose == /\ phase = "up" /\ phase' = "closing"
                      /\ UNCHANGED <<listening, http, age, grace, vars>>

\* SIGINT or SIGTERM: main calls Close of the manager, while requests come in.
Signal == /\ phase = "up" /\ phase' = "closing"
          /\ SignalClose
          /\ UNCHANGED <<listening, http, age, grace>>

Close == CloseAll /\ UNCHANGED server

Shutdown ==
    /\ phase = "closing" /\ closing = "closed"
    /\ phase' = "draining" /\ listening' = FALSE
    /\ UNCHANGED <<http, age, grace, vars>>

Busy(c) == http[c] \in {"calling", "asking"}

\* Shutdown has closed every connection, or its time is over.
Exit ==
    /\ phase = "draining"
    /\ \/ \A c \in Hellos : ~Busy(c) /\ (http[c] = "new" => grace >= NewConnection)
       \/ grace = ShutdownTimeout
    /\ phase' = "exited"
    /\ UNCHANGED <<listening, http, age, grace, vars>>

Main == Listen \/ ListenFails \/ Signal \/ Close \/ Shutdown \/ Exit

ServerNext ==
    /\ phase # "exited"
    /\ \/ \E c \in Hellos : Hello(c)
       \/ \E c \in Callers \ Hellos : Rewriter(c)
       \/ Background \/ Tick \/ Main

ServerSpec == ServerInit /\ [][ServerNext]_serverVars

\* Time passes, the reaper's ticker fires and its pass goes on, goroutines go on
\* when they can; sync.RWMutex lets a waiter in some time, however often others
\* take the lock.  The API owes nothing, and main waits for its signal.
ServerFairSpec ==
    /\ ServerSpec
    /\ SF_serverVars(phase # "exited" /\ Tick)
    /\ WF_serverVars(phase # "exited" /\ Reap /\ UNCHANGED server)
    /\ SF_serverVars(phase # "exited" /\ Close)
    /\ WF_serverVars(phase # "exited" /\ (Shutdown \/ Exit))
    /\ \A c \in Hellos : SF_serverVars(/\ phase # "exited"
                                       /\ CallExpires(c) \/ Ensure(c) \/ AnswerWithTunnel(c))

(***************************************************************************)
(* Properties                                                              *)
(***************************************************************************)
\* The types of the server's variables; the manager knows of a request exactly
\* while it is asked.
ServerTypeOK ==
    /\ phase \in {"up", "closing", "draining", "exited"} /\ listening \in BOOLEAN
    /\ http \in [Hellos -> {"idle", "new", "calling", "asking"}]
    /\ age \in [Hellos -> Nat] /\ grace \in Nat
    /\ \A c \in Hellos : http[c] = "asking" <=> pc[c] # "idle"

\* Shutdown's limit cuts nobody off who was there before it: when the process
\* ends, a hello request without its answer is one that a connection, new when
\* Shutdown began, has sent since then.
NobodyCutOff == phase = "exited" => \A c \in Hellos : Busy(c) => age[c] < grace

\* No answer is written after the server's write deadline, which would drop it:
\* the call to the API is given up in time for its error.
AnsweredInTime ==
    [][\A c \in Hellos : Busy(c) /\ http'[c] = "idle" => age[c] < WriteTimeout]_serverVars

\* Every hello request that comes before Shutdown is answered, whatever the API
\* does and whenever the signal arrives.
HelloAnswered ==
    \A c \in Hellos : (http[c] = "calling" /\ phase \in {"up", "closing"}) ~> http[c] = "idle"

\* After the signal the process ends.
ServerStops == phase = "closing" ~> phase = "exited"

\* While the reaper runs, an idle leg does not stay: it is closed or relays
\* again, whatever requests and shutdown do meanwhile.
IdleLegReaped ==
    \A t \in TunnelIds :
        (Evictable(t) /\ reaper # "stopped")
        ~> (~Evictable(t) \/ reaper = "stopped" \/ phase = "exited")
=============================================================================
