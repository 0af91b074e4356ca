--------------------------- MODULE TunnelDirectory ---------------------------
(***************************************************************************)
(* What the tunnel manager promises its callers, whatever its locking: a   *)
(* directory with at most one tunnel per upstream address.  A call is      *)
(* answered with the tunnel that is in the directory at one moment between *)
(* the call and its answer; a tunnel enters the directory only for an      *)
(* address that has none, and is a tunnel nobody holds yet; tunnels leave  *)
(* the directory at any time (idle eviction, shutdown).                    *)
(***************************************************************************)
CONSTANTS
    Keys,        \* upstream addresses
    Callers,     \* goroutines that ask for tunnels
    TunnelIds,   \* names of tunnel objects
    NoTunnel     \* the absence of a tunnel

VARIABLES
    dir,         \* the tunnel of each address
    status,      \* of each caller: "idle", "waiting", "answered" or "failed"
    asked,       \* the address each caller asks about
    answer       \* the tunnel each caller was answered with

dirVars == <<dir, status, asked, answer>>

Free == {t \in TunnelIds : /\ \A k \in Keys : dir[k] # t
                           /\ \A c \in Callers : answer[c] # t}

Init == /\ dir = [k \in Keys |-> NoTunnel]
        /\ status = [c \in Callers |-> "idle"]
        /\ asked \in [Callers -> Keys]
        /\ answer = [c \in Callers |-> NoTunnel]

Ask(c, k) == /\ status[c] = "idle"
             /\ status' = [status EXCEPT ![c] = "waiting"]
             /\ asked' = [asked EXCEPT ![c] = k]
             /\ UNCHANGED <<dir, answer>>

AnswerWith(c, t) == /\ status' = [status EXCEPT ![c] = "answered"]
                    /\ answer' = [answer EXCEPT ![c] = t]

\* The caller gets the tunnel its address has at this moment.
Hit(c) == /\ status[c] = "waiting"
          /\ dir[asked[c]] # NoTunnel
          /\ AnswerWith(c, dir[asked[c]])
          /\ UNCHANGED <<dir, asked>>

\* Its address has none: it gets a new one, which the directory now holds.
Install(c) == /\ status[c] = "waiting"
              /\ dir[asked[c]] = NoTunnel
              /\ \E t \in Free : /\ dir' = [dir EXCEPT ![asked[c]] = t]
                                 /\ AnswerWith(c, t)
              /\ UNCHANGED asked

\* No tunnel could be made.
Refuse(c) == /\ status[c] = "waiting"
             /\ dir[asked[c]] = NoTunnel
             /\ status' = [status EXCEPT ![c] = "failed"]
             /\ UNCHANGED <<dir, asked, answer>>

\* A lookup that never makes a tunnel.
Find(c, k) == /\ status[c] = "idle"
              /\ dir[k] # NoTunnel
              /\ asked' = [asked EXCEPT ![c] = k]
              /\ AnswerWith(c, dir[k])
              /\ UNCHANGED dir

\* The call is over; what an idle caller last asked about is of no interest.
Done(c) == /\ status[c] \in {"answered", "failed"}
           /\ status' = [status EXCEPT ![c] = "idle"]
           /\ answer' = [answer EXCEPT ![c] = NoTunnel]
           /\ \E k \in Keys : asked' = [asked EXCEPT ![c] = k]
           /\ UNCHANGED dir

Remove(S) == /\ dir' = [k \in Keys |-> IF k \in S THEN NoTunnel ELSE dir[k]]
             /\ UNCHANGED <<status, asked, answer>>

Next == \/ \E c \in Callers : Hit(c) \/ Install(c) \/ Refuse(c) \/ Done(c)
        \/ \E c \in Callers, k \in Keys : Ask(c, k) \/ Find(c, k)
        \/ \E S \in SUBSET Keys : Remove(S)

Spec == Init /\ [][Next]_dirVars
=============================================================================
