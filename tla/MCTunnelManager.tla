--------------------------- MODULE MCTunnelManager ---------------------------
(***************************************************************************)
(* Small instances of TunnelManager: the upstream ports 3, 5 and 9 are in   *)
(* the TCP pool, in the game range and in neither.                          *)
(***************************************************************************)
EXTENDS TunnelManager, TLC

CONSTANTS good, c1, c2, t1, t2, t3, t4, t5

OneIP == {good}
Upstreams == {3, 5, 9}
GameAndLobby == {5, 9}
Nobody == {}
ClientPortNeighbour == {6}
TwoCallers == {c1, c2}
FiveTunnels == {t1, t2, t3, t4, t5}

\* An object nothing refers to is garbage: what it held makes no difference.
Live(t) == Registered(t) \/ \E c \in Callers : ref[c] = t
LiveState == <<tunnels, {<<t, info[t]>> : t \in {u \in TunnelIds : Live(u)}},
               sockets, callers, locks>>

Interchangeable == Permutations(TwoCallers) \cup Permutations(FiveTunnels)
=============================================================================
