---------------------------- MODULE MCProxyServer ----------------------------
(***************************************************************************)
(* Small instances of ProxyServer; a tick is five seconds.                  *)
(***************************************************************************)
EXTENDS ProxyServer

CONSTANTS good, bad, c1, t1, t2

BothIPs == {good, bad}
OneBadIP == {bad}
GameAndLobby == {5, 9}
Nobody == {}
OneCaller == {c1}
TwoTunnels == {t1, t2}
=============================================================================
