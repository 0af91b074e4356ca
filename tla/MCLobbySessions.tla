-------------------------- MODULE MCLobbySessions --------------------------
EXTENDS LobbySessions

CONSTANTS x, y, s1, s2, q1

OneTunnel == {20200}
TwoTunnels == {20200, 20201}
OnePeer == {x}
TwoPeers == {x, y}
TwoSessions == {s1, s2}
NoRequest == {}
OneRequest == {q1}
=============================================================================
