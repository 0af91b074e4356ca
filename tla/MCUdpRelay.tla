----------------------------- MODULE MCUdpRelay -----------------------------
EXTENDS UdpRelay

CONSTANTS a, b, s

TwoClients == {a, b}
OneServer == {s}
=============================================================================
