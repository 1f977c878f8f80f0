----------------------------- MODULE MCInstance -----------------------------
EXTENDS Instance

CONSTANTS a, b

TwoPeers == {a, b}
=============================================================================
