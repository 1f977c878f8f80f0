---------------------------- MODULE MCTransport ----------------------------
EXTENDS Transport

CONSTANTS p1, c1, c2

OnePeer == {p1}
TwoClusters == {c1, c2}
=============================================================================
