------------------------------ MODULE MCEngine ------------------------------
EXTENDS Engine

CONSTANTS c1, c2
=============================================================================
