----------------------------- MODULE MCPrepare -----------------------------
EXTENDS Prepare

CONSTANTS o, a, b, c, d, r

\* A participant of four nodes, a new account, a participant that shares a node with the
\* first and will be excluded, and the stochastic set.
ThreeAccounts == <<<<o, a, b, c>>, <<>>, <<c, d>>, <<r>>>>
ThreeAccountsSizes == <<4, 0, 2, 1>>
=============================================================================
