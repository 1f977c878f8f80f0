------------------------------- MODULE MCKBFT -------------------------------
EXTENDS KBFT

CONSTANTS o, a, b, c, r, t1, t2

OneAccount == <<<<o, a, b, c>>, <<r>>>>
OneAccountSizes == <<4, 1>>
TwoAccounts == <<<<o, a>>, <<a, b>>, <<r>>>>
TwoAccountsSizes == <<2, 2, 1>>

FaultySigned == {v \in Votes : KramaID(v.index) \in Faulty}
NoFaultyVotes == [n \in Honest |-> {}]
\* One validator also gets the precommits of the faulty one as single votes.
VotesToOne == [n \in Honest |-> {v \in FaultySigned : n = c /\ v.type = "precommit" /\ KramaID(v.index) = r}]

\* Two smallest quorums, and the faulty members with the signer that is in both.
OperatorQcBits ==
    {{<<1, 1>>, <<1, 2>>, <<1, 3>>, <<2, 1>>}, {<<1, 1>>, <<1, 2>>, <<1, 4>>, <<2, 1>>},
     {<<1, 1>>, <<1, 2>>, <<2, 1>>}}
=============================================================================
