----------------------------- MODULE Committee -----------------------------
(***************************************************************************)
(* The committee of one cluster (types/nodeset.go, types/ics.go): one node *)
(* set per participant account, in address order, and the stochastic set   *)
(* last.  The validator index of the code counts through the sets one      *)
(* after the other; here it is the pair <<set position, place in the set>>,*)
(* ordered the same way.                                                   *)
(***************************************************************************)
EXTENDS Integers, Sequences, FiniteSets

CONSTANTS
    Nodes,                \* Krama IDs
    Sets,                 \* ICSCommittee.Sets: a sequence of sequences of nodes; <<>> for a nil set
    SetSizeWithOutDelta,  \* per set: the size the quorum is computed from
    ExcludedSets          \* the positions of the participants excluded from the ICS

Positions == DOMAIN Sets
StochasticSetPosition == Len(Sets)
Indices == UNION {{<<p, k>> : k \in DOMAIN Sets[p]} : p \in Positions}

KramaID(i) == Sets[i[1]][i[2]]
Members(p) == {Sets[p][k] : k \in DOMAIN Sets[p]}

\* The order of the flat indices.
Before(i, j) == i[1] < j[1] \/ (i[1] = j[1] /\ i[2] < j[2])

(***************************************************************************)
(* GetKramaID: the sets a vote with index i counts for.  Besides its own   *)
(* set these are the later participant sets its node is also a member of,  *)
(* never the stochastic set.                                               *)
(***************************************************************************)
SlotsOf(i) ==
    {i[1]} \cup {p \in (i[1] + 1) .. (Len(Sets) - 1) : KramaID(i) \in Members(p)}

\* HasKramaID: the first index of a node is the one it votes with.
IsFirstIndex(n, i) == KramaID(i) = n /\ \A j \in Indices : KramaID(j) = n => ~Before(j, i)
IndexOf(n) == CHOOSE i \in Indices : IsFirstIndex(n, i)

(***************************************************************************)
(* GetQuorum, with ParticipantQuorum and RandomQuorumSize.  A participant  *)
(* without nodes and an excluded one have quorum 0.                        *)
(***************************************************************************)
Quorum(p) ==
    IF p # StochasticSetPosition /\ (p \in ExcludedSets \/ SetSizeWithOutDelta[p] = 0)
    THEN 0
    ELSE (SetSizeWithOutDelta[p] * 2) \div 3 + 1

Weight(p, voters) == Cardinality({i \in voters : p \in SlotsOf(i)})

\* Mutant: the quorum of one set is enough.
HasQuorum_oneSet(voters) == \E p \in Positions : Weight(p, voters) >= Quorum(p)

\* areGreater: every set has reached its quorum.
HasQuorum(voters) == \A p \in Positions : Weight(p, voters) >= Quorum(p)

ASSUME CommitteeAssumption ==
    /\ Sets \in Seq(Seq(Nodes))
    /\ Len(Sets) > 0
    /\ SetSizeWithOutDelta \in [Positions -> Nat]
    /\ ExcludedSets \subseteq Positions
=============================================================================
