------------------------------ MODULE MCSlots ------------------------------
(* Slots with three clusters and three accounts, one of them shared.       *)
EXTENDS Slots, TLC

CONSTANTS c1, c2, c3, shared, own1, own2, s1

MCClusters == {c1, c2, c3}
MCSyncIDs == {s1}
MCAddrs == {shared, own1, own2}
MCSharedAddrs == {shared}
SlotSymmetry == Permutations(MCClusters) \cup Permutations({own1, own2})
=============================================================================
