------------------------------ MODULE Decision ------------------------------
(***************************************************************************)
(* What one view of a cluster promises its nodes, whoever is faulty: they  *)
(* lock one value at most, never let go of it, and a value is decided only *)
(* when a quorum has locked it.  KBFT implements it.                       *)
(***************************************************************************)
CONSTANTS
    Replicas, \* the nodes that follow the code
    Values,
    Quorums,  \* the sets of members that locks have to reach
    None

VARIABLES
    locked,   \* what a member has stored before it precommits
    decided   \* what a member has added to its chain
vars == <<locked, decided>>

Init ==
    /\ locked = [n \in Replicas |-> None]
    /\ decided = [n \in Replicas |-> None]

NoOtherLock(v) == \A m \in Replicas : locked[m] \in {None, v}

Lock(n, v) ==
    /\ locked' = [locked EXCEPT ![n] = v]
    /\ NoOtherLock(v)
    /\ UNCHANGED decided

\* A member may decide what it has not locked before; deciding locks.
Decide(n, v) ==
    /\ decided[n] = None
    /\ decided' = [decided EXCEPT ![n] = v]
    /\ locked' = [locked EXCEPT ![n] = v]
    /\ NoOtherLock(v)
    /\ \E Q \in Quorums : \A m \in Q : locked'[m] = v

Next == \E n \in Replicas, v \in Values : Lock(n, v) \/ Decide(n, v)

Spec == Init /\ [][Next]_vars
=============================================================================
