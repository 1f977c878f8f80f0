--------------------------- MODULE HeightVoteSet ---------------------------
(***************************************************************************)
(* The vote sets of a cluster by view (types/votesetheight.go).  Every     *)
(* method holds the mutex for its whole body, so each one is a step.       *)
(* Views are unsigned integers of W bits (64 in the code).  What a vote    *)
(* set does with a vote is the subject of VoteSet; here are the views that *)
(* have vote sets, which a vote keeps even when it is refused.             *)
(***************************************************************************)
EXTENDS Naturals, Sequences, FiniteSets

CONSTANTS
    Peers,    \* the nodes a vote is received from
    W,        \* the width of a view
    MaxView   \* bound: the views that votes name and that are set

ASSUME HeightVoteSetAssumption ==
    /\ IsFiniteSet(Peers)
    /\ W \in Nat \ {0, 1}
    /\ MaxView \in 1 .. (2 ^ W - 2)

Views == 0 .. MaxView

VARIABLES
    view,         \* the highest tracking view
    viewVoteSet,  \* the views that have vote sets
    catchup,      \* peerCatchupRounds
    leaderViews,  \* history: the views that SetView or a certificate asked for
    panicked
vars == <<view, viewVoteSet, catchup, leaderViews, panicked>>

TypeOK ==
    /\ view \in Views
    /\ viewVoteSet \subseteq Views
    /\ catchup \in [Peers -> Seq(Views)]
    /\ leaderViews \subseteq viewVoteSet
    /\ panicked \in BOOLEAN

\* NewHeightVoteSet and Reset.
Init ==
    /\ view = 0
    /\ viewVoteSet = {0}
    /\ catchup = [p \in Peers |-> <<>>]
    /\ leaderViews = {0}
    /\ panicked = FALSE

\* Mutant: a peer is charged for every view it votes in.
AddVote_charged(p, v) ==
    /\ v \in viewVoteSet \/ Len(catchup[p]) < 2
    /\ viewVoteSet' = viewVoteSet \cup {v}
    /\ catchup' = IF Len(catchup[p]) < 2 THEN [catchup EXCEPT ![p] = Append(@, v)] ELSE catchup
    /\ UNCHANGED <<view, leaderViews, panicked>>

\* Mutant: the peers share the two views they may be ahead in.
AddVote_shared(p, v) ==
    /\ v \in viewVoteSet \/ \A q \in Peers : Len(catchup[q]) < 2
    /\ viewVoteSet' = viewVoteSet \cup {v}
    /\ catchup' = IF v \in viewVoteSet THEN catchup
                  ELSE [catchup EXCEPT ![p] = Append(@, v)]
    /\ UNCHANGED <<view, leaderViews, panicked>>

\* AddVote.  A vote for a view without vote sets adds them, at most twice for one
\* peer, and keeps them when the vote then turns out not to be valid.
AddVote(p, v) ==
    /\ v \in viewVoteSet \/ Len(catchup[p]) < 2
    /\ viewVoteSet' = viewVoteSet \cup {v}
    /\ catchup' = IF v \in viewVoteSet THEN catchup
                  ELSE [catchup EXCEPT ![p] = Append(@, v)]
    /\ UNCHANGED <<view, leaderViews, panicked>>

\* AddQC: a certificate of the leader adds the vote sets of its view whenever
\* there are none.
AddQC(v) ==
    /\ viewVoteSet' = viewVoteSet \cup {v}
    /\ leaderViews' = leaderViews \cup {v}
    /\ UNCHANGED <<view, catchup, panicked>>

\* The views SetView(v) asks for: r runs from the unsigned view - 1 up to v.
asked(v) == {r \in Views : (view + 2 ^ W - 1) % (2 ^ W) <= r /\ r <= v}

Panic ==
    /\ panicked' = TRUE
    /\ UNCHANGED <<view, viewVoteSet, catchup, leaderViews>>

\* Mutant: the loop starts at the highest view and does not skip the views that exist.
SetView_noSkip(v) ==
    IF \E r \in viewVoteSet : view <= r /\ r <= v
    THEN Panic
    ELSE /\ viewVoteSet' = viewVoteSet \cup {r \in Views : view <= r /\ r <= v}
         /\ leaderViews' = leaderViews \cup {r \in Views : view <= r /\ r <= v}
         /\ view' = v
         /\ UNCHANGED <<catchup, panicked>>

\* SetView.  It panics when v lies more than one view back.
SetView(v) ==
    IF view # 0 /\ v < view - 1
    THEN Panic
    ELSE /\ viewVoteSet' = viewVoteSet \cup asked(v)
         /\ leaderViews' = leaderViews \cup asked(v)
         /\ view' = v
         /\ UNCHANGED <<catchup, panicked>>

\* The KBFT handler calls SetView with growing views.
Next ==
    /\ ~ panicked
    /\ \/ \E v \in Views, p \in Peers : AddVote(p, v)
       \/ \E v \in Views : AddQC(v)
       \/ \E v \in Views : v > view /\ SetView(v)

Spec == Init /\ [][Next]_vars

(***************************************************************************)
(* Properties                                                              *)
(***************************************************************************)

\* Memory is bounded: apart from the first view and the ones the leader asked
\* for, the votes of a peer make the node track at most two views, whatever
\* views they name and whether they are valid or not, and a view is charged to
\* one peer only.
ViewsBounded ==
    /\ Cardinality(viewVoteSet \ leaderViews) <= 2 * Cardinality(Peers)
    /\ \A v \in viewVoteSet \ leaderViews : \E p \in Peers : \E k \in 1 .. Len(catchup[p]) :
          catchup[p][k] = v
    /\ \A p, q \in Peers : \A j \in 1 .. Len(catchup[p]), k \in 1 .. Len(catchup[q]) :
          catchup[p][j] = catchup[q][k] => p = q /\ j = k

\* Neither the panic of addView nor the one of SetView is ever reached: votes and
\* certificates that ran ahead of SetView do not make it add a view twice.
NeverPanics == ~ panicked
=============================================================================
