------------------------------ MODULE Instance ------------------------------
(***************************************************************************)
(* A KBFT instance with its timeout ticker (kbft/ticker.go) and its vote   *)
(* sets (module HeightVoteSet): the goroutine of KBFT.handler, that of     *)
(* timeoutRoutine, and the runtime that expires the timer.  What the       *)
(* handler does with a vote beyond the vote sets is module KBFT's.         *)
(*                                                                         *)
(* time.NewTimer(0) in NewTicker expires at once.  Stop returns false for  *)
(* a timer that has expired, and finds nothing to drain when the runtime   *)
(* has not yet filled the channel: a stale tick may come later.            *)
(***************************************************************************)
EXTENDS HeightVoteSet

CONSTANTS
    View,     \* ics.CurrentView() of the instance
    Honest,   \* the peers that vote in the instance's own view only
    None

ASSUME InstanceAssumption ==
    View \in Views /\ View + 1 \in Views /\ Honest \subseteq Peers /\ None \notin Views

VARIABLES
    running,   \* KBFT.handler has not returned
    step,      \* "newHeight", "propose" or "prevote" and later
    proposal,  \* kbft.Proposal is set
    armed,     \* the timer runs
    expired,   \* expiries whose tick is not in the timer's channel yet
    C,         \* the timer's channel, of capacity 1: the number of ticks in it
    tick,      \* the view of the timeout in the tick channel, or None
    info,      \* the timeout that timeoutRoutine holds: a view, or None at first
    tock,      \* how many timeouts with info or without are in tock or on the way there
    quit,      \* the quit channel is closed
    routine    \* timeoutRoutine has not returned
ticker == <<armed, expired, C, tick, info, tock, quit, routine>>
handler == <<running, step, proposal>>
allVars == <<vars, handler, ticker>>

\* NewTicker and updateToState, then Start with scheduleView.
InitInstance ==
    /\ Init
    /\ running = TRUE /\ step = "newHeight" /\ proposal = FALSE
    /\ armed = FALSE /\ expired \in {0, 1} /\ C = 0
    /\ tick = View /\ info = None
    /\ tock = [i \in {View, None} |-> 0]
    /\ quit = FALSE /\ routine = TRUE

-----------------------------------------------------------------------------
\* The runtime: the timer expires, and a send that never blocks fills its channel.
Expire ==
    /\ armed
    /\ armed' = FALSE
    /\ expired' = expired + 1
    /\ UNCHANGED <<vars, handler, C, tick, info, tock, quit, routine>>

SendTime ==
    /\ expired > 0
    /\ expired' = expired - 1
    /\ C' = 1
    /\ UNCHANGED <<vars, handler, armed, tick, info, tock, quit, routine>>

\* Ticker.Stop: what is left in the timer's channel.
drained == IF armed THEN C ELSE 0

\* Mutant: the timer is set first and then stopped.
Schedule_stopLast ==
    /\ routine /\ tick # None
    /\ tick' = None /\ info' = tick
    /\ armed' = FALSE /\ C' = C
    /\ UNCHANGED <<vars, handler, expired, tock, quit, routine>>

\* timeoutRoutine takes the timeout, the only one there is: Stop, then Reset.
Schedule ==
    /\ routine /\ tick # None
    /\ tick' = None /\ info' = tick
    /\ armed' = TRUE /\ C' = drained
    /\ UNCHANGED <<vars, handler, expired, tock, quit, routine>>

\* timeoutRoutine passes on a tick, stale or not, with the timeout it holds.
Tock ==
    /\ routine /\ C = 1
    /\ C' = 0
    /\ tock' = [tock EXCEPT ![info] = @ + 1]
    /\ UNCHANGED <<vars, handler, armed, expired, tick, info, quit, routine>>

Quit ==
    /\ routine /\ quit
    /\ routine' = FALSE
    /\ UNCHANGED <<vars, handler, armed, expired, C, tick, info, tock, quit>>

-----------------------------------------------------------------------------
\* enterNewView and enterPropose: the proposal is cleared and the vote sets move on.
enterNewView ==
    /\ SetView(View + 1)
    /\ step' = "propose"
    /\ proposal' = FALSE

\* Mutant: a timeout is not compared with the step.
HandleTimeout_anyStep(i) ==
    /\ running /\ ~panicked /\ tock[i] > 0
    /\ tock' = [tock EXCEPT ![i] = @ - 1]
    /\ IF i = View THEN enterNewView ELSE UNCHANGED <<vars, step, proposal>>
    /\ UNCHANGED <<running, armed, expired, C, tick, info, quit, routine>>

\* handleTimeout: one without heights, and one for an earlier step, is dropped.
HandleTimeout(i) ==
    /\ running /\ ~panicked /\ tock[i] > 0
    /\ tock' = [tock EXCEPT ![i] = @ - 1]
    /\ IF i = View /\ step = "newHeight" THEN enterNewView ELSE UNCHANGED <<vars, step, proposal>>
    /\ UNCHANGED <<running, armed, expired, C, tick, info, quit, routine>>

\* setProposal with enterPrevote; a second proposal is refused.
SetProposal ==
    /\ running /\ ~panicked /\ ~proposal
    /\ proposal' = TRUE
    /\ step' = "prevote"
    /\ UNCHANGED <<vars, running, ticker>>

\* addVote, for a single vote and for a certificate of the leader.
HandleVote ==
    /\ running /\ ~panicked
    /\ \/ \E p \in Honest : AddVote(p, View)
       \/ \E p \in Peers \ Honest, v \in Views : AddVote(p, v)
       \/ \E v \in Views : AddQC(v)
    /\ UNCHANGED <<handler, ticker>>

\* Mutant: the ticker is stopped and not closed.
Return_notClosed ==
    /\ running /\ ~panicked
    /\ running' = FALSE
    /\ armed' = FALSE /\ C' = drained
    /\ UNCHANGED <<vars, step, proposal, expired, tick, info, tock, quit, routine>>

\* KBFT.handler returns, after Close, at the timeout or when its channel is closed.
Return ==
    /\ running /\ ~panicked
    /\ running' = FALSE
    /\ armed' = FALSE /\ C' = drained
    /\ quit' = TRUE
    /\ UNCHANGED <<vars, step, proposal, expired, tick, info, tock, routine>>

Timeouts == \E i \in {View, None} : HandleTimeout(i)

NextInstance ==
    \/ Expire \/ SendTime \/ Schedule \/ Tock \/ Quit
    \/ Timeouts \/ SetProposal \/ HandleVote \/ Return

(***************************************************************************)
(* Both goroutines and the runtime go on.  select chooses among what is    *)
(* ready at random, so a case that stays ready is taken.                   *)
(***************************************************************************)
InstanceFairness ==
    /\ WF_allVars(Expire) /\ WF_allVars(SendTime)
    /\ WF_allVars(Schedule) /\ WF_allVars(Tock) /\ WF_allVars(Quit)
    /\ WF_allVars(Timeouts)

InstanceSpec == InitInstance /\ [][NextInstance]_allVars /\ InstanceFairness

-----------------------------------------------------------------------------
(***************************************************************************)
(* A proposal that is set is never cleared again: enterNewView clears it,  *)
(* and a stale tick can make the only timeout fire twice, or after the     *)
(* proposal has come.                                                      *)
(***************************************************************************)
ProposalKept == [][proposal => proposal']_allVars

(***************************************************************************)
(* Whatever views the votes of other peers and the certificates name, a    *)
(* vote of a peer that stays in the instance's view is never refused for   *)
(* want of vote sets.  SetView is not what provides them: it asks for none *)
(* when the highest view is 0.                                             *)
(***************************************************************************)
OwnViewAccepted == \A p \in Honest : ~panicked => ENABLED AddVote(p, View)

(***************************************************************************)
(* The handler uses its vote sets as HeightVoteSet takes for granted, with *)
(* growing views, so what is proved of them holds in the instance.         *)
(***************************************************************************)
UsesVoteSets == Spec

\* The only timeout is not lost in the ticker, whatever the stale tick does.
LeavesNewHeight == <>(step # "newHeight" \/ ~running)

\* The goroutine of the ticker ends when the instance does.
TickerEnds == ~running ~> ~routine
=============================================================================
