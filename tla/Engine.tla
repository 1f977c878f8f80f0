------------------------------- MODULE Engine -------------------------------
(***************************************************************************)
(* The goroutines of one Krama engine (handler.go, ics_handler.go,         *)
(* krama_engine.go): the main loop, one icsHandler per cluster and the BFT *)
(* goroutine it starts.  The main loop owns the slots; a handler that      *)
(* returns asks it, through icsCloseCh, to clean up.  What the handlers    *)
(* compute is in modules Views and KBFT: here an outcome that depends on   *)
(* it is a choice.                                                         *)
(***************************************************************************)
EXTENDS Integers, Sequences, FiniteSets

CONSTANTS
    Clusters, Addrs, OperatorSlots, ValidatorSlots,   \* as in module Slots
    FailedViews,  \* the operator clusters that retry a tesseract of a failed view
    Quorum,       \* how many PREPARED messages of other nodes complete a quorum
    Replies,      \* how many nodes answer a PREPARE
    MsgsCap,      \* the capacity of Slot.Msgs
    MaxView       \* bound: the last view

VARIABLES
    request, slots, activeAccounts, availableOperatorSlots, availableValidatorSlots,
    view,         \* Engine.view
    futureMsg,    \* Engine.futureMsg: the views of the PREPARE messages kept for later
    answered,     \* the views whose PREPARE this node has answered
    arrived,      \* the views whose PREPARE has arrived
    timely,       \* those among them that arrived in their view or in the one before
    main,         \* where the main loop is
    handler,      \* per cluster: its icsHandler
    clusterView,  \* ClusterState.view
    stage,        \* Slot.Stage
    responded,    \* how many PREPARED messages the handler has counted
    replies,      \* PREPARED messages that have not arrived yet
    msgs,         \* Slot.Msgs
    bft           \* the BFT goroutine of the cluster

slotVars == <<request, slots, activeAccounts, availableOperatorSlots, availableValidatorSlots>>
viewVars == <<view, futureMsg, answered, arrived, timely>>
icsVars == <<clusterView, stage, responded, replies, msgs, bft>>
vars == <<slotVars, viewVars, main, handler, icsVars>>

\* No interaction read-locks an account here, and nobody but consensus locks one.
S == INSTANCE Slots WITH SyncIDs <- {}, SharedAddrs <- {}, MaxInfos <- 0, syncLocks <- {}

ASSUME EngineAssumption ==
    /\ FailedViews \subseteq Clusters
    /\ OperatorSlots \in Nat /\ ValidatorSlots \in Nat
    /\ Quorum \in Nat /\ Replies \in Nat /\ MsgsCap \in Nat \ {0} /\ MaxView \in Nat

IsOperator(c) == request[c].slotType = "operator"
Select == [at |-> "select"]

Init ==
    /\ S!Init
    /\ view = 0 /\ futureMsg = <<>> /\ answered = {} /\ arrived = {} /\ timely = {}
    /\ main = Select
    /\ handler = [c \in Clusters |-> "none"]
    /\ clusterView = [c \in Clusters |-> 0]
    /\ stage = [c \in Clusters |-> 0]
    /\ responded = [c \in Clusters |-> 0]
    /\ replies = [c \in Clusters |-> 0]
    /\ msgs = [c \in Clusters |-> <<>>]
    /\ bft = [c \in Clusters |-> "none"]

-----------------------------------------------------------------------------
(* The main loop: a view tick.                                             *)

NewClusters == {c \in Clusters : IsOperator(c) /\ handler[c] = "none"}

\* What a new view tries, in order: first the failed views, then the batches of the pool.
Plans ==
    {todo \in UNION {[1 .. k -> NewClusters] : k \in 0 .. Cardinality(NewClusters)} :
        \A i, j \in DOMAIN todo : i < j =>
            todo[i] # todo[j] /\ (todo[j] \in FailedViews => todo[i] \in FailedViews)}

\* Mutant: the messages kept for this view are dropped.
Replayed_none == {}

\* A PREPARE that was kept is answered if this is its view.
Replayed == {futureMsg[i] : i \in DOMAIN futureMsg} \cap {view + 1}

ViewTick ==
    /\ main = Select
    /\ view < MaxView
    /\ view' = view + 1
    /\ answered' = answered \cup Replayed
    /\ futureMsg' = <<>>
    /\ \E todo \in Plans : main' = [at |-> "view", todo |-> todo]
    /\ UNCHANGED <<slotVars, arrived, timely, handler, icsVars>>

\* handleNewView and handleFailedView take the next cluster and lock its accounts.
StartCluster ==
    /\ main.at = "view" /\ main.todo # <<>>
    /\ LET c == Head(main.todo) IN
       IF S!areAccountsActive(request[c].locks)
       THEN /\ handler' = [handler EXCEPT ![c] = "closed"]
            \* a refused batch ends the loop over the batches
            /\ main' = IF c \in FailedViews
                       THEN [at |-> "view", todo |-> Tail(main.todo)] ELSE Select
            /\ UNCHANGED slotVars
       ELSE /\ S!CreateSlotAndLockAccounts(c)
            /\ handler' = [handler EXCEPT ![c] = "creating"]
            /\ main' = [at |-> "creating", cluster |-> c, todo |-> Tail(main.todo)]
    /\ UNCHANGED <<viewVars, icsVars>>

EndView ==
    /\ main.at = "view" /\ main.todo = <<>>
    /\ main' = Select
    /\ UNCHANGED <<slotVars, viewVars, handler, icsVars>>

\* The cluster state is loaded, the interactions are valid: go icsHandler.
CreateICS ==
    /\ main.at = "creating"
    /\ handler' = [handler EXCEPT ![main.cluster] = "running"]
    /\ clusterView' = [clusterView EXCEPT ![main.cluster] = view]
    /\ IF IsOperator(main.cluster)
       THEN /\ main' = [main EXCEPT !.at = "handoff"]
            /\ UNCHANGED msgs
       ELSE /\ main' = Select
            /\ msgs' = [msgs EXCEPT ![main.cluster] = Append(@, "proposal")]
    /\ UNCHANGED <<slotVars, viewVars, stage, responded, replies, bft>>

\* Mutant: the slot of a cluster that could not be created is left behind.
CreateFails_noCleanup ==
    /\ main.at = "creating"
    /\ handler' = [handler EXCEPT ![main.cluster] = "closed"]
    /\ main' = Select
    /\ UNCHANGED <<slotVars, viewVars, icsVars>>

\* Any failure after the slot was created: the caller cleans it up.
CreateFails ==
    /\ main.at = "creating"
    /\ S!CleanupSlot(main.cluster)
    /\ handler' = [handler EXCEPT ![main.cluster] = "closed"]
    /\ main' = IF main.cluster \in FailedViews /\ IsOperator(main.cluster)
               THEN [at |-> "view", todo |-> main.todo] ELSE Select
    /\ UNCHANGED <<viewVars, icsVars>>

-----------------------------------------------------------------------------
(* The main loop: messages.                                                *)

\* handlePrepare answers a PREPARE of the current view and keeps one of the next.
HandlePrepare(v) ==
    /\ main = Select
    /\ v \notin arrived
    /\ arrived' = arrived \cup {v}
    /\ timely' = IF v \in {view, view + 1} THEN timely \cup {v} ELSE timely
    /\ answered' = IF v = view THEN answered \cup {v} ELSE answered
    /\ futureMsg' = IF v = view + 1 THEN Append(futureMsg, v) ELSE futureMsg
    /\ UNCHANGED <<slotVars, view, main, handler, icsVars>>

\* Mutant: the queue is taken to be unbounded.
ForwardPrepared_unbounded(c) ==
    /\ main = Select
    /\ replies[c] > 0
    /\ replies' = [replies EXCEPT ![c] = @ - 1]
    /\ msgs' = [msgs EXCEPT ![c] = IF c \in DOMAIN slots THEN Append(@, "prepared") ELSE @]
    /\ UNCHANGED <<slotVars, viewVars, main, handler, clusterView, stage, responded, bft>>

\* ForwardMsgToICSHandler drops a PREPARED message when Msgs is full; so does a missing slot.
ForwardPrepared(c) ==
    /\ main = Select
    /\ replies[c] > 0
    /\ replies' = [replies EXCEPT ![c] = @ - 1]
    /\ msgs' = [msgs EXCEPT ![c] =
           IF c \in DOMAIN slots /\ Len(@) < MsgsCap THEN Append(@, "prepared") ELSE @]
    /\ UNCHANGED <<slotVars, viewVars, main, handler, clusterView, stage, responded, bft>>

\* createICSForProposal, until the accounts are locked.
HandleProposalMsg(c) ==
    /\ main = Select
    /\ ~IsOperator(c) /\ handler[c] = "none"
    /\ IF S!areAccountsActive(request[c].locks)
       THEN /\ handler' = [handler EXCEPT ![c] = "closed"]
            /\ UNCHANGED <<slotVars, main>>
       ELSE /\ S!CreateSlotAndLockAccounts(c)
            /\ handler' = [handler EXCEPT ![c] = "creating"]
            /\ main' = [at |-> "creating", cluster |-> c, todo |-> <<>>]
    /\ UNCHANGED <<viewVars, icsVars>>

\* Mutant: the slot goes, its account locks stay.
CloseSlot_keepsLocks(c) ==
    /\ main = Select
    /\ handler[c] = "closing"
    /\ slots' = [d \in DOMAIN slots \ {c} |-> slots[d]]
    /\ handler' = [handler EXCEPT ![c] = "closed"]
    /\ UNCHANGED <<request, activeAccounts, availableOperatorSlots, availableValidatorSlots>>
    /\ UNCHANGED <<viewVars, main, icsVars>>

\* A handler that has returned hands its cluster over icsCloseCh.
CloseSlot(c) ==
    /\ main = Select
    /\ handler[c] = "closing"
    /\ S!CleanupSlot(c)
    /\ handler' = [handler EXCEPT ![c] = "closed"]
    /\ UNCHANGED <<viewVars, main, icsVars>>

-----------------------------------------------------------------------------
(* The icsHandler of cluster c.                                            *)

Return(c) == handler' = [handler EXCEPT ![c] = "closing"]

\* The rendezvous on NewICSChan frees the main loop; sendPrepare may fail.
SendPrepare(c) ==
    /\ main.at = "handoff" /\ main.cluster = c
    /\ main' = [at |-> "view", todo |-> main.todo]
    /\ \/ replies' = [replies EXCEPT ![c] = Replies] /\ UNCHANGED handler
       \/ Return(c) /\ UNCHANGED replies
    /\ UNCHANGED <<slotVars, viewVars, clusterView, stage, responded, msgs, bft>>

\* Mutant: the stage is not looked at.
HandlerTimeout_anyStage(c) ==
    /\ handler[c] = "running"
    /\ main.at = "handoff" => main.cluster # c
    /\ Return(c)
    /\ UNCHANGED <<slotVars, viewVars, main, icsVars>>

\* The timer counts only as long as the BFT has not been started.
HandlerTimeout(c) ==
    /\ handler[c] = "running"
    /\ main.at = "handoff" => main.cluster # c
    /\ stage[c] = 0
    /\ Return(c)
    /\ UNCHANGED <<slotVars, viewVars, main, icsVars>>

Take(c, m) ==
    /\ handler[c] = "running"
    /\ msgs[c] # <<>> /\ Head(msgs[c]) = m
    /\ msgs' = [msgs EXCEPT ![c] = Tail(@)]

\* A PREPARED message is refused when the view is over, and counted otherwise.
HandlePrepared(c) ==
    /\ Take(c, "prepared")
    /\ IF view # clusterView[c]
       THEN UNCHANGED <<stage, responded, bft>>
       ELSE /\ responded' = [responded EXCEPT ![c] = @ + 1]
            /\ IF responded[c] + 1 >= Quorum /\ stage[c] = 0
               THEN /\ stage' = [stage EXCEPT ![c] = 1]
                    /\ \/ bft' = [bft EXCEPT ![c] = "running"]
                       \/ UNCHANGED bft   \* an early return: see Views!AfterQuorum
               ELSE UNCHANGED <<stage, bft>>
    /\ UNCHANGED <<slotVars, viewVars, main, handler, clusterView, replies>>

\* Mutant: the stage is set before the proposal is validated, and the handler stays.
HandleProposal_stageFirst(c) ==
    /\ Take(c, "proposal")
    /\ stage' = [stage EXCEPT ![c] = 1]
    /\ \/ UNCHANGED bft
       \/ bft' = [bft EXCEPT ![c] = "running"]
    /\ UNCHANGED <<slotVars, viewVars, main, handler, clusterView, responded, replies>>

\* A proposal that does not validate ends the handler; the BFT is started for the others.
HandleProposal(c) ==
    /\ Take(c, "proposal")
    /\ \/ Return(c) /\ UNCHANGED <<stage, bft>>
       \/ /\ stage' = [stage EXCEPT ![c] = 1]
          /\ bft' = [bft EXCEPT ![c] = "running"]
          /\ UNCHANGED handler
    /\ UNCHANGED <<slotVars, viewVars, main, clusterView, responded, replies>>

\* The BFT ends, with a commit or by its timeout, and waits on BftStopChan.
BftExits(c) ==
    /\ bft[c] = "running"
    /\ bft' = [bft EXCEPT ![c] = "stopping"]
    /\ UNCHANGED <<slotVars, viewVars, main, handler, clusterView, stage, responded, replies, msgs>>

BftStop(c) ==
    /\ handler[c] = "running" /\ bft[c] = "stopping"
    /\ bft' = [bft EXCEPT ![c] = "stopped"]
    /\ Return(c)
    /\ UNCHANGED <<slotVars, viewVars, main, clusterView, stage, responded, replies, msgs>>

Main ==
    \/ StartCluster \/ EndView \/ CreateICS \/ CreateFails
    \/ \E c \in Clusters : CloseSlot(c)

Handler(c) ==
    \/ SendPrepare(c) \/ HandlerTimeout(c) \/ HandlePrepared(c) \/ HandleProposal(c) \/ BftStop(c)

Next ==
    \/ ViewTick \/ Main
    \/ \E v \in 1 .. MaxView : HandlePrepare(v)
    \/ \E c \in Clusters : ForwardPrepared(c) \/ HandleProposalMsg(c) \/ Handler(c) \/ BftExits(c)

Spec == Init /\ [][Next]_vars

(***************************************************************************)
(* Every goroutine goes on when it can, and the timers fire: that of a     *)
(* handler without a BFT, and the context of a BFT.  The select of the     *)
(* main loop picks among the ready channels at random, so a handler that   *)
(* waits on icsCloseCh is served even though the main loop is at times     *)
(* elsewhere.                                                              *)
(***************************************************************************)
FairSpec ==
    /\ Spec
    /\ WF_vars(StartCluster \/ EndView \/ CreateICS \/ CreateFails)
    /\ \A c \in Clusters :
          /\ WF_vars(SendPrepare(c)) /\ WF_vars(HandlerTimeout(c))
          /\ WF_vars(BftExits(c)) /\ WF_vars(BftStop(c))
          /\ SF_vars(CloseSlot(c))

-----------------------------------------------------------------------------
(* Properties.                                                             *)

\* The slots, the queue of a handler within its capacity, and the states of the goroutines.
TypeOK ==
    /\ S!TypeOK
    /\ view \in 0 .. MaxView
    /\ futureMsg \in Seq(1 .. MaxView)
    /\ handler \in [Clusters -> {"none", "creating", "running", "closing", "closed"}]
    /\ stage \in [Clusters -> {0, 1}]
    /\ bft \in [Clusters -> {"none", "running", "stopping", "stopped"}]
    /\ \A c \in Clusters : Len(msgs[c]) <= MsgsCap

(***************************************************************************)
(* A slot exists exactly as long as someone is going to clean it up: the   *)
(* main loop while it creates the cluster, then the cluster's handler.  A  *)
(* slot without one would keep its accounts locked for ever; a handler     *)
(* without its slot would dereference nil in handlePrepared.               *)
(***************************************************************************)
SlotIffHandler ==
    \A c \in Clusters : c \in DOMAIN slots <=> handler[c] \in {"creating", "running", "closing"}

(***************************************************************************)
(* While its BFT runs, a cluster keeps its slot, its handler, and is the   *)
(* only holder of its accounts: so no two BFTs of a node decide on one     *)
(* account, and none blocks for ever on BftStopChan.                       *)
(***************************************************************************)
BftOwnsAccounts ==
    \A c \in Clusters : bft[c] \in {"running", "stopping"} =>
        /\ handler[c] = "running"
        /\ c \in DOMAIN slots
        /\ \A a \in DOMAIN request[c].locks :
              activeAccounts[a] = <<[lockType |-> "mutate", clusterID |-> c]>>

\* A PREPARE that arrives in its view, or one view early, is answered once its view has begun.
TimelyPrepareAnswered == \A v \in timely : v <= view => v \in answered

\* The engine uses the slots the way module Slots describes, so its theorems hold here.
SlotsSpec == S!Spec

\* handlePrepared has set the stage and returned without starting the BFT.
GaveUp(c) == IsOperator(c) /\ stage[c] = 1 /\ bft[c] = "none"

(***************************************************************************)
(* Every cluster that takes a slot gives it back, and with it its account  *)
(* locks, whatever fails on the way: a creation, a proposal, the BFT.  The *)
(* one exception is an operator that gives up after its quorum.            *)
(***************************************************************************)
SlotsReleased == \A c \in Clusters : c \in DOMAIN slots ~> (c \notin DOMAIN slots \/ GaveUp(c))

(***************************************************************************)
(* "we should handle this time out if bft is not started": a slot whose    *)
(* BFT does not run is given back.  The code does not keep it when an      *)
(* operator gives up after it has set the stage.                           *)
(***************************************************************************)
EverySlotReleased == \A c \in Clusters : c \in DOMAIN slots ~> c \notin DOMAIN slots
=============================================================================
