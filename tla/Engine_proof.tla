---------------------------- MODULE Engine_proof ----------------------------
(***************************************************************************)
(* The engine implements Slots, and its slots, handlers and agreements     *)
(* stay in step, for any number of clusters, accounts and views.           *)
(***************************************************************************)
EXTENDS Engine, TLAPS

-----------------------------------------------------------------------------
(* The slots, as the engine uses them: every lock is a mutate lock.        *)

\* A cluster with a slot is the only holder of its accounts.
Owns(c) ==
    \A a \in DOMAIN request[c].locks :
        activeAccounts[a] = <<[lockType |-> "mutate", clusterID |-> c]>>

SlotsInv == S!TypeOK /\ \A c \in DOMAIN slots : Owns(c)

\* Interactions only mutate their accounts.
LEMMA OnlyMutates ==
    ASSUME S!TypeOK, NEW c \in Clusters, NEW a \in DOMAIN request[c].locks
    PROVE  a \in Addrs /\ request[c].locks[a] = "mutate"
<1>1. request[c].locks \in S!LockMaps
  BY Zenon DEF S!TypeOK, S!Requests
<1> QED
  BY <1>1 DEF S!LockMaps, S!LockTypes

\* An account that is not active has an empty list.
LEMMA FreeAccounts ==
    ASSUME S!TypeOK, NEW c \in Clusters, ~ S!areAccountsActive(request[c].locks),
           NEW a \in DOMAIN request[c].locks
    PROVE  activeAccounts[a] = <<>>
<1>1. a \in Addrs /\ request[c].locks[a] = "mutate"
  BY OnlyMutates, Zenon
<1>2. activeAccounts[a] \in Seq(S!LockInfos)
  BY <1>1, Zenon DEF S!TypeOK
<1>3. activeAccounts[a] # <<>> => activeAccounts[a][1] \in S!LockInfos
  BY <1>2
<1>4. activeAccounts[a] # <<>> => activeAccounts[a][1].lockType \in {"read", "mutate"}
  BY <1>3, Zenon DEF S!LockInfos, S!LockTypes
<1> QED
  BY <1>1, <1>4, Zenon DEF S!areAccountsActive

\* A slot that is created is the only holder of its accounts, and takes none from another.
LEMMA CreateKeepsSlots ==
    ASSUME SlotsInv, NEW c \in Clusters, S!CreateSlotAndLockAccounts(c)
    PROVE  SlotsInv' /\ DOMAIN slots' = DOMAIN slots \cup {c} /\ request' = request
<1>0. request' = request /\ request[c] \in S!Requests /\ DOMAIN slots' = DOMAIN slots \cup {c}
  BY Zenon DEF S!CreateSlotAndLockAccounts, SlotsInv, S!TypeOK
<1>1. activeAccounts' \in [Addrs -> Seq(S!LockInfos)]
  <2>1. ASSUME NEW a \in DOMAIN request[c].locks
        PROVE  [lockType |-> request[c].locks[a], clusterID |-> c] \in S!LockInfos
    BY OnlyMutates, Zenon DEF S!LockInfos, S!LockTypes, SlotsInv
  <2>2. ASSUME NEW a \in Addrs PROVE activeAccounts'[a] \in Seq(S!LockInfos)
    BY <2>1 DEF S!CreateSlotAndLockAccounts, S!addActiveAccounts, SlotsInv, S!TypeOK
  <2> QED
    BY <2>2, Zenon DEF S!CreateSlotAndLockAccounts, S!addActiveAccounts
<1>2. \A d \in DOMAIN slots' : slots'[d] = request'[d]
  BY <1>0, Zenon DEF S!CreateSlotAndLockAccounts, S!NewSlot, SlotsInv, S!TypeOK, S!Requests
<1>3. S!TypeOK'
  <2>1. slots' = [d \in DOMAIN slots' |-> slots'[d]]
    BY Zenon DEF S!CreateSlotAndLockAccounts
  <2>2. availableOperatorSlots' \in Int /\ availableValidatorSlots' \in Int
    BY DEF S!CreateSlotAndLockAccounts, S!addToSlots, SlotsInv, S!TypeOK
  <2> QED
    BY <1>0, <1>1, <1>2, <2>1, <2>2, Zenon DEF S!TypeOK, SlotsInv
<1>4. ASSUME NEW d \in DOMAIN slots' PROVE Owns(d)'
  <2> SUFFICES ASSUME NEW a \in DOMAIN request[d].locks
               PROVE  activeAccounts'[a] = <<[lockType |-> "mutate", clusterID |-> d]>>
    BY <1>0, Zenon DEF Owns
  <2>0. d \in Clusters
    BY <1>0, Zenon DEF SlotsInv, S!TypeOK
  <2>1. a \in Addrs /\ request[d].locks[a] = "mutate"
    BY <2>0, OnlyMutates, Zenon DEF SlotsInv
  <2>2. CASE d = c
    <3>1. activeAccounts[a] = <<>>
      BY <2>2, FreeAccounts, Zenon DEF SlotsInv, S!CreateSlotAndLockAccounts
    <3>2. activeAccounts'[a] = Append(<<>>, [lockType |-> "mutate", clusterID |-> c])
      BY <2>1, <2>2, <3>1, Zenon DEF S!CreateSlotAndLockAccounts, S!addActiveAccounts
    <3> QED
      BY <2>2, <3>2
  <2>3. CASE d # c
    <3>1. activeAccounts[a] = <<[lockType |-> "mutate", clusterID |-> d]>>
      BY <1>0, <2>3, Zenon DEF SlotsInv, Owns
    <3>2. a \notin DOMAIN request[c].locks
      BY <3>1, FreeAccounts DEF SlotsInv, S!CreateSlotAndLockAccounts
    <3> QED
      BY <2>1, <3>1, <3>2, Zenon DEF S!CreateSlotAndLockAccounts, S!addActiveAccounts
  <2> QED
    BY <2>2, <2>3, Zenon
<1> QED
  BY <1>0, <1>3, <1>4, Zenon DEF SlotsInv

\* Dropping the lists of one slot leaves the accounts of the others alone.
LEMMA CleanupKeepsSlots ==
    ASSUME SlotsInv, NEW c \in Clusters, S!CleanupSlot(c)
    PROVE  SlotsInv' /\ DOMAIN slots' = DOMAIN slots \ {c} /\ request' = request
<1>0. request' = request /\ DOMAIN slots' = DOMAIN slots \ {c} /\ slots[c] = request[c]
  BY Zenon DEF S!CleanupSlot, SlotsInv, S!TypeOK
<1>1. S!TypeOK'
  <2>1. activeAccounts' \in [Addrs -> Seq(S!LockInfos)]
    BY DEF S!CleanupSlot, SlotsInv, S!TypeOK
  <2>2. slots' = [d \in DOMAIN slots' |-> slots'[d]] /\ \A d \in DOMAIN slots' : slots'[d] = request'[d]
    BY <1>0, Zenon DEF S!CleanupSlot, SlotsInv, S!TypeOK
  <2>3. availableOperatorSlots' \in Int /\ availableValidatorSlots' \in Int
    BY DEF S!CleanupSlot, S!addToSlots, SlotsInv, S!TypeOK
  <2> QED
    BY <1>0, <2>1, <2>2, <2>3, Zenon DEF S!TypeOK, SlotsInv
<1>2. ASSUME NEW d \in DOMAIN slots' PROVE Owns(d)'
  <2> SUFFICES ASSUME NEW a \in DOMAIN request[d].locks
               PROVE  activeAccounts'[a] = <<[lockType |-> "mutate", clusterID |-> d]>>
    BY <1>0, Zenon DEF Owns
  <2>0. d \in Clusters /\ d # c /\ d \in DOMAIN slots /\ c \in DOMAIN slots
    BY <1>0, Zenon DEF SlotsInv, S!TypeOK, S!CleanupSlot
  <2>1. a \in Addrs
    BY <2>0, OnlyMutates, Zenon DEF SlotsInv
  <2>2. activeAccounts[a] = <<[lockType |-> "mutate", clusterID |-> d]>>
    BY <2>0, Zenon DEF SlotsInv, Owns
  <2>3. ASSUME a \in DOMAIN request[c].locks PROVE FALSE
    <3>1. activeAccounts[a] = <<[lockType |-> "mutate", clusterID |-> c]>>
      BY <2>0, <2>3, Zenon DEF SlotsInv, Owns
    <3> QED
      BY <2>0, <2>2, <3>1
  <2> QED
    BY <1>0, <2>1, <2>2, <2>3, Zenon DEF S!CleanupSlot
<1> QED
  BY <1>0, <1>1, <1>2, Zenon DEF SlotsInv

-----------------------------------------------------------------------------
(* The inductive invariant.                                                *)

\* The clusters the main loop has still to start in this view.
Queue(todo) ==
    /\ todo \in Seq(Clusters)
    /\ \A i \in 1 .. Len(todo) : IsOperator(todo[i]) /\ handler[todo[i]] = "none"
    /\ \A i, j \in 1 .. Len(todo) : i # j => todo[i] # todo[j]

Mains ==
    {Select} \cup [at : {"view"}, todo : Seq(Clusters)]
             \cup [at : {"creating", "handoff"}, cluster : Clusters, todo : Seq(Clusters)]

\* The main loop creates a cluster, or waits for the handler of the one it has created.
MainInv ==
    /\ main \in Mains
    /\ main.at # "select" => Queue(main.todo)
    /\ main.at = "creating" => handler[main.cluster] = "creating"
    /\ main.at = "handoff" => handler[main.cluster] = "running" /\ IsOperator(main.cluster)

\* The handler of c has not begun, or has not yet taken from NewICSChan.
Waiting(c) == handler[c] \in {"none", "creating"} \/ (main.at = "handoff" /\ main.cluster = c)

(***************************************************************************)
(* An agreement needs a handler that runs, and its stage is set before it  *)
(* starts.  A cluster that has not begun has no messages, an operator gets *)
(* PREPARED messages only, a validator its proposal once, before its       *)
(* agreement: so the two ways for a handler to end without one, the timer  *)
(* and a refused proposal, never end it under an agreement.                *)
(***************************************************************************)
ClusterInv(c) ==
    /\ c \in DOMAIN slots <=> handler[c] \in {"creating", "running", "closing"}
    /\ bft[c] \in {"running", "stopping"} => handler[c] = "running"
    /\ stage[c] = 0 => bft[c] = "none"
    /\ Waiting(c) => stage[c] = 0 /\ replies[c] = 0 /\ msgs[c] = <<>>
    /\ IsOperator(c) => msgs[c] \in Seq({"prepared"})
    /\ ~ IsOperator(c) =>
          /\ replies[c] = 0
          /\ msgs[c] \in {<<>>, <<"proposal">>}
          /\ msgs[c] # <<>> => stage[c] = 0

IcsTypes ==
    /\ handler \in [Clusters -> {"none", "creating", "running", "closing", "closed"}]
    /\ stage \in [Clusters -> {0, 1}]
    /\ bft \in [Clusters -> {"none", "running", "stopping", "stopped"}]
    /\ replies \in [Clusters -> Nat]
    /\ msgs \in [Clusters -> Seq({"prepared", "proposal"})]
    /\ \A c \in Clusters : Len(msgs[c]) <= MsgsCap

EngineInv == SlotsInv /\ IcsTypes /\ MainInv /\ \A c \in Clusters : ClusterInv(c)

\* A node that starts satisfies the invariant.
LEMMA InitInv == Init => EngineInv
<1> SUFFICES ASSUME Init PROVE EngineInv
  BY Zenon
<1>1. SlotsInv
  BY EngineAssumption DEF Init, S!Init, SlotsInv, S!TypeOK
<1>2. IcsTypes
  BY EngineAssumption DEF Init, IcsTypes
<1>3. MainInv
  BY Zenon DEF Init, MainInv, Mains, Select
<1>4. ASSUME NEW c \in Clusters PROVE ClusterInv(c)
  <2>1. DOMAIN slots = {} /\ handler[c] = "none" /\ bft[c] = "none" /\ stage[c] = 0 /\ replies[c] = 0
    BY Zenon DEF Init, S!Init
  <2>2. msgs[c] = <<>>
    BY Zenon DEF Init
  <2> QED
    BY <2>1, <2>2 DEF ClusterInv
<1> QED
  BY <1>1, <1>2, <1>3, <1>4, Zenon DEF EngineInv

\* A step that starts no cluster that waits in the queue keeps the queue.
LEMMA QueueKept ==
    ASSUME NEW todo, Queue(todo), request' = request,
           \A d \in Clusters : handler[d] = "none" => handler'[d] = "none"
    PROVE  Queue(todo)'
BY DEF Queue, IsOperator

\* A step that is not about cluster d keeps its part of the invariant.
Untouched(d) ==
    /\ request' = request
    /\ d \in DOMAIN slots' <=> d \in DOMAIN slots
    /\ handler'[d] = handler[d] /\ bft'[d] = bft[d] /\ stage'[d] = stage[d]
    /\ replies'[d] = replies[d] /\ msgs'[d] = msgs[d]
    /\ Waiting(d)' => Waiting(d)

\* What is said of a cluster survives a step that is not about it.
LEMMA UntouchedKept ==
    ASSUME NEW d \in Clusters, ClusterInv(d), Untouched(d)
    PROVE  ClusterInv(d)'
BY Zenon DEF ClusterInv, Untouched, IsOperator

\* A step of the handler or the agreement of c, while the main loop stays where it is.
LEMMA HandlerKeeps ==
    ASSUME EngineInv, NEW c \in Clusters, UNCHANGED <<slotVars, main>>, IcsTypes', ClusterInv(c)',
           \A d \in Clusters \ {c} :
               /\ handler'[d] = handler[d] /\ bft'[d] = bft[d] /\ stage'[d] = stage[d]
               /\ replies'[d] = replies[d] /\ msgs'[d] = msgs[d],
           handler'[c] = handler[c] \/
               (handler[c] = "running" /\ ~ (main.at = "handoff" /\ main.cluster = c))
    PROVE  EngineInv'
<1>1. SlotsInv'
  BY Zenon DEF EngineInv, SlotsInv, S!TypeOK, Owns, slotVars
<1>2. MainInv'
  <2>1. main.at # "select" => Queue(main.todo)'
    BY QueueKept, Zenon DEF EngineInv, MainInv, slotVars
  <2>2. main' = main /\ request' = request
    BY Zenon DEF slotVars
  <2>3. main.at \in {"creating", "handoff"} => main.cluster \in Clusters
    BY DEF EngineInv, MainInv, Mains, Select
  <2>4. main.at = "creating" => handler'[main.cluster] = "creating"
    BY <2>3, Zenon DEF EngineInv, MainInv
  <2>5. main.at = "handoff" => handler'[main.cluster] = "running"
    BY <2>3, Zenon DEF EngineInv, MainInv
  <2> QED
    BY <2>1, <2>2, <2>4, <2>5, Zenon DEF EngineInv, MainInv, IsOperator, Queue
<1>3. ASSUME NEW d \in Clusters \ {c} PROVE ClusterInv(d)'
  BY UntouchedKept, Zenon DEF EngineInv, Untouched, Waiting, slotVars
<1> QED
  BY <1>1, <1>2, <1>3, Zenon DEF EngineInv

-----------------------------------------------------------------------------
(* The steps of a handler and of its agreement.                            *)

\* The timer of icsHandler counts only before the stage is set, so it ends no agreement.
LEMMA TimeoutInv ==
    ASSUME EngineInv, NEW c \in Clusters, HandlerTimeout(c)
    PROVE  EngineInv'
<1>1. /\ handler' = [handler EXCEPT ![c] = "closing"] /\ handler[c] = "running" /\ stage[c] = 0
      /\ ~ (main.at = "handoff" /\ main.cluster = c)
      /\ UNCHANGED <<slotVars, main, stage, replies, msgs, bft>>
  BY Zenon DEF HandlerTimeout, Return, icsVars
<1>2. IcsTypes'
  BY <1>1, Zenon DEF EngineInv, IcsTypes
<1>3. ClusterInv(c)'
  BY <1>1, Zenon DEF EngineInv, IcsTypes, ClusterInv, Waiting, IsOperator, slotVars
<1> QED
  BY <1>1, <1>2, <1>3, HandlerKeeps, Zenon DEF EngineInv, IcsTypes

\* The BFT goroutine ends and waits on BftStopChan; its handler still runs.
LEMMA BftExitsInv ==
    ASSUME EngineInv, NEW c \in Clusters, BftExits(c)
    PROVE  EngineInv'
<1>1. /\ bft' = [bft EXCEPT ![c] = "stopping"] /\ bft[c] = "running"
      /\ UNCHANGED <<slotVars, main, handler, stage, replies, msgs>>
  BY Zenon DEF BftExits
<1>2. IcsTypes'
  BY <1>1, Zenon DEF EngineInv, IcsTypes
<1>3. ClusterInv(c)'
  BY <1>1, Zenon DEF EngineInv, IcsTypes, ClusterInv, Waiting, IsOperator, slotVars
<1> QED
  BY <1>1, <1>2, <1>3, HandlerKeeps, Zenon DEF EngineInv, IcsTypes

\* The handler takes from BftStopChan and returns.
LEMMA BftStopInv ==
    ASSUME EngineInv, NEW c \in Clusters, BftStop(c)
    PROVE  EngineInv'
<1>1. /\ bft' = [bft EXCEPT ![c] = "stopped"] /\ bft[c] = "stopping"
      /\ handler' = [handler EXCEPT ![c] = "closing"] /\ handler[c] = "running"
      /\ UNCHANGED <<slotVars, main, stage, replies, msgs>>
  BY Zenon DEF BftStop, Return
<1>2. IcsTypes'
  BY <1>1, Zenon DEF EngineInv, IcsTypes
<1>3. stage[c] # 0 /\ ~ (main.at = "handoff" /\ main.cluster = c)
  BY <1>1, Zenon DEF EngineInv, ClusterInv, Waiting
<1>4. ClusterInv(c)'
  BY <1>1, <1>3, Zenon DEF EngineInv, IcsTypes, ClusterInv, Waiting, IsOperator, slotVars
<1> QED
  BY <1>1, <1>2, <1>3, <1>4, HandlerKeeps, Zenon DEF EngineInv, IcsTypes

\* What is taken from the queue of a handler, and what is left of it.
LEMMA Taken ==
    ASSUME EngineInv, NEW c \in Clusters, NEW m \in {"prepared", "proposal"}, Take(c, m)
    PROVE  /\ handler[c] = "running" /\ ~ (main.at = "handoff" /\ main.cluster = c)
           /\ msgs' \in [Clusters -> Seq({"prepared", "proposal"})]
           /\ \A d \in Clusters \ {c} : msgs'[d] = msgs[d]
           /\ \A d \in Clusters : Len(msgs'[d]) <= MsgsCap
           /\ IsOperator(c) => m = "prepared" /\ msgs'[c] \in Seq({"prepared"})
           /\ ~ IsOperator(c) => m = "proposal" /\ msgs'[c] = <<>> /\ stage[c] = 0
<1>1. /\ handler[c] = "running" /\ msgs[c] # <<>> /\ Head(msgs[c]) = m
      /\ msgs' = [msgs EXCEPT ![c] = Tail(msgs[c])]
  BY Zenon DEF Take
<1>2. msgs \in [Clusters -> Seq({"prepared", "proposal"})] /\ \A d \in Clusters : Len(msgs[d]) <= MsgsCap
  BY Zenon DEF EngineInv, IcsTypes
<1>3. /\ Tail(msgs[c]) \in Seq({"prepared", "proposal"}) /\ Len(Tail(msgs[c])) <= MsgsCap
      /\ msgs'[c] = Tail(msgs[c])
  BY <1>1, <1>2, EngineAssumption
<1>4. ASSUME IsOperator(c) PROVE m = "prepared" /\ msgs'[c] \in Seq({"prepared"})
  <2>1. msgs[c] \in Seq({"prepared"})
    BY <1>4, Zenon DEF EngineInv, ClusterInv
  <2> QED
    BY <1>1, <1>3, <2>1
<1>5. ASSUME ~ IsOperator(c) PROVE m = "proposal" /\ msgs'[c] = <<>> /\ stage[c] = 0
  <2>1. msgs[c] = <<"proposal">> /\ stage[c] = 0
    BY <1>1, <1>5, Zenon DEF EngineInv, ClusterInv
  <2>2. Head(<<"proposal">>) = "proposal" /\ Tail(<<"proposal">>) = <<>>
    OBVIOUS
  <2> QED
    BY <1>1, <1>3, <2>1, <2>2, Zenon
<1>6. ~ (main.at = "handoff" /\ main.cluster = c)
  BY <1>1, Zenon DEF EngineInv, ClusterInv, Waiting
<1> QED
  BY <1>1, <1>2, <1>3, <1>4, <1>5, <1>6, Zenon

\* Only an operator takes a PREPARED message, and it sets the stage before it starts an agreement.
LEMMA HandlePreparedInv ==
    ASSUME EngineInv, NEW c \in Clusters, HandlePrepared(c)
    PROVE  EngineInv'
<1>0. Take(c, "prepared") /\ UNCHANGED <<slotVars, main, handler, replies>>
  BY Zenon DEF HandlePrepared
<1>1. /\ handler[c] = "running" /\ ~ (main.at = "handoff" /\ main.cluster = c)
      /\ msgs' \in [Clusters -> Seq({"prepared", "proposal"})]
      /\ \A d \in Clusters \ {c} : msgs'[d] = msgs[d]
      /\ \A d \in Clusters : Len(msgs'[d]) <= MsgsCap
      /\ IsOperator(c) /\ msgs'[c] \in Seq({"prepared"})
  BY <1>0, Taken, Zenon
<1>2. \/ UNCHANGED <<stage, bft>>
      \/ /\ stage[c] = 0 /\ stage' = [stage EXCEPT ![c] = 1]
         /\ UNCHANGED bft \/ bft' = [bft EXCEPT ![c] = "running"]
  BY Zenon DEF HandlePrepared
<1>3. IcsTypes'
  BY <1>0, <1>1, <1>2, Zenon DEF EngineInv, IcsTypes
<1>4. ClusterInv(c)'
  BY <1>0, <1>1, <1>2 DEF EngineInv, IcsTypes, ClusterInv, Waiting, IsOperator, slotVars
<1>5. \A d \in Clusters \ {c} : bft'[d] = bft[d] /\ stage'[d] = stage[d]
  BY <1>2, Zenon DEF EngineInv, IcsTypes
<1> QED
  BY <1>0, <1>1, <1>3, <1>4, <1>5, HandlerKeeps, Zenon

\* Only a validator takes a proposal, and none of its agreement has started then.
LEMMA HandleProposalInv ==
    ASSUME EngineInv, NEW c \in Clusters, HandleProposal(c)
    PROVE  EngineInv'
<1>0. Take(c, "proposal") /\ UNCHANGED <<slotVars, main, replies>>
  BY Zenon DEF HandleProposal
<1>1. /\ handler[c] = "running" /\ ~ (main.at = "handoff" /\ main.cluster = c)
      /\ msgs' \in [Clusters -> Seq({"prepared", "proposal"})]
      /\ \A d \in Clusters \ {c} : msgs'[d] = msgs[d]
      /\ \A d \in Clusters : Len(msgs'[d]) <= MsgsCap
      /\ ~ IsOperator(c) /\ msgs'[c] = <<>> /\ stage[c] = 0
  BY <1>0, Taken, Zenon
<1>2. \/ handler' = [handler EXCEPT ![c] = "closing"] /\ UNCHANGED <<stage, bft>>
      \/ /\ stage' = [stage EXCEPT ![c] = 1]
         /\ bft' = [bft EXCEPT ![c] = "running"]
         /\ UNCHANGED handler
  BY Zenon DEF HandleProposal, Return
<1>3. IcsTypes'
  BY <1>0, <1>1, <1>2, Zenon DEF EngineInv, IcsTypes
<1>4. ClusterInv(c)'
  BY <1>0, <1>1, <1>2 DEF EngineInv, IcsTypes, ClusterInv, Waiting, IsOperator, slotVars
<1>5. \A d \in Clusters \ {c} : handler'[d] = handler[d] /\ bft'[d] = bft[d] /\ stage'[d] = stage[d]
  BY <1>2, Zenon DEF EngineInv, IcsTypes
<1> QED
  BY <1>0, <1>1, <1>3, <1>4, <1>5, HandlerKeeps, Zenon

-----------------------------------------------------------------------------
(* The steps of the main loop.                                             *)

\* A PREPARED message goes to an operator that waits for it, if Slot.Msgs has room.
LEMMA ForwardPreparedInv ==
    ASSUME EngineInv, NEW c \in Clusters, ForwardPrepared(c)
    PROVE  EngineInv'
<1>1. /\ replies[c] > 0 /\ replies' = [replies EXCEPT ![c] = replies[c] - 1]
      /\ \/ UNCHANGED msgs
         \/ Len(msgs[c]) < MsgsCap /\ msgs' = [msgs EXCEPT ![c] = Append(msgs[c], "prepared")]
      /\ UNCHANGED <<slotVars, main, handler, stage, bft>>
  <2>1. /\ replies[c] > 0 /\ replies' = [replies EXCEPT ![c] = replies[c] - 1]
        /\ UNCHANGED <<slotVars, main, handler, stage, bft>>
    BY Zenon DEF ForwardPrepared
  <2>2. CASE c \in DOMAIN slots /\ Len(msgs[c]) < MsgsCap
    BY <2>1, <2>2, Zenon DEF ForwardPrepared
  <2>3. CASE ~ (c \in DOMAIN slots /\ Len(msgs[c]) < MsgsCap)
    BY <2>1, <2>3, Zenon DEF ForwardPrepared, EngineInv, IcsTypes
  <2> QED
    BY <2>2, <2>3, Zenon
<1>2. IsOperator(c) /\ ~ Waiting(c) /\ msgs[c] \in Seq({"prepared"})
  BY <1>1 DEF EngineInv, ClusterInv, IcsTypes
<1>4. msgs'[c] \in Seq({"prepared"}) /\ Len(msgs'[c]) <= MsgsCap
  <2>1. msgs'[c] = msgs[c] \/ (Len(msgs[c]) < MsgsCap /\ msgs'[c] = Append(msgs[c], "prepared"))
    BY <1>1, Zenon DEF EngineInv, IcsTypes
  <2>2. Len(msgs[c]) <= MsgsCap
    BY Zenon DEF EngineInv, IcsTypes
  <2>3. ASSUME Len(msgs[c]) < MsgsCap
        PROVE  /\ Append(msgs[c], "prepared") \in Seq({"prepared"})
               /\ Len(Append(msgs[c], "prepared")) <= MsgsCap
    BY <1>2, <2>3, EngineAssumption
  <2> QED
    BY <1>2, <2>1, <2>2, <2>3, Zenon
<1>3. IcsTypes'
  <2>1. msgs'[c] \in Seq({"prepared", "proposal"})
    BY <1>4
  <2>2. msgs' = [d \in Clusters |-> msgs'[d]] /\ \A d \in Clusters \ {c} : msgs'[d] = msgs[d]
    BY <1>1, Zenon DEF EngineInv, IcsTypes
  <2>3. replies' \in [Clusters -> Nat]
    BY <1>1 DEF EngineInv, IcsTypes
  <2> QED
    BY <1>1, <1>4, <2>1, <2>2, <2>3, Zenon DEF EngineInv, IcsTypes
<1>5. ClusterInv(c)'
  BY <1>1, <1>2, <1>4, Zenon DEF EngineInv, IcsTypes, ClusterInv, Waiting, IsOperator, slotVars
<1>6. \A d \in Clusters \ {c} : replies'[d] = replies[d] /\ msgs'[d] = msgs[d]
  BY <1>1, Zenon DEF EngineInv, IcsTypes
<1> QED
  BY <1>1, <1>3, <1>5, <1>6, HandlerKeeps, Zenon

\* The handler takes from NewICSChan; the main loop goes on with its queue.
LEMMA SendPrepareInv ==
    ASSUME EngineInv, NEW c \in Clusters, SendPrepare(c)
    PROVE  EngineInv'
<1>1. /\ main.at = "handoff" /\ main.cluster = c /\ main' = [at |-> "view", todo |-> main.todo]
      /\ \/ replies' = [replies EXCEPT ![c] = Replies] /\ UNCHANGED handler
         \/ handler' = [handler EXCEPT ![c] = "closing"] /\ UNCHANGED replies
      /\ UNCHANGED <<slotVars, stage, msgs, bft>>
  BY Zenon DEF SendPrepare, Return
<1>2. /\ handler[c] = "running" /\ IsOperator(c) /\ Queue(main.todo)
      /\ stage[c] = 0 /\ bft[c] = "none" /\ msgs[c] = <<>>
  BY <1>1, Zenon DEF EngineInv, MainInv, ClusterInv, Waiting
<1>3. IcsTypes'
  BY <1>1, EngineAssumption, Zenon DEF EngineInv, IcsTypes
<1>4. SlotsInv'
  BY <1>1, Zenon DEF EngineInv, SlotsInv, S!TypeOK, Owns, slotVars
<1>5. Queue(main.todo)'
  <2>1. main'.todo = main.todo /\ request' = request
    BY <1>1, Zenon DEF slotVars
  <2>2. \A d \in Clusters : handler[d] = "none" => handler'[d] = "none"
    BY <1>1, <1>2, Zenon DEF EngineInv, IcsTypes
  <2> QED
    BY <1>2, <2>1, <2>2 DEF Queue, IsOperator
<1>6. MainInv'
  BY <1>1, <1>2, <1>5, Zenon DEF MainInv, Mains, Queue
<1>7. ASSUME NEW d \in Clusters \ {c} PROVE ClusterInv(d)'
  BY <1>1, UntouchedKept, Zenon DEF EngineInv, IcsTypes, Untouched, Waiting, slotVars
<1>8. ClusterInv(c)'
  BY <1>1, <1>2, Zenon DEF EngineInv, IcsTypes, ClusterInv, Waiting, IsOperator, slotVars
<1> QED
  BY <1>3, <1>4, <1>6, <1>7, <1>8, Zenon DEF EngineInv

\* The clusters that a view starts are operator clusters that have not begun, each once.
LEMMA NewQueue ==
    ASSUME NEW todo \in Plans
    PROVE  Queue(todo)
<1>1. PICK k \in 0 .. Cardinality(NewClusters) : todo \in [1 .. k -> NewClusters]
  BY Zenon DEF Plans
<1>2. /\ todo \in Seq(Clusters) /\ Len(todo) = k /\ k \in Nat
      /\ \A i \in 1 .. k : IsOperator(todo[i]) /\ handler[todo[i]] = "none"
  BY <1>1 DEF NewClusters
<1>3. \A i, j \in 1 .. k : i < j => todo[i] # todo[j]
  BY <1>1, Zenon DEF Plans
<1>4. \A i, j \in 1 .. k : i # j => todo[i] # todo[j]
  BY <1>2, <1>3
<1> QED
  BY <1>2, <1>4, Zenon DEF Queue

\* A new view starts only clusters that have not begun.
LEMMA ViewTickInv == EngineInv /\ ViewTick => EngineInv'
<1> SUFFICES ASSUME EngineInv, ViewTick PROVE EngineInv'
  BY Zenon
<1>1. PICK todo \in Plans : main' = [at |-> "view", todo |-> todo]
  BY Zenon DEF ViewTick
<1>2. main = Select /\ UNCHANGED <<slotVars, handler, stage, replies, msgs, bft>>
  BY Zenon DEF ViewTick, icsVars
<1>3. Queue(todo)
  BY NewQueue, Zenon
<1>4. MainInv'
  BY <1>1, <1>2, <1>3 DEF MainInv, Mains, Queue, IsOperator, slotVars
<1>5. ASSUME NEW d \in Clusters PROVE ClusterInv(d)'
  BY <1>1, <1>2, UntouchedKept, Zenon DEF EngineInv, Untouched, Waiting, slotVars
<1>6. SlotsInv' /\ IcsTypes'
  BY <1>2, Zenon DEF EngineInv, SlotsInv, S!TypeOK, Owns, slotVars, IcsTypes
<1> QED
  BY <1>4, <1>5, <1>6, Zenon DEF EngineInv

\* A step that only moves the main loop, or only the views, keeps what is said of the clusters.
LEMMA MainMoves ==
    ASSUME EngineInv, MainInv', UNCHANGED <<slotVars, handler, stage, replies, msgs, bft>>,
           \A d \in Clusters : Waiting(d)' => Waiting(d)
    PROVE  EngineInv'
<1>1. ASSUME NEW d \in Clusters PROVE ClusterInv(d)'
  BY UntouchedKept, Zenon DEF EngineInv, Untouched, slotVars
<1>2. SlotsInv' /\ IcsTypes'
  BY Zenon DEF EngineInv, SlotsInv, S!TypeOK, Owns, slotVars, IcsTypes
<1> QED
  BY <1>1, <1>2, Zenon DEF EngineInv

\* handleNewView returns to the select.
LEMMA EndViewInv == EngineInv /\ EndView => EngineInv'
<1> SUFFICES ASSUME EngineInv, EndView PROVE EngineInv'
  BY Zenon
<1>1. main' = Select /\ UNCHANGED <<slotVars, handler, stage, replies, msgs, bft>>
  BY Zenon DEF EndView, icsVars
<1>2. MainInv'
  BY <1>1, Zenon DEF MainInv, Mains, Select
<1>3. \A d \in Clusters : Waiting(d)' => Waiting(d)
  BY <1>1, Zenon DEF Waiting, Select
<1> QED
  BY <1>1, <1>2, <1>3, MainMoves, Zenon

\* A PREPARE concerns no cluster of this node.
LEMMA HandlePrepareInv ==
    ASSUME EngineInv, NEW v, HandlePrepare(v)
    PROVE  EngineInv'
<1>1. UNCHANGED <<slotVars, main, handler, stage, replies, msgs, bft>>
  BY Zenon DEF HandlePrepare, icsVars
<1>2. MainInv'
  BY <1>1, Zenon DEF EngineInv, MainInv, Queue, IsOperator, slotVars
<1>3. \A d \in Clusters : Waiting(d)' => Waiting(d)
  BY <1>1, Zenon DEF Waiting
<1> QED
  BY <1>1, <1>2, <1>3, MainMoves, Zenon

\* A cluster that gets no slot is closed.
LEMMA RefusedInv ==
    ASSUME EngineInv, NEW c \in Clusters, handler[c] = "none", MainInv',
           handler' = [handler EXCEPT ![c] = "closed"], main'.at # "handoff",
           UNCHANGED <<slotVars, stage, replies, msgs, bft>>
    PROVE  EngineInv'
<1>1. ASSUME NEW d \in Clusters \ {c} PROVE ClusterInv(d)'
  BY UntouchedKept, Zenon DEF EngineInv, IcsTypes, Untouched, Waiting, slotVars
<1>2. ClusterInv(c)'
  BY Zenon DEF EngineInv, IcsTypes, ClusterInv, Waiting, IsOperator, slotVars
<1>3. SlotsInv' /\ IcsTypes'
  BY Zenon DEF EngineInv, SlotsInv, S!TypeOK, Owns, slotVars, IcsTypes
<1> QED
  BY <1>1, <1>2, <1>3, Zenon DEF EngineInv

\* A cluster that gets a slot is being created.
LEMMA CreatedInv ==
    ASSUME EngineInv, NEW c \in Clusters, handler[c] = "none", MainInv',
           S!CreateSlotAndLockAccounts(c),
           handler' = [handler EXCEPT ![c] = "creating"], main'.at # "handoff",
           UNCHANGED <<stage, replies, msgs, bft>>
    PROVE  EngineInv'
<1>1. SlotsInv' /\ DOMAIN slots' = DOMAIN slots \cup {c} /\ request' = request
  BY CreateKeepsSlots, Zenon DEF EngineInv
<1>2. ASSUME NEW d \in Clusters \ {c} PROVE ClusterInv(d)'
  BY <1>1, UntouchedKept, Zenon DEF EngineInv, IcsTypes, Untouched, Waiting
<1>3. ClusterInv(c)'
  BY <1>1, Zenon DEF EngineInv, IcsTypes, ClusterInv, Waiting, IsOperator
<1>4. IcsTypes'
  BY Zenon DEF EngineInv, IcsTypes
<1> QED
  BY <1>1, <1>2, <1>3, <1>4, Zenon DEF EngineInv

\* A cluster whose slot is cleaned up is closed.
LEMMA CleanedInv ==
    ASSUME EngineInv, NEW c \in Clusters, handler[c] \in {"creating", "closing"}, MainInv',
           S!CleanupSlot(c),
           handler' = [handler EXCEPT ![c] = "closed"], main'.at # "handoff",
           UNCHANGED <<stage, replies, msgs, bft>>
    PROVE  EngineInv'
<1>1. SlotsInv' /\ DOMAIN slots' = DOMAIN slots \ {c} /\ request' = request
  BY CleanupKeepsSlots, Zenon DEF EngineInv
<1>2. ASSUME NEW d \in Clusters \ {c} PROVE ClusterInv(d)'
  BY <1>1, UntouchedKept, Zenon DEF EngineInv, IcsTypes, Untouched, Waiting
<1>3. ClusterInv(c)'
  BY <1>1, Zenon DEF EngineInv, IcsTypes, ClusterInv, Waiting, IsOperator
<1>4. IcsTypes'
  BY Zenon DEF EngineInv, IcsTypes
<1> QED
  BY <1>1, <1>2, <1>3, <1>4, Zenon DEF EngineInv

\* The first cluster of the queue has not begun, and is not in the rest of the queue.
LEMMA QueueHead ==
    ASSUME NEW todo, Queue(todo), todo # <<>>
    PROVE  /\ Head(todo) \in Clusters /\ IsOperator(Head(todo)) /\ handler[Head(todo)] = "none"
           /\ Queue(Tail(todo))
           /\ \A i \in 1 .. Len(Tail(todo)) : Tail(todo)[i] # Head(todo)
<1>1. todo \in Seq(Clusters) /\ Len(todo) \in Nat /\ Len(todo) >= 1
  BY DEF Queue
<1>2. /\ Head(todo) = todo[1] /\ Head(todo) \in Clusters
      /\ Tail(todo) \in Seq(Clusters) /\ Len(Tail(todo)) = Len(todo) - 1
      /\ \A i \in 1 .. Len(Tail(todo)) : i + 1 \in 1 .. Len(todo) /\ Tail(todo)[i] = todo[i + 1]
  BY <1>1
<1>3. \A i, j \in 1 .. Len(Tail(todo)) : i # j => i + 1 # j + 1
  BY <1>1, <1>2
<1>4. \A i, j \in 1 .. Len(Tail(todo)) : i # j => Tail(todo)[i] # Tail(todo)[j]
  BY <1>2, <1>3 DEF Queue
<1>5. 1 \in 1 .. Len(todo) /\ \A i \in 1 .. Len(Tail(todo)) : i + 1 # 1
  BY <1>1, <1>2
<1> QED
  BY <1>2, <1>4, <1>5, SMTT(30) DEF Queue

\* The next cluster of the queue is refused, or gets its slot.
LEMMA StartClusterInv == EngineInv /\ StartCluster => EngineInv'
<1> SUFFICES ASSUME EngineInv, StartCluster PROVE EngineInv'
  BY Zenon
<1> DEFINE c == Head(main.todo)
           rest == Tail(main.todo)
<1>1. /\ main.at = "view" /\ main.todo # <<>>
      /\ \/ /\ handler' = [handler EXCEPT ![c] = "closed"]
            /\ main' = [at |-> "view", todo |-> rest] \/ main' = Select
            /\ UNCHANGED slotVars
         \/ /\ S!CreateSlotAndLockAccounts(c)
            /\ handler' = [handler EXCEPT ![c] = "creating"]
            /\ main' = [at |-> "creating", cluster |-> c, todo |-> rest]
      /\ UNCHANGED <<stage, replies, msgs, bft>>
  <2>1. main.at = "view" /\ main.todo # <<>> /\ UNCHANGED <<stage, replies, msgs, bft>>
    BY Zenon DEF StartCluster, icsVars
  <2>2. CASE S!areAccountsActive(request[c].locks)
    BY <2>1, <2>2, Zenon DEF StartCluster
  <2>3. CASE ~ S!areAccountsActive(request[c].locks)
    BY <2>1, <2>3, Zenon DEF StartCluster
  <2> QED
    BY <2>2, <2>3, Zenon
<1>2. Queue(main.todo)
  BY <1>1, Zenon DEF EngineInv, MainInv
<1>3. /\ c \in Clusters /\ IsOperator(c) /\ handler[c] = "none"
      /\ Queue(rest) /\ \A i \in 1 .. Len(rest) : rest[i] # c
  BY <1>1, <1>2, QueueHead, Zenon
<1> HIDE DEF c, rest
<1>4. request' = request
  BY <1>1, <1>3, CreateKeepsSlots, Zenon DEF slotVars, EngineInv
<1>5. /\ rest \in Seq(Clusters)
      /\ \A i \in 1 .. Len(rest) : request'[rest[i]] = request[rest[i]] /\ handler'[rest[i]] = "none"
      /\ \A i, j \in 1 .. Len(rest) : i # j => rest[i] # rest[j]
  <2>1. rest \in Seq(Clusters) /\ \A i \in 1 .. Len(rest) : rest[i] \in Clusters \ {c}
    BY <1>3 DEF Queue
  <2>2. \A d \in Clusters \ {c} : handler'[d] = handler[d]
    BY <1>1, Zenon DEF EngineInv, IcsTypes
  <2> QED
    BY <1>3, <1>4, <2>1, <2>2, Zenon DEF Queue
<1>6. main'.at # "select" => main'.todo = rest
  BY <1>1 DEF Select
<1>7. main'.at # "select" => Queue(main.todo)'
  BY <1>3, <1>4, <1>5, <1>6, ZenonT(60) DEF Queue, IsOperator
<1>8. main'.at = "creating" => handler'[main'.cluster] = "creating"
  BY <1>1, <1>3, SMTT(30) DEF EngineInv, IcsTypes, Select
<1>9. main' \in Mains /\ main'.at # "handoff"
  BY <1>1, <1>3, <1>5 DEF Mains, Select
<1>10. MainInv'
  BY <1>7, <1>8, <1>9, Zenon DEF MainInv, Mains
<1> QED
  BY <1>1, <1>3, <1>9, <1>10, RefusedInv, CreatedInv, Zenon

\* A PROPOSAL is refused, or its cluster gets a slot.
LEMMA HandleProposalMsgInv ==
    ASSUME EngineInv, NEW c \in Clusters, HandleProposalMsg(c)
    PROVE  EngineInv'
<1> DEFINE none == <<>>
<1>1. /\ main = Select /\ handler[c] = "none"
      /\ \/ /\ handler' = [handler EXCEPT ![c] = "closed"]
            /\ UNCHANGED slotVars /\ main' = Select
         \/ /\ S!CreateSlotAndLockAccounts(c)
            /\ handler' = [handler EXCEPT ![c] = "creating"]
            /\ main' = [at |-> "creating", cluster |-> c, todo |-> none]
      /\ UNCHANGED <<stage, replies, msgs, bft>>
  <2>1. main = Select /\ handler[c] = "none" /\ UNCHANGED <<stage, replies, msgs, bft>>
    BY Zenon DEF HandleProposalMsg, icsVars
  <2>2. CASE S!areAccountsActive(request[c].locks)
    BY <2>1, <2>2, Zenon DEF HandleProposalMsg
  <2>3. CASE ~ S!areAccountsActive(request[c].locks)
    BY <2>1, <2>3, Zenon DEF HandleProposalMsg
  <2> QED
    BY <2>2, <2>3, Zenon
<1>0. none \in Seq(Clusters) /\ Len(none) = 0
  OBVIOUS
<1> HIDE DEF none
<1>2. main'.at # "handoff" /\ main' \in Mains
  <2>1. CASE main' = Select
    BY <2>1, Zenon DEF Mains, Select
  <2>2. CASE main' = [at |-> "creating", cluster |-> c, todo |-> none]
    BY <1>0, <2>2, Zenon DEF Mains, Select
  <2> QED
    BY <1>1, <2>1, <2>2, Zenon
<1>3. main'.at # "select" => main'.todo = none /\ main'.at = "creating" /\ main'.cluster = c
  <2>1. CASE main' = Select
    BY <2>1, Zenon DEF Select
  <2>2. CASE main' = [at |-> "creating", cluster |-> c, todo |-> none]
    BY <2>2, Zenon
  <2> QED
    BY <1>1, <2>1, <2>2, Zenon
<1>4. main'.at = "creating" => handler'[c] = "creating"
  BY <1>1, SMTT(30) DEF Select, EngineInv, IcsTypes
<1>5. MainInv'
  <2>1. Len(none) = 0 => 1 .. Len(none) = {}
    OBVIOUS
  <2>2. main'.at # "select" => Queue(main.todo)'
    BY <1>0, <1>3, <2>1, Zenon DEF Queue
  <2> QED
    BY <1>2, <1>3, <1>4, <2>2, Zenon DEF MainInv
<1> QED
  BY <1>1, <1>2, <1>5, RefusedInv, CreatedInv, Zenon

\* The slot of a cluster that could not be created is cleaned up.
LEMMA CreateFailsInv == EngineInv /\ CreateFails => EngineInv'
<1> SUFFICES ASSUME EngineInv, CreateFails PROVE EngineInv'
  BY Zenon
<1> DEFINE c == main.cluster
<1>1. /\ main.at = "creating" /\ S!CleanupSlot(c)
      /\ handler' = [handler EXCEPT ![c] = "closed"]
      /\ main' = [at |-> "view", todo |-> main.todo] \/ main' = Select
      /\ UNCHANGED <<stage, replies, msgs, bft>>
  BY Zenon DEF CreateFails, icsVars
<1>2. c \in Clusters /\ handler[c] = "creating" /\ Queue(main.todo)
  BY <1>1, SMTT(30) DEF EngineInv, MainInv, Mains, Select
<1>3. request' = request
  BY <1>1, <1>2, CleanupKeepsSlots, Zenon DEF EngineInv
<1>4. main'.at # "handoff" /\ main'.at # "creating" /\ main' \in Mains
  BY <1>1, <1>2, SMTT(30) DEF Mains, Select, Queue
<1>5. main'.at # "select" => Queue(main.todo)'
  <2>1. main'.at # "select" => main'.todo = main.todo
    BY <1>1 DEF Select
  <2>2. \A d \in Clusters : handler[d] = "none" => handler'[d] = "none"
    BY <1>1, <1>2, Zenon DEF EngineInv, IcsTypes
  <2> QED
    BY <1>2, <1>3, <2>1, <2>2, SMTT(30) DEF Queue, IsOperator
<1>6. MainInv'
  BY <1>4, <1>5, Zenon DEF MainInv, Mains
<1> QED
  BY <1>1, <1>2, <1>4, <1>6, CleanedInv, Zenon

\* The slot of a handler that has returned is cleaned up.
LEMMA CloseSlotInv ==
    ASSUME EngineInv, NEW c \in Clusters, CloseSlot(c)
    PROVE  EngineInv'
<1>1. /\ main = Select /\ main' = main /\ handler[c] = "closing" /\ S!CleanupSlot(c)
      /\ handler' = [handler EXCEPT ![c] = "closed"]
      /\ UNCHANGED <<stage, replies, msgs, bft>>
  BY Zenon DEF CloseSlot, icsVars
<1>2. MainInv' /\ main'.at # "handoff"
  BY <1>1, Zenon DEF MainInv, Mains, Select
<1> QED
  BY <1>1, <1>2, CleanedInv, Zenon

\* An operator waits on NewICSChan next; a validator finds its proposal in its queue.
LEMMA CreateICSInv == EngineInv /\ CreateICS => EngineInv'
<1> SUFFICES ASSUME EngineInv, CreateICS PROVE EngineInv'
  BY Zenon
<1>0. PICK c : c = main.cluster
  BY Zenon
<1>1. /\ main.at = "creating" /\ handler' = [handler EXCEPT ![c] = "running"]
      /\ \/ /\ IsOperator(c) /\ main' = [main EXCEPT !.at = "handoff"]
            /\ UNCHANGED msgs
         \/ /\ ~ IsOperator(c) /\ main' = Select
            /\ msgs' = [msgs EXCEPT ![c] = Append(msgs[c], "proposal")]
      /\ UNCHANGED <<slotVars, stage, replies, bft>>
  BY <1>0, Zenon DEF CreateICS
<1>2. /\ c \in Clusters /\ handler[c] = "creating" /\ Queue(main.todo)
      /\ main \in [at : {"creating", "handoff"}, cluster : Clusters, todo : Seq(Clusters)]
  BY <1>0, <1>1 DEF EngineInv, MainInv, Mains, Select
<1>3. stage[c] = 0 /\ replies[c] = 0 /\ bft[c] = "none" /\ msgs[c] = <<>>
  BY <1>2, Zenon DEF EngineInv, ClusterInv, Waiting
<1>4. request' = request /\ slots' = slots
  BY <1>1, Zenon DEF slotVars
<1>5. CASE IsOperator(c)
  <2>1. /\ main' = [at |-> "handoff", cluster |-> c, todo |-> main.todo]
        /\ UNCHANGED msgs
    BY <1>0, <1>1, <1>2, <1>5, Zenon
  <2>2. IcsTypes'
    BY <1>1, <2>1, Zenon DEF EngineInv, IcsTypes
  <2>3. Queue(main.todo)'
    <3>1. main'.todo = main.todo
      BY <2>1, Zenon
    <3>2. \A d \in Clusters : handler[d] = "none" => handler'[d] = "none"
      BY <1>1, <1>2, Zenon DEF EngineInv, IcsTypes
    <3> QED
      BY <1>2, <1>4, <3>1, <3>2, SMTT(30) DEF Queue, IsOperator
  <2>4. MainInv'
    <3>1. main' \in Mains /\ main'.at = "handoff" /\ main'.cluster = c
      BY <1>2, <2>1, Zenon DEF Mains
    <3>2. handler'[c] = "running"
      BY <1>1, <1>2, Zenon DEF EngineInv, IcsTypes
    <3>3. IsOperator(main.cluster)'
      BY <1>4, <1>5, <3>1, Zenon DEF IsOperator
    <3> QED
      BY <2>3, <3>1, <3>2, <3>3, Zenon DEF MainInv, Mains
  <2>5. ASSUME NEW d \in Clusters \ {c} PROVE ClusterInv(d)'
    BY <1>1, <1>4, <2>1, UntouchedKept, Zenon DEF EngineInv, IcsTypes, Untouched, Waiting
  <2>6. ClusterInv(c)'
    BY <1>1, <1>2, <1>3, <1>4, <1>5, <2>1, Zenon DEF EngineInv, IcsTypes, ClusterInv, IsOperator
  <2>7. SlotsInv'
    BY <1>1, Zenon DEF EngineInv, SlotsInv, S!TypeOK, Owns, slotVars
  <2> QED
    BY <2>2, <2>4, <2>5, <2>6, <2>7, Zenon DEF EngineInv
<1>6. CASE ~ IsOperator(c)
  <2>1. main' = Select /\ msgs' = [msgs EXCEPT ![c] = Append(msgs[c], "proposal")]
    BY <1>1, <1>6, Zenon
  <2>2. Append(msgs[c], "proposal") = <<"proposal">>
    BY <1>3
  <2>3. msgs' = [msgs EXCEPT ![c] = <<"proposal">>]
    BY <2>1, <2>2, Zenon
  <2>4. IcsTypes'
    <3> DEFINE one == <<"proposal">>
    <3>0. MsgsCap \in Nat /\ 1 <= MsgsCap
      BY EngineAssumption
    <3>1. one \in Seq({"prepared", "proposal"}) /\ Len(one) = 1
      OBVIOUS
    <3>2. msgs' = [d \in Clusters |-> IF d = c THEN one ELSE msgs[d]]
      BY <2>3, Zenon DEF EngineInv, IcsTypes
    <3> HIDE DEF one
    <3>3. ASSUME NEW d \in Clusters
          PROVE  msgs'[d] \in Seq({"prepared", "proposal"}) /\ Len(msgs'[d]) <= MsgsCap
      <4>1. CASE d = c
        <5>1. msgs'[d] = one
          BY <3>2, <4>1, Zenon
        <5> QED
          BY <3>0, <3>1, <5>1, Zenon
      <4>2. CASE d # c
        <5>1. msgs'[d] = msgs[d]
          BY <3>2, <4>2, Zenon
        <5> QED
          BY <5>1, Zenon DEF EngineInv, IcsTypes
      <4> QED
        BY <4>1, <4>2, Zenon
    <3>4. msgs' \in [Clusters -> Seq({"prepared", "proposal"})]
      BY <3>2, <3>3, Zenon
    <3>5. handler' \in [Clusters -> {"none", "creating", "running", "closing", "closed"}]
      BY <1>1, Zenon DEF EngineInv, IcsTypes
    <3> QED
      BY <1>1, <3>3, <3>4, <3>5, Zenon DEF EngineInv, IcsTypes
  <2>5. MainInv'
    BY <2>1, Zenon DEF MainInv, Mains, Select
  <2>6. ASSUME NEW d \in Clusters \ {c} PROVE ClusterInv(d)'
    BY <1>1, <1>4, <2>1, UntouchedKept, Zenon DEF EngineInv, IcsTypes, Untouched, Waiting, Select
  <2>7. msgs'[c] = <<"proposal">> /\ handler'[c] = "running"
    BY <1>1, <1>2, <2>3, Zenon DEF EngineInv, IcsTypes
  <2>8. ~ Waiting(c)' /\ ~ IsOperator(c)'
    BY <1>4, <1>6, <2>1, <2>7, Zenon DEF Waiting, IsOperator, Select
  <2>9. ClusterInv(c)'
    BY <1>1, <1>2, <1>3, <1>4, <2>7, <2>8, Zenon DEF EngineInv, ClusterInv
  <2>10. SlotsInv'
    BY <1>1, Zenon DEF EngineInv, SlotsInv, S!TypeOK, Owns, slotVars
  <2> QED
    BY <2>4, <2>5, <2>6, <2>9, <2>10, Zenon DEF EngineInv
<1> QED
  BY <1>5, <1>6, Zenon

-----------------------------------------------------------------------------
(* The invariant, and what it says of slots, handlers and agreements.      *)

\* The invariant is inductive.
LEMMA NextInv == EngineInv /\ [Next]_vars => EngineInv'
<1> SUFFICES ASSUME EngineInv, [Next]_vars PROVE EngineInv'
  BY Zenon
<1>1. CASE ViewTick
  BY <1>1, ViewTickInv, Zenon
<1>2. CASE StartCluster \/ EndView \/ CreateICS \/ CreateFails
  BY <1>2, StartClusterInv, EndViewInv, CreateICSInv, CreateFailsInv, Zenon
<1>3. CASE \E c \in Clusters : CloseSlot(c)
  BY <1>3, CloseSlotInv, Zenon
<1>4. CASE \E v \in 1 .. MaxView : HandlePrepare(v)
  BY <1>4, HandlePrepareInv, Zenon
<1>5. ASSUME NEW c \in Clusters, ForwardPrepared(c) \/ HandleProposalMsg(c) \/ BftExits(c)
      PROVE  EngineInv'
  BY <1>5, ForwardPreparedInv, HandleProposalMsgInv, BftExitsInv, Zenon
<1>6. ASSUME NEW c \in Clusters, Handler(c) PROVE EngineInv'
  BY <1>6, SendPrepareInv, TimeoutInv, HandlePreparedInv, HandleProposalInv, BftStopInv, Zenon DEF Handler
<1>7. CASE UNCHANGED vars
  <2>1. UNCHANGED <<slotVars, main, handler, stage, replies, msgs, bft>>
    BY <1>7, Zenon DEF vars, icsVars
  <2>2. MainInv'
    BY <2>1, Zenon DEF EngineInv, MainInv, Queue, IsOperator, slotVars
  <2>3. \A d \in Clusters : Waiting(d)' => Waiting(d)
    BY <2>1, Zenon DEF Waiting
  <2> QED
    BY <2>1, <2>2, <2>3, MainMoves, Zenon
<1> QED
  BY <1>1, <1>2, <1>3, <1>4, <1>5, <1>6, <1>7, Zenon DEF Next, Main

\* What the handlers, the main loop and the slots have to do with each other holds throughout.
THEOREM EngineInvHolds == Spec => []EngineInv
BY InitInv, NextInv, PTL DEF Spec

(***************************************************************************)
(* No sequence of ticks, messages, failures, timeouts and returns leaves a *)
(* slot without somebody who cleans it up, or a handler without its slot.  *)
(***************************************************************************)
THEOREM SlotIffHandlerHolds == Spec => []SlotIffHandler
<1>1. EngineInv => SlotIffHandler
  BY Zenon DEF EngineInv, ClusterInv, SlotIffHandler
<1> QED
  BY <1>1, EngineInvHolds, PTL

(***************************************************************************)
(* An agreement that runs keeps its handler and its slot, and holds its    *)
(* accounts alone: the timer and a refused proposal end a handler only     *)
(* before its agreement starts.                                            *)
(***************************************************************************)
THEOREM BftOwnsAccountsHolds == Spec => []BftOwnsAccounts
<1>1. EngineInv => BftOwnsAccounts
  BY Zenon DEF EngineInv, ClusterInv, SlotsInv, Owns, BftOwnsAccounts
<1> QED
  BY <1>1, EngineInvHolds, PTL

(***************************************************************************)
(* Every step of the engine creates a slot, cleans one up, or leaves the   *)
(* slots alone: the engine implements Slots.                               *)
(***************************************************************************)
THEOREM ImplementsSlots == Spec => SlotsSpec
<1>1. Init => S!Init
  BY Zenon DEF Init
<1>2. EngineInv /\ [Next]_vars => [S!Next]_(S!vars)
  <2> SUFFICES ASSUME EngineInv, [Next]_vars PROVE S!Next \/ UNCHANGED S!vars
    BY Zenon
  <2>1. CASE UNCHANGED slotVars
    BY <2>1, Zenon DEF slotVars, S!vars, S!slotVars
  <2>2. ASSUME NEW c \in Clusters, S!CreateSlotAndLockAccounts(c) \/ S!CleanupSlot(c) PROVE S!Next
    BY <2>2, Zenon DEF S!Next
  <2>3. CASE StartCluster
    <3>1. Head(main.todo) \in Clusters
      BY <2>3, QueueHead, Zenon DEF StartCluster, EngineInv, MainInv
    <3>2. UNCHANGED slotVars \/ S!CreateSlotAndLockAccounts(Head(main.todo))
      BY <2>3, Zenon DEF StartCluster
    <3> QED
      BY <2>1, <2>2, <3>1, <3>2, Zenon
  <2>4. CASE CreateFails
    <3>1. main.cluster \in Clusters /\ S!CleanupSlot(main.cluster)
      BY <2>4, SMTT(30) DEF CreateFails, EngineInv, MainInv, Mains, Select
    <3> QED
      BY <2>2, <3>1, Zenon
  <2>5. ASSUME NEW c \in Clusters, CloseSlot(c) \/ HandleProposalMsg(c)
        PROVE  S!Next \/ UNCHANGED S!vars
    <3>1. UNCHANGED slotVars \/ S!CreateSlotAndLockAccounts(c) \/ S!CleanupSlot(c)
      BY <2>5, Zenon DEF CloseSlot, HandleProposalMsg
    <3> QED
      BY <2>1, <2>2, <3>1, Zenon
  <2>6. CASE ViewTick \/ EndView \/ CreateICS \/ (\E v \in 1 .. MaxView : HandlePrepare(v))
    BY <2>1, <2>6, Zenon DEF ViewTick, EndView, CreateICS, HandlePrepare
  <2>7. ASSUME NEW c \in Clusters, ForwardPrepared(c) \/ Handler(c) \/ BftExits(c)
        PROVE  UNCHANGED slotVars
    BY <2>7, Zenon DEF ForwardPrepared, Handler, BftExits, SendPrepare, HandlerTimeout, HandlePrepared,
                HandleProposal, BftStop
  <2>8. CASE UNCHANGED vars
    BY <2>1, <2>8, Zenon DEF vars
  <2> QED
    BY <2>1, <2>3, <2>4, <2>5, <2>6, <2>7, <2>8, Zenon DEF Next, Main
<1> QED
  BY <1>1, <1>2, EngineInvHolds, PTL DEF Spec, SlotsSpec, S!Spec

-----------------------------------------------------------------------------
(* The PREPARE messages that are kept for the next view.                   *)

(***************************************************************************)
(* A PREPARE that arrived in time is answered, or waits in futureMsg for   *)
(* the one view that has not begun.                                        *)
(***************************************************************************)
ViewInv ==
    /\ view \in 0 .. MaxView
    /\ futureMsg \in Seq(1 .. MaxView)
    /\ timely \subseteq 1 .. MaxView
    /\ \A v \in timely :
          \/ v <= view /\ v \in answered
          \/ v = view + 1 /\ \E i \in DOMAIN futureMsg : futureMsg[i] = v

\* A view tick answers what it was kept for; nothing else touches the views.
LEMMA ViewNext == ViewInv /\ [Next]_vars => ViewInv'
<1> SUFFICES ASSUME ViewInv, [Next]_vars PROVE ViewInv'
  BY Zenon
<1>1. CASE ViewTick
  <2>1. view' = view + 1 /\ view' \in 0 .. MaxView /\ timely' = timely
    BY <1>1, EngineAssumption DEF ViewTick, ViewInv
  <2>2. futureMsg' \in Seq(1 .. MaxView)
    BY <1>1 DEF ViewTick
  <2>3. \A v \in timely : v \in answered'
    BY <1>1, Zenon DEF ViewTick, Replayed, ViewInv
  <2>4. \A v \in timely : v <= view + 1
    BY EngineAssumption DEF ViewInv
  <2> QED
    BY <2>1, <2>2, <2>3, <2>4, Zenon DEF ViewInv
<1>2. ASSUME NEW v \in 1 .. MaxView, HandlePrepare(v) PROVE ViewInv'
  <2>1. view' = view /\ answered \subseteq answered' /\ timely \subseteq timely'
    BY <1>2, Zenon DEF HandlePrepare
  <2>2. futureMsg' \in Seq(1 .. MaxView)
    <3>1. futureMsg' = Append(futureMsg, v) \/ futureMsg' = futureMsg
      BY <1>2, Zenon DEF HandlePrepare
    <3>2. futureMsg \in Seq(1 .. MaxView)
      BY Zenon DEF ViewInv
    <3>3. Append(futureMsg, v) \in Seq(1 .. MaxView)
      BY <3>2
    <3> QED
      BY <3>1, <3>2, <3>3, Zenon
  <2>3. /\ \A i \in DOMAIN futureMsg : i \in DOMAIN futureMsg' /\ futureMsg'[i] = futureMsg[i]
        /\ v = view + 1 => \E i \in DOMAIN futureMsg' : futureMsg'[i] = v
    <3>1. CASE v = view + 1
      <4>1. futureMsg' = Append(futureMsg, v)
        BY <1>2, <3>1, Zenon DEF HandlePrepare
      <4>2. /\ DOMAIN futureMsg \subseteq DOMAIN futureMsg' /\ Len(futureMsg) + 1 \in DOMAIN futureMsg'
            /\ futureMsg'[Len(futureMsg) + 1] = v
            /\ \A i \in DOMAIN futureMsg : futureMsg'[i] = futureMsg[i]
        BY <4>1 DEF ViewInv
      <4> QED
        BY <4>2, Zenon
    <3>2. CASE v # view + 1
      BY <1>2, <3>2, Zenon DEF HandlePrepare
    <3> QED
      BY <3>1, <3>2, Zenon
  <2>4. timely' \subseteq timely \cup {v} /\ (v \in timely' => v \in timely \/ v = view \/ v = view + 1)
    BY <1>2, Zenon DEF HandlePrepare
  <2>5. v = view => v \in answered'
    BY <1>2, Zenon DEF HandlePrepare
  <2>6. ASSUME NEW w \in timely'
        PROVE  \/ w <= view /\ w \in answered'
               \/ w = view + 1 /\ \E i \in DOMAIN futureMsg' : futureMsg'[i] = w
    <3>1. CASE w \in timely
      BY <2>1, <2>3, <3>1, Zenon DEF ViewInv
    <3>2. CASE w \notin timely
      BY <2>3, <2>4, <2>5, <2>6, <3>2 DEF ViewInv
    <3> QED
      BY <3>1, <3>2, Zenon
  <2>7. timely' \subseteq 1 .. MaxView
    BY <2>4, Zenon DEF ViewInv
  <2> QED
    BY <2>1, <2>2, <2>6, <2>7, Zenon DEF ViewInv
<1>3. CASE UNCHANGED viewVars
  BY <1>3, Zenon DEF viewVars, ViewInv
<1>4. CASE Main
  BY <1>3, <1>4, Zenon DEF Main, StartCluster, EndView, CreateICS, CreateFails, CloseSlot
<1>5. ASSUME NEW c \in Clusters, ForwardPrepared(c) \/ HandleProposalMsg(c) \/ Handler(c) \/ BftExits(c)
      PROVE  ViewInv'
  BY <1>3, <1>5, Zenon DEF ForwardPrepared, HandleProposalMsg, Handler, BftExits, SendPrepare,
                    HandlerTimeout, HandlePrepared, HandleProposal, BftStop
<1>6. CASE UNCHANGED vars
  BY <1>3, <1>6, Zenon DEF vars
<1> QED
  BY <1>1, <1>2, <1>4, <1>5, <1>6, Zenon DEF Next

\* handlePrepare and handleNewView keep every PREPARE that is on time, until it is answered.
THEOREM ViewInvHolds == Spec => []ViewInv
<1>1. Init => ViewInv
  BY EngineAssumption DEF Init, ViewInv
<1> QED
  BY <1>1, ViewNext, PTL DEF Spec

(***************************************************************************)
(* Engine.futureMsg loses no PREPARE: one that came one view early is      *)
(* answered when its view begins, whatever the main loop does in between.  *)
(***************************************************************************)
THEOREM TimelyPrepareAnsweredHolds == Spec => []TimelyPrepareAnswered
<1>1. ViewInv => TimelyPrepareAnswered
  BY DEF ViewInv, TimelyPrepareAnswered
<1> QED
  BY <1>1, ViewInvHolds, PTL

(***************************************************************************)
(* The goroutines and the queue Slot.Msgs keep their types, and the queue  *)
(* its capacity: a send that finds it full drops the message.              *)
(***************************************************************************)
THEOREM TypeCorrect == Spec => []TypeOK
<1>1. EngineInv /\ ViewInv => TypeOK
  BY Zenon DEF EngineInv, SlotsInv, IcsTypes, ViewInv, TypeOK
<1> QED
  BY <1>1, EngineInvHolds, ViewInvHolds, PTL
=============================================================================
