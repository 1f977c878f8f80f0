------------------------------ MODULE Prepare ------------------------------
(***************************************************************************)
(* The prepare phase of one cluster, from the PREPARE of the operator to   *)
(* the proposal its validators vote for (ics_handler.go, handler.go,       *)
(* message_dispatcher.go, types/nodeset.go).  The operator counts the      *)
(* PREPARED messages per node set, puts the bits of those it counted into  *)
(* the prepare QC, and every validator loads them back into its own copy   *)
(* of the committee, where they decide who may vote.                       *)
(*                                                                         *)
(* Bits travel as flat indices: the positions in the concatenation of all  *)
(* node sets.  Every node's view follows its own clock.  PREPARE and       *)
(* proposal arrive once or never, PREPARED messages also more than once,   *)
(* all in any order.  Members that do not follow the code are left to KBFT.*)
(***************************************************************************)
EXTENDS Committee

CONSTANTS
    Operator,                \* the node that runs the cluster's operator slot
    BehaviouralContextSize,  \* how many nodes the context of a new account should have
    MaxView,                 \* bound: the last view
    None

VARIABLES
    view,         \* Engine.view of every node
    clusterView,  \* the view of the operator's ClusterState, 0 before there is one
    stage,        \* where the operator's icsHandler is
    prepare,      \* the nodes that the PREPARE is on its way to
    futureMsg,    \* the nodes that have kept the PREPARE for the next view
    prepared,     \* the nodes whose PREPARED message is on its way
    responses,    \* per node: the bits set in the Responses of its committee
    respCount,    \* per node and set: NodeSet.RespCount
    qc,           \* ClusterState.PrepareQc: the flat indices and the aggregated signatures
    proposalTS,   \* ClusterState.Tesseract: its ConsensusInfo().View and the new context
    received,     \* the nodes the proposal was broadcast to
    validator     \* per node: what its icsHandler made of the proposal

vars == <<view, clusterView, stage, prepare, futureMsg, prepared, responses, respCount, qc,
          proposalTS, received, validator>>

CommitteeNodes == {KramaID(i) : i \in Indices}
IndicesOf(n) == {i \in Indices : KramaID(i) = n}
RandomSet == Members(StochasticSetPosition)

(***************************************************************************)
(* No node is in a set twice, sendPrepare exempts the context nodes from   *)
(* the stochastic set, and the operator is a context node                  *)
(* (isOperatorEligible).  A context has room for at least one node         *)
(* (BehaviouralContextSize), and None is no QC.                            *)
(***************************************************************************)
ASSUME PrepareAssumption ==
    /\ \A i, j \in Indices : i[1] = j[1] /\ KramaID(i) = KramaID(j) => i = j
    /\ \A p \in Positions \ {StochasticSetPosition} : Members(p) \cap RandomSet = {}
    /\ Operator \in CommitteeNodes \ RandomSet
    /\ BehaviouralContextSize \in Nat \ {0}
    /\ MaxView \in Nat
    /\ None \notin [view : Nat, signers : SUBSET Nat, sig : SUBSET Indices]

-----------------------------------------------------------------------------
(* Flat indices.                                                           *)

\* ViewInfosAndSignatures and GetVoteset: the offset of a set is the length of those before it.
offset[p \in 0 .. Len(Sets)] == IF p = 0 THEN 0 ELSE offset[p - 1] + Len(Sets[p])

totalNodes == offset[Len(Sets)]

\* Mutant: a set that is excluded from the ICS has no place among the flat indices.
GetVoteset_skipsExcluded(bits) ==
    {offset[i[1] - 1] + i[2] - 1 : i \in {j \in bits : j[1] \notin ExcludedSets}}

GetVoteset(bits) == {offset[i[1] - 1] + i[2] - 1 : i \in bits}

\* Mutant: the sets that are excluded from the ICS have no places, as in GetIndex.
valIndex_skipsExcluded(i) ==
    offset[i[1] - 1] + i[2] - 1
        - Cardinality({j \in Indices : j[1] \in ExcludedSets /\ j[1] < i[1]})

\* HasKramaID: the index a node signs its votes with.
valIndex(i) == offset[i[1] - 1] + i[2] - 1

(***************************************************************************)
(* UpdateValidatorResponse and GetKramaID walk through the sets, taking    *)
(* the length of each set off the index, and stop at the first set that    *)
(* the rest falls into.                                                    *)
(***************************************************************************)
lookup(f) ==
    LET rest[p \in Positions] == IF p = 1 THEN f ELSE rest[p - 1] - Len(Sets[p - 1])
        found == {p \in Positions : rest[p] < Len(Sets[p])}
        first == CHOOSE p \in found : \A q \in found : p <= q
    IN  <<first, rest[first] + 1>>

-----------------------------------------------------------------------------
(* Responses and quorums.                                                  *)

Init ==
    /\ view = [n \in Nodes |-> 0]
    /\ clusterView = 0
    /\ stage = "none"
    /\ prepare = {} /\ futureMsg = {} /\ prepared = {} /\ received = {}
    /\ responses = [n \in Nodes |-> {}]
    /\ respCount = [n \in Nodes |-> [p \in Positions |-> 0]]
    /\ qc = None /\ proposalTS = None
    /\ validator = [n \in Nodes |-> "none"]

\* UpdateResponse sets a bit and counts, whether or not the bit was set before.
counted(n, bits) ==
    [p \in Positions |-> respCount[n][p] + Cardinality({i \in bits : i[1] = p})]

UpdateResponse(n, bits) ==
    /\ responses' = [responses EXCEPT ![n] = @ \cup bits]
    /\ respCount' = [respCount EXCEPT ![n] = counted(n, bits)]

\* IsContextQuorum does not look at whether a participant is excluded.
IsContextQuorum(count) ==
    \A p \in Positions \ {StochasticSetPosition} :
        SetSizeWithOutDelta[p] > 0 => count[p] >= (SetSizeWithOutDelta[p] * 2) \div 3 + 1

\* Mutant: the stochastic nodes are not waited for.
IsRandomQuorum_none(count) == TRUE

IsRandomQuorum(count) ==
    count[StochasticSetPosition] >= (SetSizeWithOutDelta[StochasticSetPosition] * 2) \div 3 + 1

-----------------------------------------------------------------------------
(* PREPARE and PREPARED.                                                   *)

\* Every node's view ticker; a PREPARE that was kept for the next view is handled first.
ViewTick(n) ==
    /\ view[n] < MaxView
    /\ view' = [view EXCEPT ![n] = @ + 1]
    /\ futureMsg' = futureMsg \ {n}
    /\ prepared' = IF n \in futureMsg /\ view[n] + 1 = clusterView
                  THEN prepared \cup {n} ELSE prepared
    /\ UNCHANGED <<clusterView, stage, prepare, responses, respCount, qc, proposalTS, received, validator>>

(***************************************************************************)
(* createICS and sendPrepare: the operator takes its own PREPARED message  *)
(* as received, in every set that it is in, and sends the PREPARE.         *)
(***************************************************************************)
SendPrepare ==
    /\ stage = "none" /\ view[Operator] > 0
    /\ stage' = "preparing"
    /\ clusterView' = view[Operator]
    /\ UpdateResponse(Operator, IndicesOf(Operator))
    /\ prepare' = CommitteeNodes \ {Operator}
    /\ UNCHANGED <<view, futureMsg, prepared, qc, proposalTS, received, validator>>

\* Mutant: a PREPARE of the next view is not kept.
HandlePrepare_noFuture(n) ==
    /\ n \in prepare
    /\ prepare' = prepare \ {n}
    /\ prepared' = IF view[n] = clusterView THEN prepared \cup {n} ELSE prepared
    /\ UNCHANGED <<view, clusterView, stage, futureMsg, responses, respCount, qc, proposalTS,
                   received, validator>>

\* handlePrepare answers in the cluster's view, and keeps a message of the next view.
HandlePrepare(n) ==
    /\ n \in prepare
    /\ prepare' = prepare \ {n}
    /\ prepared' = IF view[n] = clusterView THEN prepared \cup {n} ELSE prepared
    /\ futureMsg' = IF view[n] + 1 = clusterView THEN futureMsg \cup {n} ELSE futureMsg
    /\ UNCHANGED <<view, clusterView, stage, responses, respCount, qc, proposalTS, received, validator>>

\* Mutant: a PREPARED message that was counted already is counted again.
HandlePrepared_again(n) ==
    /\ stage \in {"preparing", "proposed", "broadcast", "gaveUp"}
    /\ n \in prepared /\ view[Operator] = clusterView
    /\ UpdateResponse(Operator, IndicesOf(n))
    /\ stage' = IF /\ stage = "preparing"
                   /\ IsContextQuorum(counted(Operator, IndicesOf(n)))
                   /\ IsRandomQuorum(counted(Operator, IndicesOf(n)))
                THEN "executing" ELSE stage
    /\ UNCHANGED <<view, clusterView, prepare, futureMsg, prepared, qc, proposalTS, received, validator>>

(***************************************************************************)
(* handlePrepared, up to the quorum.  A message is refused when the        *)
(* operator has left the view or has the sender's bit; otherwise it is     *)
(* recorded in every set of the sender, before and after the quorum.       *)
(***************************************************************************)
HandlePrepared(n) ==
    /\ stage \in {"preparing", "proposed", "broadcast", "gaveUp"}
    /\ n \in prepared /\ view[Operator] = clusterView
    /\ IndexOf(n) \notin responses[Operator]
    /\ UpdateResponse(Operator, IndicesOf(n))
    /\ stage' = IF /\ stage = "preparing"
                   /\ IsContextQuorum(counted(Operator, IndicesOf(n)))
                   /\ IsRandomQuorum(counted(Operator, IndicesOf(n)))
                THEN "executing" ELSE stage
    /\ UNCHANGED <<view, clusterView, prepare, futureMsg, prepared, qc, proposalTS, received, validator>>

\* The timer of icsHandler, as long as there is no quorum.
Timeout ==
    /\ stage = "preparing"
    /\ stage' = "closed"
    /\ UNCHANGED <<view, clusterView, prepare, futureMsg, prepared, responses, respCount, qc, proposalTS,
                   received, validator>>

-----------------------------------------------------------------------------
(* The proposal.                                                           *)

\* A new account has no node set yet.
NewAccounts == {p \in Positions \ {StochasticSetPosition} : Sets[p] = <<>>}

(***************************************************************************)
(* updateContextDelta and getContextNodes, without trusted peers: the      *)
(* context of a new account is taken from the stochastic nodes that have   *)
(* answered, in the order of the set.                                      *)
(***************************************************************************)
getContextNodes(bits) ==
    LET answered == {i \in bits : i[1] = StochasticSetPosition}
    IN  {KramaID(i) : i \in {j \in answered :
            Cardinality({l \in answered : Before(l, j)}) < BehaviouralContextSize}}

(***************************************************************************)
(* createProposalTesseract and createPrepareQc, after the interactions     *)
(* have been executed: the tesseract is stamped with the view the operator *)
(* is in now, the QC with that of the cluster.                             *)
(***************************************************************************)
CreateProposal ==
    /\ stage = "executing"
    /\ stage' = "proposed"
    /\ proposalTS' = [view |-> view[Operator], context |-> getContextNodes(responses[Operator])]
    /\ qc' = [view |-> clusterView, signers |-> GetVoteset(responses[Operator]),
              sig |-> responses[Operator]]
    /\ UNCHANGED <<view, clusterView, prepare, futureMsg, prepared, responses, respCount, received, validator>>

\* An early return of handlePrepared after the quorum, or an error: no BFT is started.
GiveUp ==
    /\ stage = "executing"
    /\ stage' = "gaveUp"
    /\ UNCHANGED <<view, clusterView, prepare, futureMsg, prepared, responses, respCount, qc, proposalTS,
                   received, validator>>

\* GetNodes(true).
RespondedNodes == {KramaID(i) : i \in {j \in responses[Operator] : j[1] \notin ExcludedSets}}

\* The operator's BFT broadcasts the proposal to the nodes that have answered by now.
Broadcast ==
    /\ stage = "proposed"
    /\ stage' = "broadcast"
    /\ received' = RespondedNodes \ {Operator}
    /\ UNCHANGED <<view, clusterView, prepare, futureMsg, prepared, responses, respCount, qc, proposalTS, validator>>

\* Mutant: everyone who has the proposal votes.
Verdict_noBit(n, bits) ==
    CASE ~ (qc.signers \subseteq 0 .. totalNodes - 1) -> "refused"
      [] ~ (IsContextQuorum(counted(n, bits)) /\ IsRandomQuorum(counted(n, bits))) -> "refused"
      [] bits # qc.sig -> "refused"
      [] qc.view # view[n] -> "otherView"
      [] OTHER -> "voting"

(***************************************************************************)
(* handleProposal of a validator whose committee now has these bits, the   *)
(* first checks of setProposal, and the bit that sendVote asks for.  The   *)
(* QC verifies if the keys of the bits are those that signed.              *)
(***************************************************************************)
Verdict(n, bits) ==
    CASE ~ (qc.signers \subseteq 0 .. totalNodes - 1) -> "refused"
      [] ~ (IsContextQuorum(counted(n, bits)) /\ IsRandomQuorum(counted(n, bits))) -> "refused"
      [] bits # qc.sig -> "refused"
      [] qc.view # view[n] -> "otherView"
      [] IndexOf(n) \in bits -> "voting"
      [] OTHER -> "watching"

\* createICSForProposal and handleProposal; the transport delivers a proposal once.
HandleProposal(n) ==
    /\ n \in received /\ validator[n] = "none"
    /\ LET bits == {lookup(f) : f \in qc.signers} IN
       /\ UpdateResponse(n, bits)
       /\ validator' = [validator EXCEPT ![n] = Verdict(n, bits)]
    /\ UNCHANGED <<view, clusterView, stage, prepare, futureMsg, prepared, qc, proposalTS, received>>

\* No slot is free, or the tesseract does not validate.
ProposalFails(n) ==
    /\ n \in received /\ validator[n] = "none"
    /\ validator' = [validator EXCEPT ![n] = "failed"]
    /\ UNCHANGED <<view, clusterView, stage, prepare, futureMsg, prepared, responses, respCount, qc,
                   proposalTS, received>>

Next ==
    \/ SendPrepare \/ Timeout \/ CreateProposal \/ GiveUp \/ Broadcast
    \/ \E n \in Nodes : \/ ViewTick(n) \/ HandlePrepare(n) \/ HandlePrepared(n)
                        \/ HandleProposal(n) \/ ProposalFails(n)

Spec == Init /\ [][Next]_vars

(***************************************************************************)
(* Messages of the prepare phase are delivered, and every clock reaches    *)
(* the view of the cluster.                                                *)
(***************************************************************************)
FairSpec ==
    /\ Spec
    /\ \A n \in Nodes :
          /\ WF_vars(HandlePrepare(n)) /\ WF_vars(HandlePrepared(n))
          /\ WF_vars(view[n] < clusterView /\ ViewTick(n))

-----------------------------------------------------------------------------
(* A commit certificate at a node outside the cluster.                     *)

\* The indices that vote: the operator's and those of the validators that do.
Voters == {IndexOf(n) : n \in {Operator} \cup {m \in Nodes : validator[m] = "voting"}}

(***************************************************************************)
(* GetICSCommittee and verifyQc: the committee is built again from the     *)
(* tesseract, the signers are found by their flat indices, every           *)
(* participant that is not excluded and the stochastic set have their      *)
(* quorums, and the votes were signed for the view of the tesseract.       *)
(***************************************************************************)
verifyQc(signers, voters) ==
    LET bits == {lookup(f) : f \in signers}
        counter(p) == Cardinality({i \in bits : p \in SlotsOf(i)})
        required(p) == IF SetSizeWithOutDelta[p] = 0 THEN 0 ELSE (SetSizeWithOutDelta[p] * 2) \div 3 + 1
    IN  /\ \A p \in Positions \ (ExcludedSets \ {StochasticSetPosition}) : counter(p) >= required(p)
        /\ bits = voters
        /\ proposalTS.view = clusterView

-----------------------------------------------------------------------------
(* Properties.                                                             *)

(***************************************************************************)
(* At every node the count of a set, which quorums are decided by, is the  *)
(* number of its bits: no repeated message is counted twice.               *)
(***************************************************************************)
CountsMatchBits ==
    \A n \in Nodes, p \in Positions :
        respCount[n][p] = Cardinality({i \in responses[n] : i[1] = p})

\* No validator refuses the QC of an operator that follows the code.
QcAccepted == \A n \in Nodes : validator[n] # "refused"

(***************************************************************************)
(* The two notions of quorum agree.  When the operator proposes, the votes *)
(* of those in the QC, each with its one index, complete the quorum of     *)
(* every set, although PREPARED messages are counted in all the sets of a  *)
(* node and votes by the slots of the first index.                         *)
(***************************************************************************)
ProposalCanBeDecided ==
    qc # None => HasQuorum({IndexOf(KramaID(i)) : i \in qc.sig})

(***************************************************************************)
(* A validator votes exactly if it is in the QC, and then the operator has *)
(* its bit and accepts the vote.  A node that answered after the QC was    *)
(* made gets the proposal as well, and only watches.                       *)
(***************************************************************************)
VotersAreSigners ==
    \A n \in Nodes : validator[n] \in {"voting", "watching"} =>
        /\ validator[n] = "voting" <=> IndexOf(n) \in qc.sig
        /\ IndexOf(n) \in responses[Operator]

\* A new account gets a context, of nodes that are in the QC.
NewAccountHasContext ==
    qc # None /\ NewAccounts # {} =>
        /\ proposalTS.context # {}
        /\ proposalTS.context \subseteq {KramaID(i) : i \in qc.sig}

(***************************************************************************)
(* A quorum of votes is accepted by nodes outside the cluster, unless the  *)
(* operator's view changed while it executed the interactions.             *)
(***************************************************************************)
CommitVerifies ==
    qc # None /\ proposalTS.view = qc.view /\ HasQuorum(Voters) =>
        verifyQc({valIndex(i) : i \in Voters}, Voters)

\* Nobody is ahead of the cluster's view, or more than a view behind it.
ClocksAgree == stage # "none" => \A n \in Nodes : view[n] \in {clusterView - 1, clusterView}

(***************************************************************************)
(* While the clocks differ by one view at most, so that some nodes get the *)
(* PREPARE before its view begins, the operator still gets its quorum, and *)
(* does not depend on its timer.                                           *)
(***************************************************************************)
QuorumReached == []ClocksAgree => (stage = "preparing" ~> stage # "preparing")
=============================================================================
