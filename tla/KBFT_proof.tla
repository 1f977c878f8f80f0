----------------------------- MODULE KBFT_proof -----------------------------
(***************************************************************************)
(* Agreement of KBFT, for every committee and every choice of faulty       *)
(* members within the bound of FaultAssumption.  First the steps: they     *)
(* keep the types; what they count, queue, send and store stands for its   *)
(* tesseract; and a lock is stored with its tesseract.  Then quorums meet  *)
(* in a node that follows the code, so the invariant is inductive, and it  *)
(* implies the safety properties.                                          *)
(***************************************************************************)
EXTENDS KBFT, Committee_proof

(***************************************************************************)
(* Types.                                                                  *)
(***************************************************************************)

\* Counting a vote keeps the vote set well formed.
LEMMA AddVoteType ==
    ASSUME NEW vs \in VoteSets, NEW i \in Indices, NEW h \in Hashes
    PROVE  addVerifiedVote(vs, i, h) \in VoteSets
<1> DEFINE voters == vs.byTS[h] \cup {i}
           counted == [vs EXCEPT !.votes[i] = h, !.byTS[h] = voters]
<1>1. vs.byTS[h] \subseteq Indices
  BY Zenon DEF VoteSets
<1>2. counted \in VoteSets
  BY <1>1, Zenon DEF VoteSets
<1>3. [vs EXCEPT !.votes[i] = IF vs.maj23 = h THEN h ELSE @] \in VoteSets
  BY Zenon DEF VoteSets
<1>4. [counted EXCEPT !.maj23 = h, !.maj23VoteSet = voters, !.maj23Sig = voters] \in VoteSets
  <2> HIDE DEF counted
  <2> QED
    BY <1>1, <1>2, Zenon DEF VoteSets
<1> QED
  BY <1>2, <1>3, <1>4, Zenon DEF addVerifiedVote

\* Adding a certificate keeps the vote set well formed.
LEMMA AddQcType ==
    ASSUME NEW vs \in VoteSets, NEW qc, qc.hash \in Hashes, qc.bits \subseteq Indices,
           qc.sig \subseteq Indices
    PROVE  AddQc(vs, qc) \in VoteSets
<1> DEFINE h == qc.hash
           new == {i \in qc.bits : vs.votes[i] = None}
           upTo(x) == vs.byTS[h] \cup {i \in new : ~Before(x, i)}
           crossings == {x \in new : vs.maj23 = None /\ HasQuorum(upTo(x))}
           first == CHOOSE x \in crossings : \A d \in crossings : ~Before(d, x)
           majorityAt(i) == vs.maj23 = h \/ (crossings # {} /\ Before(first, i))
           votes == [i \in Indices |->
               IF i \in new \/ (i \in qc.bits /\ majorityAt(i)) THEN h ELSE vs.votes[i]]
           counted == [vs EXCEPT
               !.votes = [i \in Indices |->
                   IF i \in new \/ (i \in qc.bits /\ majorityAt(i)) THEN h ELSE @[i]],
               !.byTS[h] = @ \cup new]
<1>1. vs.byTS[h] \subseteq Indices /\ new \subseteq Indices
  BY Zenon DEF VoteSets
<1>2. votes \in [Indices -> Hashes \cup {None}]
  <2> HIDE DEF new, majorityAt
  <2> QED
    BY Zenon DEF VoteSets
<1>3. counted \in VoteSets
  <2>1. counted = [vs EXCEPT !.votes = votes, !.byTS[h] = @ \cup new]
    BY Zenon
  <2> HIDE DEF votes, new, counted
  <2> QED
    BY <1>1, <1>2, <2>1, Zenon DEF VoteSets
<1>4. [counted EXCEPT !.maj23 = h, !.maj23VoteSet = upTo(first), !.maj23Sig = qc.sig] \in VoteSets
  <2>1. upTo(first) \subseteq Indices
    BY <1>1, Zenon
  <2> HIDE DEF counted, upTo, first
  <2> QED
    BY <2>1, <1>3, Zenon DEF VoteSets
<1>5. AddQc(vs, qc) = IF crossings = {} THEN counted
                      ELSE [counted EXCEPT !.maj23 = h, !.maj23VoteSet = upTo(first),
                                           !.maj23Sig = qc.sig]
  BY Zenon DEF AddQc
<1> HIDE DEF crossings, counted, first, upTo
<1> QED
  BY <1>3, <1>4, <1>5, Zenon

SelfMsgs == Proposals \cup Votes
SentMsgs == Proposals \cup Votes \cup QcMsgs

\* What sendVote queues.
LEMMA OwnVoteType ==
    ASSUME NEW n, NEW type \in VoteTypes, NEW h \in Hashes
    PROVE  OwnVote(n, type, h) \in Seq(Votes)
<1>1. CASE n \in Responders
  <2>1. Vote(n, type, h) \in Votes
    BY <1>1, FirstIndex, VoteSetAssumption, Zenon DEF Vote, Votes
  <2> QED
    BY <1>1, <2>1 DEF OwnVote
<1>2. CASE n \notin Responders
  BY <1>2 DEF OwnVote
<1> QED
  BY <1>1, <1>2, Zenon

\* Votes to oneself and to the operator keep the two channels well formed.
LEMMA QueueType ==
    ASSUME NEW n, NEW vote \in Seq(Votes), NEW self \in Seq(SelfMsgs), NEW out \in Seq(Messages),
           NEW more \in Seq(Messages)
    PROVE  /\ self \o ToSelf(n, vote) \in Seq(SelfMsgs)
           /\ out \o more \o ToOperator(n, vote) \in Seq(Messages)
<1>1. vote \in Seq(SelfMsgs) /\ vote \in Seq(Messages)
  BY DEF SelfMsgs, Messages
<1>2. ToSelf(n, vote) \in Seq(SelfMsgs) /\ ToOperator(n, vote) \in Seq(Messages)
  BY <1>1 DEF ToSelf, ToOperator
<1> HIDE DEF SelfMsgs
<1> QED
  BY <1>2

\* sendQc queues a certificate request for a majority.
LEMMA QcRequestType ==
    ASSUME NEW n, NEW type \in VoteTypes, NEW vs \in VoteSets, vs.maj23 # None
    PROVE  QcRequest(n, type, vs) \in Seq(Messages)
<1> DEFINE m == [kind |-> "qc", type |-> type, hash |-> vs.maj23, sig |-> vs.maj23Sig]
<1>1. vs.maj23 \in Hashes /\ vs.maj23Sig \subseteq Indices
  BY Zenon DEF VoteSets
<1>2. m \in QcRequests
  BY <1>1, Zenon DEF QcRequests
<1>3. m \in Messages
  BY <1>2, Zenon DEF Messages
<1> HIDE DEF m
<1>4. <<m>> \in Seq(Messages)
  BY <1>3
<1>5. QcRequest(n, type, vs) = IF isLeader(n) THEN <<m>> ELSE <<>>
  BY Zenon DEF QcRequest, m
<1> QED
  BY <1>4, <1>5

\* The certificate that HeightVoteSet.GetQC returns.
LEMMA GetQCType ==
    ASSUME NEW type \in VoteTypes, NEW vs \in VoteSets, vs.maj23 # None
    PROVE  GetQC(type, vs) \in Qcs
<1>1. vs.maj23 \in Hashes /\ vs.maj23VoteSet \subseteq Indices /\ vs.maj23Sig \subseteq Indices
  BY Zenon DEF VoteSets
<1> QED
  BY <1>1, Zenon DEF GetQC, Qcs

\* The commit certificate that finalizeCommit puts on the chain.
LEMMA CommitQcType ==
    ASSUME NEW vs \in VoteSets, vs.maj23 # None
    PROVE  [type |-> "precommit", hash |-> vs.maj23,
            bits |-> votesBitArray(vs), sig |-> vs.maj23Sig] \in Qcs
<1>1. vs.maj23 \in Hashes /\ vs.maj23Sig \subseteq Indices /\ votesBitArray(vs) \subseteq Indices
  BY Zenon DEF VoteSets, votesBitArray
<1> QED
  BY <1>1, Zenon DEF Qcs, VoteTypes

\* UpdateSafetyInfo stores a certificate and a tesseract.
LEMMA UpdateSafetyInfoType ==
    ASSUME TypeOK, NEW n \in Honest, NEW qc \in Qcs, UpdateSafetyInfo(n, qc)
    PROVE  /\ safetyQc' \in [Honest -> Qcs \cup {None}]
           /\ proposalInfo' \in [Honest -> Hashes \cup {None}]
BY ZenonT(30) DEF TypeOK, UpdateSafetyInfo

\* Taking over a proposal keeps the types.
LEMMA SetProposalType ==
    ASSUME TypeOK, NEW n \in Honest, NEW h \in Hashes, NEW self \in Seq(SelfMsgs),
           setProposal(n, h, self)
    PROVE  TypeOK'
<1> DEFINE prevotes_now == step[n] <= ViewStepPropose
           vote == IF prevotes_now THEN OwnVote(n, "prevote", h) ELSE <<>>
           passOn == IF isLeader(n) THEN <<ProposalMsg(h)>> ELSE <<>>
<1>1. vote \in Seq(Votes)
  BY OwnVoteType, SMTT(30) DEF VoteTypes
<1>2. passOn \in Seq(Messages)
  <2>1. ProposalMsg(h) \in Messages
    BY Zenon DEF ProposalMsg, Proposals, Messages
  <2> QED
    BY <2>1
<1>3. outbound[n] \in Seq(Messages)
  BY Zenon DEF TypeOK
<1>4. self \o ToSelf(n, vote) \in Seq(SelfMsgs)
      /\ outbound[n] \o passOn \o ToOperator(n, vote) \in Seq(Messages)
  BY <1>1, <1>2, <1>3, QueueType, Zenon
<1>5. UNCHANGED <<prevotes, precommits, safetyQc, proposalInfo, committed, status, sent>>
  BY Zenon DEF setProposal
<1>6. CASE proposal[n] # None
  <2>1. selfMsgs' = [selfMsgs EXCEPT ![n] = self] /\ UNCHANGED <<proposal, step, outbound>>
    BY <1>6, Zenon DEF setProposal
  <2> QED
    BY <1>5, <2>1, Zenon DEF TypeOK, SelfMsgs
<1>7. CASE proposal[n] = None
  <2>1. /\ proposal' = [proposal EXCEPT ![n] = h]
        /\ step' = [step EXCEPT ![n] = IF prevotes_now THEN ViewStepPrevote ELSE @]
        /\ selfMsgs' = [selfMsgs EXCEPT ![n] = self \o ToSelf(n, vote)]
        /\ outbound' = [outbound EXCEPT ![n] = @ \o passOn \o ToOperator(n, vote)]
    BY <1>7, Zenon DEF setProposal
  <2> HIDE DEF vote, passOn, prevotes_now
  <2>2. selfMsgs' \in [Honest -> Seq(SelfMsgs)] /\ outbound' \in [Honest -> Seq(Messages)]
    BY <1>4, <2>1, Zenon DEF TypeOK, SelfMsgs
  <2>3. proposal' \in [Honest -> Hashes \cup {None}]
    BY <2>1, Zenon DEF TypeOK
  <2>4. step' \in [Honest -> {ViewStepNewHeight, ViewStepPropose, ViewStepPrevote,
                              ViewStepPrecommit, ViewStepCommit}]
    BY <2>1, Zenon DEF TypeOK
  <2> QED
    BY <1>5, <2>2, <2>3, <2>4, Zenon DEF TypeOK, SelfMsgs
<1> QED
  BY <1>6, <1>7, Zenon

\* What follows a vote that was counted keeps the types.
LEMMA AfterVoteType ==
    ASSUME TypeOK, NEW n \in Honest, NEW type \in VoteTypes, NEW vs \in VoteSets, NEW added,
           NEW self \in Seq(SelfMsgs),
           updateVoteSet(n, type, vs), afterVote(n, type, vs, added, self)
    PROVE  TypeOK'
<1>1. prevotes' \in [Honest -> VoteSets] /\ precommits' \in [Honest -> VoteSets]
  BY Zenon DEF updateVoteSet, TypeOK
<1>2. outbound[n] \in Seq(Messages) /\ votesBitArray(vs) \subseteq Indices
  BY Zenon DEF TypeOK, votesBitArray
<1>3. CASE /\ type = "prevote" /\ added /\ vs.maj23 # None /\ step[n] = ViewStepPrevote
           /\ enterPreCommit(n, vs, self)
  <2> DEFINE locks == proposal[n] = vs.maj23
             vote == IF locks /\ n \notin FailingNodes THEN OwnVote(n, "precommit", vs.maj23) ELSE <<>>
  <2>1. vs.maj23 \in Hashes
    BY <1>3, Zenon DEF VoteSets
  <2>2. vote \in Seq(Votes)
    <3>1. OwnVote(n, "precommit", vs.maj23) \in Seq(Votes)
      BY <2>1, OwnVoteType, Zenon DEF VoteTypes
    <3> QED
      BY <3>1
  <2>3. QcRequest(n, "prevote", vs) \in Seq(Messages)
    BY <1>3, QcRequestType, Zenon DEF VoteTypes
  <2>4. self \o ToSelf(n, vote) \in Seq(SelfMsgs)
        /\ outbound[n] \o QcRequest(n, "prevote", vs) \o ToOperator(n, vote) \in Seq(Messages)
    BY <1>2, <2>2, <2>3, QueueType, Zenon
  <2>5. /\ selfMsgs' = [selfMsgs EXCEPT ![n] = self \o ToSelf(n, vote)]
        /\ outbound' = [outbound EXCEPT ![n] =
                           @ \o QcRequest(n, "prevote", vs) \o ToOperator(n, vote)]
        /\ step' = [step EXCEPT ![n] = ViewStepPrecommit]
        /\ UNCHANGED <<proposal, committed, status, sent>>
        /\ IF locks THEN UpdateSafetyInfo(n, GetQC("prevote", vs))
           ELSE UNCHANGED <<safetyQc, proposalInfo>>
    BY <1>3, Zenon DEF enterPreCommit
  <2> HIDE DEF vote, locks
  <2>6. selfMsgs' \in [Honest -> Seq(SelfMsgs)] /\ outbound' \in [Honest -> Seq(Messages)]
    BY <2>4, <2>5, Zenon DEF TypeOK, SelfMsgs
  <2>7. safetyQc' \in [Honest -> Qcs \cup {None}] /\ proposalInfo' \in [Honest -> Hashes \cup {None}]
    <3>1. GetQC("prevote", vs) \in Qcs
      BY <1>3, GetQCType, Zenon DEF VoteTypes
    <3> QED
      BY <2>5, <3>1, UpdateSafetyInfoType, Zenon DEF TypeOK
  <2> QED
    BY <1>1, <2>5, <2>6, <2>7, Zenon DEF TypeOK, SelfMsgs
<1>4. CASE /\ type = "precommit" /\ added /\ vs.maj23 # None /\ step[n] < ViewStepCommit
           /\ enterCommit(n, vs, self)
  <2> DEFINE qc == [type |-> "precommit", hash |-> vs.maj23,
                    bits |-> votesBitArray(vs), sig |-> vs.maj23Sig]
             more == IF n \in FailingNodes THEN <<>> ELSE QcRequest(n, "precommit", vs)
  <2>1. GetQC("precommit", vs) \in Qcs /\ QcRequest(n, "precommit", vs) \in Seq(Messages)
    BY <1>4, GetQCType, QcRequestType, ZenonT(30) DEF VoteTypes
  <2>2. qc \in Qcs
    BY <1>4, CommitQcType, Zenon
  <2>3. outbound[n] \o more \in Seq(Messages)
    BY <1>2, <2>1
  <2>4. /\ step' = [step EXCEPT ![n] = ViewStepCommit]
        /\ selfMsgs' = [selfMsgs EXCEPT ![n] = self]
        /\ UNCHANGED <<proposal, sent>>
    BY <1>4, Zenon DEF enterCommit
  <2>5. selfMsgs' \in [Honest -> Seq(SelfMsgs)]
    BY <2>4, Zenon DEF TypeOK, SelfMsgs
  <2>6. CASE proposal[n] = None
    <3>1. status' = [status EXCEPT ![n] = "panicked"]
          /\ UNCHANGED <<safetyQc, proposalInfo, committed, outbound>>
      BY <1>4, <2>6, Zenon DEF enterCommit
    <3> QED
      BY <1>1, <2>4, <2>5, <3>1, Zenon DEF TypeOK, SelfMsgs
  <2>7. CASE proposal[n] # None
    <3>1. /\ outbound' = [outbound EXCEPT ![n] = @ \o more]
          /\ status' = [status EXCEPT ![n] = IF proposal[n] = vs.maj23 THEN "closing" ELSE @]
      BY <1>4, <2>7, Zenon DEF enterCommit
    <3>2. outbound' \in [Honest -> Seq(Messages)]
      <4> HIDE DEF more
      <4> QED
        BY <2>3, <3>1, Zenon DEF TypeOK
    <3>3. /\ committed' \in [Honest -> Qcs \cup {None}]
          /\ safetyQc' \in [Honest -> Qcs \cup {None}]
          /\ proposalInfo' \in [Honest -> Hashes \cup {None}]
      <4>1. \/ /\ committed' = [committed EXCEPT ![n] = qc]
               /\ safetyQc' = [safetyQc EXCEPT ![n] = None]
               /\ proposalInfo' = [proposalInfo EXCEPT ![n] = None]
            \/ UpdateSafetyInfo(n, GetQC("precommit", vs)) /\ UNCHANGED committed
        BY <1>4, <2>7, Zenon DEF enterCommit
      <4> HIDE DEF qc
      <4> QED
        <5>1. CASE UpdateSafetyInfo(n, GetQC("precommit", vs)) /\ UNCHANGED committed
          BY <2>1, <5>1, UpdateSafetyInfoType, Zenon DEF TypeOK
        <5>2. CASE /\ committed' = [committed EXCEPT ![n] = qc]
                   /\ safetyQc' = [safetyQc EXCEPT ![n] = None]
                   /\ proposalInfo' = [proposalInfo EXCEPT ![n] = None]
          BY <2>2, <5>2, Zenon DEF TypeOK
        <5> QED
          BY <4>1, <5>1, <5>2, Zenon
    <3>4. status' \in [Honest -> {"running", "closing", "closed", "stopped", "panicked"}]
      BY <3>1, Zenon DEF TypeOK
    <3> QED
      BY <1>1, <2>4, <2>5, <3>2, <3>3, <3>4, Zenon DEF TypeOK, SelfMsgs
  <2> QED
    BY <2>6, <2>7, Zenon
<1>5. CASE /\ selfMsgs' = [selfMsgs EXCEPT ![n] = self]
           /\ UNCHANGED <<step, proposal, safetyQc, proposalInfo, committed, status, outbound, sent>>
  BY <1>1, <1>5, Zenon DEF TypeOK, SelfMsgs
<1> QED
  BY <1>3, <1>4, <1>5, Zenon DEF afterVote

\* Whatever a node can find in its inbound channel is a message.
LEMMA ReceivableType ==
    ASSUME TypeOK, NEW n \in Honest
    PROVE  /\ ReceivableProposals(n) \subseteq Hashes
           /\ ReceivableVotes(n) \subseteq Votes
           /\ ReceivableQcs(n) \subseteq QcMsgs
<1>1. ReceivableProposals(n) \subseteq Hashes
  BY Zenon DEF ReceivableProposals
<1>2. ReceivableVotes(n) \subseteq Votes
  <2>1. FaultyVotes[n] \subseteq Votes
    BY KBFTAssumption, Zenon
  <2>2. \A m \in sent : m.kind = "vote" => m \in Votes
    BY Zenon DEF TypeOK, Proposals, QcMsgs
  <2> QED
    BY <2>1, <2>2, Zenon DEF ReceivableVotes
<1>3. ReceivableQcs(n) \subseteq QcMsgs
  <2>1. \A m \in sent : m.kind = "qc" => m \in QcMsgs
    BY Zenon DEF TypeOK, Proposals, Votes
  <2>2. ForgeableQcs \subseteq QcMsgs
    BY KBFTAssumption DEF ForgeableQcs, QcMsgs
  <2> QED
    BY <2>1, <2>2, Zenon DEF ReceivableQcs
<1> QED
  BY <1>1, <1>2, <1>3, Zenon

\* Sending a queued message keeps the types.
LEMMA SendType ==
    ASSUME TypeOK, NEW n \in Honest, Send(n)
    PROVE  TypeOK'
<1> DEFINE m == Head(outbound[n])
<1>1. outbound[n] \in Seq(Messages) /\ outbound[n] # <<>>
  BY Zenon DEF TypeOK, Send
<1>2. m \in Messages /\ Tail(outbound[n]) \in Seq(Messages)
  BY <1>1
<1> HIDE DEF m
<1>3. Encode(n, m) \in SentMsgs
  <2>1. CASE m.kind = "qc"
    <3>1. m \in QcRequests
      BY <1>2, <2>1, Zenon DEF Messages, Proposals, Votes
    <3>2. m.type \in VoteTypes /\ m.hash \in Hashes /\ m.sig \subseteq Indices
      BY <3>1, Zenon DEF QcRequests
    <3>3. votesBitArray(voteSet(n, m.type)) \subseteq Indices
      BY Zenon DEF votesBitArray
    <3>4. [kind |-> "qc", type |-> m.type, hash |-> m.hash, sig |-> m.sig,
           bits |-> votesBitArray(voteSet(n, m.type))] \in QcMsgs
      BY <3>2, <3>3, Zenon DEF QcMsgs
    <3> QED
      BY <2>1, <3>4, Zenon DEF Encode, SentMsgs
  <2>2. CASE m.kind # "qc"
    <3>1. m \in Proposals \cup Votes
      BY <1>2, <2>2, Zenon DEF Messages, QcRequests
    <3> QED
      BY <2>2, <3>1, Zenon DEF Encode, SentMsgs
  <2> QED
    BY <2>1, <2>2, Zenon
<1>4. sent' \subseteq SentMsgs
  BY <1>3, Zenon DEF Send, TypeOK, SentMsgs, m
<1>5. outbound' \in [Honest -> Seq(Messages)]
  BY <1>2, Zenon DEF Send, TypeOK
<1> QED
  BY <1>4, <1>5, Zenon DEF Send, TypeOK, SentMsgs

(***************************************************************************)
(* Agreement.  An index stands for a tesseract if its node is faulty, or   *)
(* if it is the first index of a node that has the tesseract as its        *)
(* proposal and, for a precommit, is locked on it.  The inductive          *)
(* invariant says that every counted vote, every queued or sent vote and   *)
(* every signature of a certificate stands for its tesseract.  Two quorums *)
(* of standing indices meet in a node that is not faulty, which has one    *)
(* proposal, so they are for one tesseract.                                *)
(***************************************************************************)
Stands(i, type, h) ==
    \/ KramaID(i) \in Faulty
    \/ /\ i = IndexOf(KramaID(i))
       /\ proposal[KramaID(i)] = h
       /\ type = "precommit" => LockedOn(KramaID(i), h)

QuorumFor(Q, h) ==
    /\ Q \subseteq Indices
    /\ HasQuorum(Q)
    /\ \A i \in Q : Stands(i, "prevote", h)

VoteSetBacked(type, vs) ==
    /\ \A h \in Hashes : \A i \in vs.byTS[h] : Stands(i, type, h)
    /\ vs.maj23 # None =>
          /\ HasQuorum(vs.maj23VoteSet)
          /\ vs.maj23VoteSet \subseteq vs.byTS[vs.maj23]
          /\ \A i \in vs.maj23Sig : Stands(i, type, vs.maj23)

Backed(m) ==
    /\ m.kind = "vote" => Stands(m.index, m.type, m.hash)
    /\ m.kind = "qc" => \A i \in m.sig : Stands(i, m.type, m.hash)

QueueBacked(q) == \A k \in DOMAIN q : Backed(q[k])

\* What the invariant says of one node: its votes, its two queues, its lock and its chain.
VotesSafe(n) == \A type \in VoteTypes : VoteSetBacked(type, voteSet(n, type))
SelfSafe(n) == QueueBacked(selfMsgs[n])
OutSafe(n) == QueueBacked(outbound[n])
LockSafe(n) == safetyQc[n] # None => QuorumFor(safetyQc[n].bits, safetyQc[n].hash)
ChainSafe(n) ==
    committed[n] # None =>
        precommits[n].maj23 # None /\ committed[n].hash = precommits[n].maj23

NodeSafe(n) == VotesSafe(n) /\ SelfSafe(n) /\ OutSafe(n) /\ LockSafe(n) /\ ChainSafe(n)

SafetyInv ==
    /\ \A n \in Honest : NodeSafe(n)
    /\ \A m \in sent : Backed(m)

\* The vote set of a node is one, and is backed.
LEMMA VoteSetOf ==
    ASSUME TypeOK, NEW n \in Honest, NEW type \in VoteTypes
    PROVE  /\ voteSet(n, type) \in VoteSets
           /\ SafetyInv => VoteSetBacked(type, voteSet(n, type))
<1>1. voteSet(n, type) \in VoteSets
  BY Zenon DEF TypeOK, voteSet
<1> QED
  BY <1>1, Zenon DEF SafetyInv, NodeSafe, VotesSafe

\* A vote set's majority is a quorum that stands for its hash.
LEMMA MajorityStands ==
    ASSUME NEW type \in VoteTypes, NEW vs \in VoteSets, VoteSetBacked(type, vs), vs.maj23 # None
    PROVE  QuorumFor(vs.maj23VoteSet, vs.maj23)
<1>1. vs.maj23 \in Hashes /\ vs.maj23VoteSet \subseteq Indices
  BY Zenon DEF VoteSets
<1>2. \A i \in vs.maj23VoteSet : Stands(i, type, vs.maj23)
  BY <1>1, Zenon DEF VoteSetBacked
<1>3. \A i \in vs.maj23VoteSet : Stands(i, "prevote", vs.maj23)
  BY <1>2, Zenon DEF Stands
<1> QED
  BY <1>1, <1>3, Zenon DEF QuorumFor, VoteSetBacked

\* Counting a vote that stands for its tesseract; a majority is never replaced.
LEMMA AddVoteBacked ==
    ASSUME NEW type, NEW vs \in VoteSets, NEW i \in Indices, NEW h \in Hashes,
           VoteSetBacked(type, vs), Stands(i, type, h)
    PROVE  /\ VoteSetBacked(type, addVerifiedVote(vs, i, h))
           /\ vs.maj23 # None => addVerifiedVote(vs, i, h).maj23 = vs.maj23
<1> DEFINE voters == vs.byTS[h] \cup {i}
           counted == [vs EXCEPT !.votes[i] = h, !.byTS[h] = voters]
           crossed == [counted EXCEPT !.maj23 = h, !.maj23VoteSet = voters, !.maj23Sig = voters]
           other == [vs EXCEPT !.votes[i] = IF vs.maj23 = h THEN h ELSE @]
<1>1. \A j \in voters : Stands(j, type, h)
  BY Zenon DEF VoteSetBacked
<1>2. /\ counted.byTS = [vs.byTS EXCEPT ![h] = voters]
      /\ counted.maj23 = vs.maj23 /\ counted.maj23VoteSet = vs.maj23VoteSet
      /\ counted.maj23Sig = vs.maj23Sig
  BY Zenon DEF VoteSets
<1>3. /\ crossed.byTS = [vs.byTS EXCEPT ![h] = voters]
      /\ crossed.maj23 = h /\ crossed.maj23VoteSet = voters /\ crossed.maj23Sig = voters
  BY Zenon DEF VoteSets
<1>4. /\ other.byTS = vs.byTS /\ other.maj23 = vs.maj23
      /\ other.maj23VoteSet = vs.maj23VoteSet /\ other.maj23Sig = vs.maj23Sig
  BY Zenon DEF VoteSets
<1>5. /\ vs.byTS \in [Hashes -> SUBSET Indices] /\ vs.maj23 \in Hashes \cup {None}
  BY Zenon DEF VoteSets
<1>6. addVerifiedVote(vs, i, h) =
        IF vs.votes[i] # None THEN other
        ELSE IF vs.maj23 = None /\ HasQuorum(voters) THEN crossed ELSE counted
  BY Zenon DEF addVerifiedVote
<1>7. vs.byTS[h] \subseteq voters
  BY Zenon
<1> HIDE DEF voters, counted, crossed, other
<1>8. CASE vs.votes[i] # None
  BY <1>4, <1>6, <1>8, Zenon DEF VoteSetBacked
<1>9. CASE vs.votes[i] = None /\ vs.maj23 = None /\ HasQuorum(voters)
  BY <1>1, <1>3, <1>5, <1>6, <1>9, ZenonT(30) DEF VoteSetBacked
<1>10. CASE vs.votes[i] = None /\ ~(vs.maj23 = None /\ HasQuorum(voters))
  BY <1>1, <1>2, <1>5, <1>6, <1>7, <1>10, VoteSetAssumption, Zenon DEF VoteSetBacked
<1> QED
  BY <1>8, <1>9, <1>10, Zenon

\* Adding a certificate whose signers stand for its tesseract.
LEMMA AddQcBacked ==
    ASSUME NEW type, NEW vs \in VoteSets, NEW qc, qc.hash \in Hashes, qc.bits \subseteq Indices,
           qc.sig = qc.bits, VoteSetBacked(type, vs), \A i \in qc.bits : Stands(i, type, qc.hash)
    PROVE  /\ VoteSetBacked(type, AddQc(vs, qc))
           /\ vs.maj23 # None => AddQc(vs, qc).maj23 = vs.maj23
<1> DEFINE h == qc.hash
           new == {i \in qc.bits : vs.votes[i] = None}
           upTo(x) == vs.byTS[h] \cup {i \in new : ~Before(x, i)}
           crossings == {x \in new : vs.maj23 = None /\ HasQuorum(upTo(x))}
           first == CHOOSE x \in crossings : \A d \in crossings : ~Before(d, x)
           majorityAt(i) == vs.maj23 = h \/ (crossings # {} /\ Before(first, i))
           votes == [i \in Indices |->
               IF i \in new \/ (i \in qc.bits /\ majorityAt(i)) THEN h ELSE vs.votes[i]]
           all == vs.byTS[h] \cup new
           counted == [vs EXCEPT !.votes = votes, !.byTS[h] = all]
           crossed == [counted EXCEPT !.maj23 = h, !.maj23VoteSet = upTo(first), !.maj23Sig = qc.sig]
<1>1. AddQc(vs, qc) = IF crossings = {} THEN counted ELSE crossed
  BY Zenon DEF AddQc
<1>2. \A i \in all : Stands(i, type, h)
  BY Zenon DEF VoteSetBacked
<1>3. vs.byTS[h] \subseteq all /\ upTo(first) \subseteq all
  BY Zenon
<1>4. ASSUME crossings # {} PROVE vs.maj23 = None /\ HasQuorum(upTo(first))
  <2>1. crossings \subseteq Indices
    BY Zenon
  <2>2. first \in crossings
    <3> HIDE DEF crossings
    <3> QED
      BY <1>4, <2>1, FirstOf, Zenon
  <2> QED
    BY <2>2, Zenon
<1> HIDE DEF crossings, first, upTo, all, votes, new
<1>5. vs.byTS \in [Hashes -> SUBSET Indices] /\ vs.maj23 \in Hashes \cup {None}
  BY Zenon DEF VoteSets
<1>6. /\ counted.byTS = [vs.byTS EXCEPT ![h] = all]
      /\ counted.maj23 = vs.maj23 /\ counted.maj23VoteSet = vs.maj23VoteSet
      /\ counted.maj23Sig = vs.maj23Sig
  BY Zenon DEF VoteSets
<1>7. /\ crossed.byTS = [vs.byTS EXCEPT ![h] = all]
      /\ crossed.maj23 = h /\ crossed.maj23VoteSet = upTo(first) /\ crossed.maj23Sig = qc.sig
  BY Zenon DEF VoteSets
<1> HIDE DEF counted, crossed
<1>8. CASE crossings = {}
  BY <1>1, <1>2, <1>3, <1>5, <1>6, <1>8, VoteSetAssumption, ZenonT(30) DEF VoteSetBacked
<1>9. CASE crossings # {}
  <2>1. AddQc(vs, qc) = crossed /\ vs.maj23 = None
    BY <1>1, <1>4, <1>9, Zenon
  <2>2. \A g \in Hashes : \A i \in crossed.byTS[g] : Stands(i, type, g)
    BY <1>2, <1>5, <1>7, Zenon DEF VoteSetBacked
  <2>3. HasQuorum(upTo(first))
    BY <1>4, <1>9, Zenon
  <2> QED
    BY <1>3, <1>5, <1>7, <2>1, <2>2, <2>3, Zenon DEF VoteSetBacked
<1> QED
  BY <1>8, <1>9, Zenon

\* Votes of faulty nodes, sent votes and the certificates made of them are backed.
LEMMA ReceivableBacked ==
    ASSUME TypeOK, SafetyInv, NEW n \in Honest
    PROVE  /\ \A v \in ReceivableVotes(n) : Stands(v.index, v.type, v.hash)
           /\ \A qc \in ReceivableQcs(n) : Backed(qc)
<1>1. \A v \in FaultyVotes[n] : Stands(v.index, v.type, v.hash)
  BY KBFTAssumption, Zenon DEF Stands
<1>2. \A m \in sent : m.kind = "vote" => Stands(m.index, m.type, m.hash)
  BY Zenon DEF SafetyInv, Backed
<1>3. ASSUME NEW qc \in ForgeableQcs, Certifiable(qc) PROVE Backed(qc)
  <2>1. qc.kind = "qc" /\ qc.sig = qc.bits
    BY DEF ForgeableQcs
  <2>2. ASSUME NEW i \in qc.bits PROVE Stands(i, qc.type, qc.hash)
    <3>1. CASE KramaID(i) \in Faulty
      BY <3>1, Zenon DEF Stands
    <3>2. CASE [kind |-> "vote", type |-> qc.type, hash |-> qc.hash, index |-> i] \in sent
      BY <1>2, <3>2, Zenon
    <3> QED
      BY <1>3, <3>1, <3>2, Zenon DEF Certifiable
  <2> QED
    BY <2>1, <2>2, Zenon DEF Backed
<1>4. \A m \in sent : Backed(m)
  BY Zenon DEF SafetyInv
<1> QED
  BY <1>1, <1>2, <1>3, <1>4, Zenon DEF ReceivableVotes, ReceivableQcs

\* Node n counts votes of a type, which gives vs: vs is backed and keeps its majority.
Counts(n, type, vs) ==
    /\ VoteSetBacked(type, vs)
    /\ voteSet(n, type).maj23 # None => vs.maj23 = voteSet(n, type).maj23
    /\ updateVoteSet(n, type, vs)

(***************************************************************************)
(* A turn of the handler of node n, with the message taken from a channel  *)
(* and the votes counted: it takes over a proposal, or goes on with the    *)
(* vote set vs.  "self" is what is left in selfMsgChan.                    *)
(***************************************************************************)
Proposes(n, self) == \E h \in Hashes : setProposal(n, h, self)

GoesOn(n, self, type, vs) ==
    /\ updateVoteSet(n, type, vs)
    /\ SafetyInv => Counts(n, type, vs)
    /\ \E added : afterVote(n, type, vs, added, self)

Turn(n, self) ==
    /\ HandlesMessages(n)
    /\ SafetyInv => QueueBacked(self)
    /\ Proposes(n, self) \/ \E type \in VoteTypes : \E vs \in VoteSets : GoesOn(n, self, type, vs)

\* Counting a single vote that stands for its tesseract.
LEMMA AddVoteGoesOn ==
    ASSUME TypeOK, NEW n \in Honest, NEW self, NEW v \in Votes,
           SafetyInv => Stands(v.index, v.type, v.hash), addVote(n, v, self)
    PROVE  \E type \in VoteTypes : \E vs \in VoteSets : GoesOn(n, self, type, vs)
<1> DEFINE old == voteSet(n, v.type)
           vs == IF CanVote(v.index) THEN addVerifiedVote(old, v.index, v.hash) ELSE old
<1>1. v.type \in VoteTypes /\ v.index \in Indices /\ v.hash \in Hashes
  BY Zenon DEF Votes
<1>2. old \in VoteSets /\ (SafetyInv => VoteSetBacked(v.type, old))
  BY <1>1, VoteSetOf, Zenon
<1>3. updateVoteSet(n, v.type, vs) /\ afterVote(n, v.type, vs, IsNewVote(old, v.index), self)
  BY Zenon DEF addVote
<1>4. vs \in VoteSets /\ (SafetyInv => Counts(n, v.type, vs))
  <2>1. vs \in VoteSets
    <3> HIDE DEF old
    <3> QED
      BY <1>1, <1>2, AddVoteType, Zenon
  <2>2. ASSUME SafetyInv
        PROVE  VoteSetBacked(v.type, vs) /\ (old.maj23 # None => vs.maj23 = old.maj23)
    <3> HIDE DEF old
    <3> QED
      BY <1>1, <1>2, <2>2, AddVoteBacked, Zenon
  <2> QED
    BY <1>3, <2>1, <2>2, Zenon DEF Counts
<1> HIDE DEF vs, old
<1> QED
  BY <1>1, <1>3, <1>4, Zenon DEF GoesOn

\* Counting a certificate whose signatures stand for its tesseract.
LEMMA AddQcGoesOn ==
    ASSUME TypeOK, NEW n \in Honest, NEW qc \in QcMsgs, SafetyInv => Backed(qc), addQc(n, qc)
    PROVE  \E type \in VoteTypes : \E vs \in VoteSets : GoesOn(n, selfMsgs[n], type, vs)
<1> DEFINE old == voteSet(n, qc.type)
           accepted == AcceptsQc(old, qc)
           vs == IF accepted THEN AddQc(old, qc) ELSE old
<1>1. qc.type \in VoteTypes /\ qc.hash \in Hashes /\ qc.bits \subseteq Indices /\ qc.sig \subseteq Indices
  BY Zenon DEF QcMsgs
<1>2. old \in VoteSets /\ (SafetyInv => VoteSetBacked(qc.type, old))
  BY <1>1, VoteSetOf, Zenon
<1>3. updateVoteSet(n, qc.type, vs) /\ afterVote(n, qc.type, vs, accepted, selfMsgs[n])
  BY Zenon DEF addQc
<1>4. vs \in VoteSets /\ (SafetyInv => Counts(n, qc.type, vs))
  <2>1. vs \in VoteSets
    <3> HIDE DEF old, accepted
    <3> QED
      BY <1>1, <1>2, AddQcType, Zenon
  <2>2. ASSUME SafetyInv
        PROVE  VoteSetBacked(qc.type, vs) /\ (old.maj23 # None => vs.maj23 = old.maj23)
    <3>1. accepted => qc.sig = qc.bits /\ \A i \in qc.bits : Stands(i, qc.type, qc.hash)
      BY <2>2, Zenon DEF AcceptsQc, Backed, QcMsgs
    <3> HIDE DEF old, accepted
    <3> QED
      BY <1>1, <1>2, <2>2, <3>1, AddQcBacked, Zenon
  <2> QED
    BY <1>3, <2>1, <2>2, Zenon DEF Counts
<1> HIDE DEF vs, old, accepted
<1> QED
  BY <1>1, <1>3, <1>4, Zenon DEF GoesOn

\* What a node takes from selfMsgChan, and what it leaves there.
LEMMA SelfTurn ==
    ASSUME TypeOK, NEW n \in Honest, HandleSelf(n)
    PROVE  \E self \in Seq(SelfMsgs) : Turn(n, self)
<1>1. PICK q \in Seq(SelfMsgs) : q = selfMsgs[n] /\ q # <<>>
  BY Zenon DEF HandleSelf, TypeOK, SelfMsgs
<1>2. /\ \A k \in DOMAIN Tail(q) : k + 1 \in DOMAIN q /\ Tail(q)[k] = q[k + 1]
      /\ 1 \in DOMAIN q /\ Head(q) = q[1]
      /\ Head(q) \in SelfMsgs /\ Tail(q) \in Seq(SelfMsgs)
  <2> HIDE DEF SelfMsgs
  <2> QED
    BY <1>1
<1>3. PICK m \in SelfMsgs, self \in Seq(SelfMsgs) : m = Head(q) /\ self = Tail(q)
  BY <1>2, Zenon
<1>4. SafetyInv => Backed(m) /\ QueueBacked(self)
  BY <1>1, <1>2, <1>3, Zenon DEF SafetyInv, NodeSafe, SelfSafe, QueueBacked
<1>5. /\ HandlesMessages(n)
      /\ IF m.kind = "proposal" THEN setProposal(n, m.hash, self) ELSE addVote(n, m, self)
  BY <1>1, <1>3, Zenon DEF HandleSelf
<1>6. CASE m.kind = "proposal"
  <2>1. m.hash \in Hashes
    BY <1>6, Zenon DEF SelfMsgs, Proposals, Votes
  <2> QED
    BY <1>4, <1>5, <1>6, <2>1, Zenon DEF Turn, Proposes
<1>7. CASE m.kind # "proposal"
  <2>1. m \in Votes /\ (SafetyInv => Stands(m.index, m.type, m.hash))
    BY <1>4, <1>7, Zenon DEF SelfMsgs, Proposals, Votes, Backed
  <2>2. \E type \in VoteTypes : \E vs \in VoteSets : GoesOn(n, self, type, vs)
    BY <1>5, <1>7, <2>1, AddVoteGoesOn, Zenon
  <2> QED
    BY <1>4, <1>5, <2>2, Zenon DEF Turn
<1> QED
  BY <1>6, <1>7, Zenon

\* Every step is the timeout, a turn, or leaves everything but the channels alone.
LEMMA NextTurns ==
    ASSUME TypeOK, Next
    PROVE  \E n \in Honest : \/ HandleTimeout(n) \/ Send(n) \/ Exit(n) \/ Stop(n)
                             \/ \E self \in Seq(SelfMsgs) : Turn(n, self)
<1>1. PICK n \in Honest : Handler(n) \/ Send(n) \/ Exit(n) \/ Stop(n)
  BY Zenon DEF Next
<1>2. selfMsgs[n] \in Seq(SelfMsgs) /\ (SafetyInv => QueueBacked(selfMsgs[n]))
  BY Zenon DEF TypeOK, SelfMsgs, SafetyInv, NodeSafe, SelfSafe
<1>3. ASSUME HandleProposal(n) PROVE Turn(n, selfMsgs[n])
  BY <1>2, <1>3, ReceivableType, Zenon DEF HandleProposal, Turn, Proposes
<1>4. ASSUME HandleVote(n) PROVE Turn(n, selfMsgs[n])
  <2>1. PICK v \in ReceivableVotes(n) : addVote(n, v, selfMsgs[n])
    BY <1>4, Zenon DEF HandleVote
  <2>2. v \in Votes /\ (SafetyInv => Stands(v.index, v.type, v.hash))
    BY ReceivableType, ReceivableBacked, Zenon
  <2>3. \E type \in VoteTypes : \E vs \in VoteSets : GoesOn(n, selfMsgs[n], type, vs)
    BY <2>1, <2>2, AddVoteGoesOn, Zenon
  <2> QED
    BY <1>2, <1>4, <2>3, Zenon DEF HandleVote, Turn
<1>5. ASSUME HandleQc(n) PROVE Turn(n, selfMsgs[n])
  <2>1. PICK qc \in ReceivableQcs(n) : addQc(n, qc)
    BY <1>5, Zenon DEF HandleQc
  <2>2. qc \in QcMsgs /\ (SafetyInv => Backed(qc))
    BY ReceivableType, ReceivableBacked, Zenon
  <2>3. \E type \in VoteTypes : \E vs \in VoteSets : GoesOn(n, selfMsgs[n], type, vs)
    BY <2>1, <2>2, AddQcGoesOn, Zenon
  <2> QED
    BY <1>2, <1>5, <2>3, Zenon DEF HandleQc, Turn
<1> QED
  BY <1>1, <1>2, <1>3, <1>4, <1>5, SelfTurn, Zenon DEF Handler

\* The types hold at the start.
LEMMA InitType == Init => TypeOK
<1> SUFFICES ASSUME Init PROVE TypeOK
  BY Zenon
<1>1. NewVoteSet \in VoteSets
  BY Zenon DEF NewVoteSet, VoteSets
<1>2. prevotes \in [Honest -> VoteSets] /\ precommits \in [Honest -> VoteSets]
  BY <1>1, Zenon DEF Init
<1> QED
  BY <1>2 DEF Init, TypeOK

\* Every step keeps the types.
LEMMA NextType == TypeOK /\ [Next]_vars => TypeOK'
<1> SUFFICES ASSUME TypeOK, [Next]_vars PROVE TypeOK'
  BY Zenon
<1>1. CASE UNCHANGED vars
  BY <1>1, Zenon DEF vars, TypeOK
<1>2. ASSUME NEW n \in Honest, HandleTimeout(n) PROVE TypeOK'
  <2>1. selfMsgs[n] \in Seq(SelfMsgs) /\ ProposalMsg(Tesseract) \in SelfMsgs
    BY KBFTAssumption, Zenon DEF TypeOK, SelfMsgs, ProposalMsg, Proposals
  <2>2. selfMsgs' \in [Honest -> Seq(SelfMsgs)]
    BY <1>2, <2>1 DEF HandleTimeout, TypeOK, SelfMsgs
  <2> QED
    BY <1>2, <2>2, Zenon DEF HandleTimeout, TypeOK, SelfMsgs
<1>3. ASSUME NEW n \in Honest, NEW self \in Seq(SelfMsgs), Turn(n, self) PROVE TypeOK'
  BY <1>3, SetProposalType, AfterVoteType, Zenon DEF Turn, Proposes, GoesOn
<1>4. ASSUME NEW n \in Honest, Exit(n) PROVE TypeOK'
  BY <1>4, SMTT(30) DEF Exit, TypeOK
<1>5. ASSUME NEW n \in Honest, Stop(n) PROVE TypeOK'
  BY <1>5, SMTT(30) DEF Stop, TypeOK
<1> QED
  BY <1>1, <1>2, <1>3, <1>4, <1>5, NextTurns, SendType, Zenon

\* Every channel and every instance keeps holding values of the code's types.
THEOREM TypeCorrect == Spec => []TypeOK
BY InitType, NextType, PTL DEF Spec

(***************************************************************************)
(* What a step has to keep for an index to stand for its tesseract: the    *)
(* proposal of a node, once set, and its lock.                             *)
(***************************************************************************)
Keeps ==
    \A n \in Honest : \A h \in Hashes :
        /\ proposal[n] = h => proposal'[n] = h
        /\ LockedOn(n, h) => LockedOn(n, h)'

\* Then an index that stands for a tesseract still does.
LEMMA StandsKept ==
    ASSUME Keeps, NEW i \in Indices, NEW type, NEW h \in Hashes, Stands(i, type, h)
    PROVE  Stands(i, type, h)'
<1>1. KramaID(i) \in Faulty \/ KramaID(i) \in Honest
  BY IndexType, Zenon DEF Honest
<1> QED
  BY <1>1, Zenon DEF Keeps, Stands

\* Then a backed vote set is still backed.
LEMMA VoteSetKept ==
    ASSUME Keeps, NEW type, NEW vs \in VoteSets, VoteSetBacked(type, vs)
    PROVE  VoteSetBacked(type, vs)'
<1>1. /\ vs.byTS \in [Hashes -> SUBSET Indices] /\ vs.maj23 \in Hashes \cup {None}
      /\ vs.maj23Sig \subseteq Indices
  BY Zenon DEF VoteSets
<1>2. \A h \in Hashes : \A i \in vs.byTS[h] : Stands(i, type, h)'
  BY <1>1, StandsKept, Zenon DEF VoteSetBacked
<1>3. vs.maj23 # None => \A i \in vs.maj23Sig : Stands(i, type, vs.maj23)'
  BY <1>1, StandsKept, Zenon DEF VoteSetBacked
<1> QED
  BY <1>2, <1>3, Zenon DEF VoteSetBacked

\* Then a backed message is still backed.
LEMMA BackedKept ==
    ASSUME Keeps, NEW m \in Messages \cup SentMsgs, Backed(m)
    PROVE  Backed(m)'
<1>1. CASE m.kind = "vote"
  <2>1. m \in Votes
    BY <1>1, Zenon DEF Messages, SentMsgs, Proposals, QcRequests, QcMsgs
  <2>2. m.index \in Indices /\ m.hash \in Hashes
    BY <2>1, Zenon DEF Votes
  <2> QED
    BY <1>1, <2>2, StandsKept, Zenon DEF Backed
<1>2. CASE m.kind = "qc"
  <2>1. m \in QcRequests \/ m \in QcMsgs
    BY <1>2, Zenon DEF Messages, SentMsgs, Proposals, Votes
  <2>2. m.sig \subseteq Indices /\ m.hash \in Hashes
    BY <2>1, Zenon DEF QcRequests, QcMsgs
  <2> QED
    BY <1>2, <2>2, StandsKept, Zenon DEF Backed
<1> QED
  BY <1>1, <1>2, Zenon DEF Backed

AnyMsg == Messages \cup SentMsgs

\* Then a backed queue is still backed.
LEMMA QueueKept ==
    ASSUME Keeps, NEW q \in Seq(AnyMsg), QueueBacked(q)
    PROVE  QueueBacked(q)'
<1>1. \A k \in DOMAIN q : q[k] \in Messages \cup SentMsgs
  BY DEF AnyMsg
<1> QED
  BY <1>1, BackedKept, Zenon DEF QueueBacked

\* Then a quorum for a tesseract is still one.
LEMMA QuorumKept ==
    ASSUME Keeps, NEW Q, NEW h \in Hashes, QuorumFor(Q, h)
    PROVE  QuorumFor(Q, h)'
BY StandsKept, Zenon DEF QuorumFor

\* The queues of a node, and what a step of it starts from, hold messages.
LEMMA QueuesOf ==
    ASSUME TypeOK, NEW n \in Honest
    PROVE  /\ Seq(SelfMsgs) \subseteq Seq(AnyMsg) /\ Seq(Votes) \subseteq Seq(AnyMsg)
           /\ Seq(Messages) \subseteq Seq(AnyMsg)
           /\ selfMsgs[n] \in Seq(AnyMsg) /\ outbound[n] \in Seq(AnyMsg)
<1>1. SelfMsgs \subseteq AnyMsg /\ Messages \subseteq AnyMsg /\ Votes \subseteq AnyMsg
  BY Zenon DEF AnyMsg, SelfMsgs, SentMsgs
<1>2. selfMsgs[n] \in Seq(SelfMsgs) /\ outbound[n] \in Seq(Messages)
  BY Zenon DEF TypeOK, SelfMsgs
<1> HIDE DEF SelfMsgs, Messages, AnyMsg
<1> QED
  BY <1>1, <1>2, SMTT(30)

\* What a step that keeps proposals and locks does not change of a node is still safe.
LEMMA NodeKept ==
    ASSUME TypeOK, SafetyInv, Keeps, NEW n \in Honest
    PROVE  /\ prevotes'[n] = prevotes[n] /\ precommits'[n] = precommits[n] => VotesSafe(n)'
           /\ selfMsgs'[n] = selfMsgs[n] => SelfSafe(n)'
           /\ outbound'[n] = outbound[n] => OutSafe(n)'
           /\ safetyQc'[n] = safetyQc[n] => LockSafe(n)'
           /\ committed'[n] = committed[n] /\ precommits'[n] = precommits[n] => ChainSafe(n)'
<1> VotesSafe(n) /\ SelfSafe(n) /\ OutSafe(n) /\ LockSafe(n) /\ ChainSafe(n)
  BY Zenon DEF SafetyInv, NodeSafe
<1>1. ASSUME prevotes'[n] = prevotes[n], precommits'[n] = precommits[n] PROVE VotesSafe(n)'
  <2> SUFFICES ASSUME NEW type \in VoteTypes PROVE VoteSetBacked(type, voteSet(n, type))'
    BY Zenon DEF VotesSafe
  <2>1. voteSet(n, type)' = voteSet(n, type)
    BY <1>1, Zenon DEF voteSet
  <2>2. VoteSetBacked(type, voteSet(n, type)) /\ voteSet(n, type) \in VoteSets
    BY VoteSetOf, Zenon
  <2> QED
    BY <2>1, <2>2, VoteSetKept, Zenon DEF VoteSetBacked
<1>2. ASSUME selfMsgs'[n] = selfMsgs[n] PROVE SelfSafe(n)'
  BY <1>2, QueuesOf, QueueKept, Zenon DEF SelfSafe, QueueBacked
<1>3. ASSUME outbound'[n] = outbound[n] PROVE OutSafe(n)'
  BY <1>3, QueuesOf, QueueKept, Zenon DEF OutSafe, QueueBacked
<1>4. ASSUME safetyQc'[n] = safetyQc[n] PROVE LockSafe(n)'
  <2>1. safetyQc[n] # None => safetyQc[n].hash \in Hashes
    BY Zenon DEF TypeOK, Qcs
  <2> QED
    BY <1>4, <2>1, QuorumKept, Zenon DEF LockSafe, QuorumFor
<1>5. ASSUME committed'[n] = committed[n], precommits'[n] = precommits[n] PROVE ChainSafe(n)'
  BY <1>5, Zenon DEF ChainSafe
<1> QED
  BY <1>1, <1>2, <1>3, <1>4, <1>5, Zenon

\* So is what was sent.
LEMMA SentKept ==
    ASSUME TypeOK, SafetyInv, Keeps, NEW m \in sent
    PROVE  Backed(m)'
<1>1. m \in Messages \cup SentMsgs /\ Backed(m)
  BY Zenon DEF TypeOK, SentMsgs, SafetyInv
<1> QED
  BY <1>1, BackedKept, Zenon

\* Two backed queues put together are backed.
LEMMA ConcatBacked ==
    ASSUME NEW q \in Seq(AnyMsg), NEW r \in Seq(AnyMsg), QueueBacked(q)', QueueBacked(r)'
    PROVE  QueueBacked(q \o r)'
<1>1. ASSUME NEW k \in DOMAIN (q \o r)
      PROVE  \/ k \in DOMAIN q /\ (q \o r)[k] = q[k]
             \/ k - Len(q) \in DOMAIN r /\ (q \o r)[k] = r[k - Len(q)]
  BY DEF AnyMsg
<1> QED
  BY <1>1, Zenon DEF QueueBacked

\* A node's own vote stands for its tesseract after the step that signs it.
LEMMA OwnVoteBacked ==
    ASSUME NEW n \in Honest, NEW type, NEW h, proposal'[n] = h,
           type = "precommit" => LockedOn(n, h)'
    PROVE  QueueBacked(OwnVote(n, type, h))'
<1>1. CASE n \in Responders
  <2>1. KramaID(IndexOf(n)) = n
    BY <1>1, FirstIndex, VoteSetAssumption, Zenon DEF IsFirstIndex
  <2>2. Stands(IndexOf(n), type, h)'
    BY <2>1, Zenon DEF Stands
  <2>3. Backed(Vote(n, type, h))'
    BY <2>2, Zenon DEF Backed, Vote
  <2> QED
    BY <1>1, <2>3 DEF OwnVote, QueueBacked
<1>2. CASE n \notin Responders
  BY <1>2 DEF OwnVote, QueueBacked
<1> QED
  BY <1>1, <1>2, Zenon

\* The two queues of a node after a step that appends "more" and a vote of its own.
LEMMA QueuesBacked ==
    ASSUME Keeps, NEW n,
           NEW self \in Seq(AnyMsg), QueueBacked(self), NEW out \in Seq(AnyMsg), QueueBacked(out),
           NEW more \in Seq(AnyMsg), QueueBacked(more)', NEW vote \in Seq(AnyMsg), QueueBacked(vote)'
    PROVE  /\ QueueBacked(self \o ToSelf(n, vote))'
           /\ QueueBacked(out \o more \o ToOperator(n, vote))'
<1>1. QueueBacked(self)' /\ QueueBacked(out)'
  BY QueueKept, Zenon DEF AnyMsg
<1>2. /\ ToSelf(n, vote) \in Seq(AnyMsg) /\ ToOperator(n, vote) \in Seq(AnyMsg)
      /\ QueueBacked(ToSelf(n, vote))' /\ QueueBacked(ToOperator(n, vote))'
  BY DEF ToSelf, ToOperator, QueueBacked
<1>3. QueueBacked(self \o ToSelf(n, vote))'
  BY <1>1, <1>2, ConcatBacked, Zenon
<1>4. QueueBacked(out \o more)' /\ out \o more \in Seq(AnyMsg)
  BY <1>1, ConcatBacked
<1>5. QueueBacked((out \o more) \o ToOperator(n, vote))'
  BY <1>2, <1>4, ConcatBacked, Zenon
<1> QED
  BY <1>3, <1>5, Zenon

(***************************************************************************)
(* A step of node n leaves the others alone, and sends at most what is     *)
(* backed.  If it keeps proposals and locks, the safety of n is all that   *)
(* is left to be shown.                                                    *)
(***************************************************************************)
Others(n) ==
    \A m \in Honest \ {n} :
        /\ prevotes'[m] = prevotes[m] /\ precommits'[m] = precommits[m]
        /\ selfMsgs'[m] = selfMsgs[m] /\ outbound'[m] = outbound[m]
        /\ safetyQc'[m] = safetyQc[m] /\ committed'[m] = committed[m]

LEMMA OneNodeChanges ==
    ASSUME TypeOK, SafetyInv, Keeps, NEW n \in Honest, Others(n), NodeSafe(n)',
           \A m \in sent' : m \in sent \/ Backed(m)'
    PROVE  SafetyInv'
<1>1. ASSUME NEW m \in Honest PROVE NodeSafe(m)'
  <2>1. CASE m # n
    <3>1. /\ prevotes'[m] = prevotes[m] /\ precommits'[m] = precommits[m]
          /\ selfMsgs'[m] = selfMsgs[m] /\ outbound'[m] = outbound[m]
          /\ safetyQc'[m] = safetyQc[m] /\ committed'[m] = committed[m]
      BY <2>1, Zenon DEF Others
    <3> QED
      BY <3>1, NodeKept, Zenon DEF NodeSafe
  <2> QED
    BY <2>1, Zenon
<1> QED
  BY <1>1, SentKept, Zenon DEF SafetyInv

\* Taking over a proposal and voting for it keeps the invariant.
LEMMA SetProposalSafe ==
    ASSUME TypeOK, SafetyInv, NEW n \in Honest, NEW self \in Seq(SelfMsgs), QueueBacked(self),
           Proposes(n, self)
    PROVE  SafetyInv'
<1>1. PICK h \in Hashes : setProposal(n, h, self)
  BY Zenon DEF Proposes
<1>2. UNCHANGED <<prevotes, precommits, safetyQc, committed, sent>>
  BY <1>1, Zenon DEF setProposal
<1>3. PICK vote : vote = IF step[n] <= ViewStepPropose THEN OwnVote(n, "prevote", h) ELSE <<>>
  BY Zenon
<1>4. PICK passOn : passOn = IF isLeader(n) THEN <<ProposalMsg(h)>> ELSE <<>>
  BY Zenon
<1>5. PICK out : out = outbound[n]
  BY Zenon
<1>6. \/ /\ selfMsgs' = [selfMsgs EXCEPT ![n] = self]
         /\ UNCHANGED <<proposal, outbound>>
      \/ /\ proposal[n] = None
         /\ proposal' = [proposal EXCEPT ![n] = h]
         /\ selfMsgs' = [selfMsgs EXCEPT ![n] = self \o ToSelf(n, vote)]
         /\ outbound' = [outbound EXCEPT ![n] = out \o passOn \o ToOperator(n, vote)]
  BY <1>1, <1>3, <1>4, <1>5, Zenon DEF setProposal
<1>7. Keeps
  <2>1. \A m \in Honest : \A g \in Hashes : proposal[m] = g => proposal'[m] = g
    BY <1>6, VoteSetAssumption, ZenonT(30) DEF TypeOK
  <2>2. \A m \in Honest : \A g \in Hashes : LockedOn(m, g) => LockedOn(m, g)'
    BY <1>2, Zenon DEF LockedOn
  <2> QED
    BY <2>1, <2>2, Zenon DEF Keeps
<1>8. self \in Seq(AnyMsg) /\ out \in Seq(AnyMsg) /\ QueueBacked(out)
  BY <1>5, QueuesOf, Zenon DEF SafetyInv, NodeSafe, OutSafe
<1>9. SelfSafe(n)' /\ OutSafe(n)'
  <2>1. CASE selfMsgs' = [selfMsgs EXCEPT ![n] = self] /\ UNCHANGED <<proposal, outbound>>
    <3>1. selfMsgs'[n] = self /\ outbound'[n] = out
      BY <1>5, <2>1, Zenon DEF TypeOK
    <3>2. QueueBacked(self)' /\ QueueBacked(out)'
      BY <1>7, <1>8, QueueKept, Zenon
    <3> QED
      BY <3>1, <3>2, Zenon DEF SelfSafe, OutSafe, QueueBacked
  <2>2. CASE /\ proposal[n] = None
             /\ proposal' = [proposal EXCEPT ![n] = h]
             /\ selfMsgs' = [selfMsgs EXCEPT ![n] = self \o ToSelf(n, vote)]
             /\ outbound' = [outbound EXCEPT ![n] = out \o passOn \o ToOperator(n, vote)]
    <3>1. QueueBacked(vote)' /\ vote \in Seq(AnyMsg)
      <4>1. QueueBacked(OwnVote(n, "prevote", h))'
        BY <2>2, OwnVoteBacked, Zenon DEF TypeOK
      <4>2. OwnVote(n, "prevote", h) \in Seq(AnyMsg)
        BY OwnVoteType, QueuesOf, Zenon DEF VoteTypes
      <4> QED
        BY <1>3, <4>1, <4>2 DEF QueueBacked
    <3>2. QueueBacked(passOn)' /\ passOn \in Seq(AnyMsg)
      <4>1. ProposalMsg(h) \in AnyMsg
        BY Zenon DEF ProposalMsg, Proposals, Messages, AnyMsg
      <4> QED
        BY <1>4, <4>1, SMTT(30) DEF QueueBacked, Backed, ProposalMsg
    <3>3. selfMsgs'[n] = self \o ToSelf(n, vote)
          /\ outbound'[n] = out \o passOn \o ToOperator(n, vote)
      BY <2>2, Zenon DEF TypeOK
    <3>4. /\ QueueBacked(self \o ToSelf(n, vote))'
          /\ QueueBacked(out \o passOn \o ToOperator(n, vote))'
      BY <1>7, <1>8, <3>1, <3>2, QueuesBacked, Zenon
    <3> QED
      BY <3>3, <3>4, Zenon DEF SelfSafe, OutSafe, QueueBacked
  <2> QED
    BY <1>6, <2>1, <2>2, Zenon
<1>10. Others(n)
  BY <1>2, <1>6, Zenon DEF TypeOK, Others
<1>11. NodeSafe(n)'
  BY <1>2, <1>7, <1>9, NodeKept, Zenon DEF NodeSafe
<1> QED
  BY <1>2, <1>7, <1>10, <1>11, OneNodeChanges, Zenon

\* The vote sets of n stay backed, those of the others do not change, and what n has
\* committed is still the majority of its precommits.
LEMMA CountsKeeps ==
    ASSUME TypeOK, SafetyInv, NEW n \in Honest, NEW type \in VoteTypes, NEW vs \in VoteSets,
           Counts(n, type, vs)
    PROVE  /\ voteSet(n, type)' = vs
           /\ \A m \in Honest \ {n} : prevotes'[m] = prevotes[m] /\ precommits'[m] = precommits[m]
           /\ Keeps => VotesSafe(n)'
           /\ committed'[n] = committed[n] => ChainSafe(n)'
<1>1. /\ voteSet(n, type)' = vs
      /\ \A other \in VoteTypes \ {type} : voteSet(n, other)' = voteSet(n, other)
      /\ \A m \in Honest \ {n} : prevotes'[m] = prevotes[m] /\ precommits'[m] = precommits[m]
  BY Zenon DEF Counts, updateVoteSet, voteSet, TypeOK, VoteTypes
<1>2. ASSUME Keeps, NEW t \in VoteTypes PROVE VoteSetBacked(t, voteSet(n, t))'
  <2>1. PICK ws \in VoteSets : ws = voteSet(n, t)' /\ VoteSetBacked(t, ws)
    BY <1>1, VoteSetOf, Zenon DEF Counts
  <2>2. VoteSetBacked(t, ws)'
    BY <1>2, <2>1, VoteSetKept, Zenon
  <2> QED
    BY <2>1, <2>2, Zenon DEF VoteSetBacked
<1>3. ASSUME committed'[n] = committed[n] PROVE ChainSafe(n)'
  <2>1. ChainSafe(n)
    BY Zenon DEF SafetyInv, NodeSafe
  <2>2. precommits[n].maj23 # None => precommits'[n].maj23 = precommits[n].maj23
    BY <1>1, SMTT(30) DEF Counts, voteSet, VoteTypes
  <2> QED
    BY <1>3, <2>1, <2>2, Zenon DEF ChainSafe
<1> QED
  BY <1>1, <1>2, <1>3, Zenon DEF VotesSafe

\* The certificate of a majority is a message, and is backed.
LEMMA QcRequestBacked ==
    ASSUME NEW n \in Honest, NEW type \in VoteTypes, NEW vs \in VoteSets,
           VoteSetBacked(type, vs), vs.maj23 # None
    PROVE  /\ QcRequest(n, type, vs) \in Seq(AnyMsg)
           /\ Keeps => QueueBacked(QcRequest(n, type, vs))'
<1>1. QcRequest(n, type, vs) \in Seq(AnyMsg)
  BY QcRequestType, SMTT(20) DEF AnyMsg
<1>2. ASSUME Keeps PROVE QueueBacked(QcRequest(n, type, vs))'
  <2>1. VoteSetBacked(type, vs)'
    BY <1>2, VoteSetKept, Zenon
  <2>2. \A i \in vs.maj23Sig : Stands(i, type, vs.maj23)'
    BY <2>1, Zenon DEF VoteSetBacked
  <2>3. PICK msg : msg = [kind |-> "qc", type |-> type, hash |-> vs.maj23, sig |-> vs.maj23Sig]
    BY Zenon
  <2>4. /\ msg.kind = "qc" /\ msg.kind # "vote" /\ msg.type = type
        /\ msg.hash = vs.maj23 /\ msg.sig = vs.maj23Sig
    BY <2>3, Zenon
  <2>5. Backed(msg)'
    BY <2>2, <2>4, Zenon DEF Backed, Stands
  <2>6. QcRequest(n, type, vs) = <<msg>> \/ QcRequest(n, type, vs) = <<>>
    BY <2>3, Zenon DEF QcRequest
  <2>7. \A q : (q = <<msg>> \/ q = <<>>) => QueueBacked(q)'
    BY <2>5 DEF QueueBacked
  <2> QED
    BY <2>6, <2>7, Zenon DEF QueueBacked
<1> QED
  BY <1>1, <1>2, Zenon

\* A step that leaves proposals, votes, locks and chains alone, and the queues of all but n.
Quiet(n) ==
    /\ UNCHANGED <<proposal, prevotes, precommits, safetyQc, committed>>
    /\ \A m \in Honest \ {n} : selfMsgs'[m] = selfMsgs[m] /\ outbound'[m] = outbound[m]

LEMMA QuietStep ==
    ASSUME TypeOK, SafetyInv, NEW n \in Honest, Quiet(n),
           Keeps => SelfSafe(n)' /\ OutSafe(n)' /\ \A m \in sent' : m \in sent \/ Backed(m)'
    PROVE  SafetyInv'
<1>1. UNCHANGED <<proposal, prevotes, precommits, safetyQc, committed>>
  BY Zenon DEF Quiet
<1>2. Keeps
  BY <1>1, Zenon DEF Keeps, LockedOn
<1>3. Others(n)
  BY <1>1, Zenon DEF Others, Quiet
<1>4. NodeSafe(n)'
  BY <1>1, <1>2, NodeKept, Zenon DEF NodeSafe
<1> QED
  BY <1>2, <1>3, <1>4, OneNodeChanges, Zenon

\* The timeout that makes the operator propose keeps the invariant.
LEMMA HandleTimeoutSafe ==
    ASSUME TypeOK, SafetyInv, NEW n \in Honest, HandleTimeout(n)
    PROVE  SafetyInv'
<1>1. Quiet(n) /\ outbound' = outbound /\ sent' = sent
  BY Zenon DEF HandleTimeout, Quiet, TypeOK
<1>2. PICK q \in Seq(AnyMsg) : q = selfMsgs[n] /\ QueueBacked(q)
  BY QueuesOf, Zenon DEF SafetyInv, NodeSafe, SelfSafe
<1>3. PICK m \in AnyMsg : m = ProposalMsg(Tesseract) /\ Backed(m)'
  <2>1. ProposalMsg(Tesseract) \in AnyMsg
    BY KBFTAssumption, Zenon DEF AnyMsg, Messages, ProposalMsg, Proposals
  <2>2. Backed(ProposalMsg(Tesseract))'
    BY Zenon DEF Backed, ProposalMsg
  <2> QED
    BY <2>1, <2>2, Zenon DEF Backed
<1>4. selfMsgs'[n] = q \/ selfMsgs'[n] = Append(q, m)
  BY <1>2, <1>3, Zenon DEF HandleTimeout, TypeOK
<1>5. ASSUME Keeps PROVE SelfSafe(n)'
  <2>1. QueueBacked(q)'
    BY <1>2, <1>5, QueueKept, Zenon
  <2>2. \A k \in DOMAIN Append(q, m) : \/ k \in DOMAIN q /\ Append(q, m)[k] = q[k]
                                       \/ Append(q, m)[k] = m
    OBVIOUS
  <2>3. QueueBacked(Append(q, m))'
    BY <1>3, <2>1, <2>2, Zenon DEF QueueBacked
  <2> QED
    BY <1>4, <2>1, <2>3, Zenon DEF SelfSafe, QueueBacked
<1>6. Keeps => OutSafe(n)'
  BY <1>1, NodeKept, Zenon
<1> QED
  BY <1>1, <1>5, <1>6, QuietStep, Zenon

\* So does sending: a queued message is backed, and so is the certificate made from it.
LEMMA SendSafe ==
    ASSUME TypeOK, SafetyInv, NEW n \in Honest, Send(n)
    PROVE  SafetyInv'
<1>1. Quiet(n) /\ selfMsgs' = selfMsgs
  BY Zenon DEF Send, Quiet, TypeOK
<1>2. PICK q \in Seq(AnyMsg) : q = outbound[n] /\ QueueBacked(q) /\ q # <<>>
  BY QueuesOf, Zenon DEF SafetyInv, NodeSafe, OutSafe, Send
<1>3. PICK m : m = Encode(n, Head(q))
  BY Zenon
<1>4. /\ \A k \in DOMAIN Tail(q) : k + 1 \in DOMAIN q /\ Tail(q)[k] = q[k + 1]
      /\ 1 \in DOMAIN q /\ Head(q) = q[1] /\ Tail(q) \in Seq(AnyMsg)
  BY <1>2
<1>5. sent' = sent \cup {m} /\ outbound'[n] = Tail(q)
  BY <1>2, <1>3, Zenon DEF Send, TypeOK
<1>6. ASSUME Keeps PROVE OutSafe(n)' /\ Backed(m)'
  <2>1. QueueBacked(q)'
    BY <1>2, <1>6, QueueKept, Zenon
  <2>2. QueueBacked(Tail(q))' /\ Backed(Head(q))'
    BY <1>4, <2>1, Zenon DEF QueueBacked
  <2>3. Backed(m)'
    BY <1>3, <2>2, Zenon DEF Backed, Encode
  <2> QED
    BY <1>5, <2>2, <2>3, Zenon DEF OutSafe, QueueBacked
<1>7. Keeps => SelfSafe(n)'
  BY <1>1, NodeKept, Zenon
<1>8. Keeps => \A l \in sent' : l \in sent \/ Backed(l)'
  BY <1>5, <1>6, Zenon
<1> QED
  BY <1>1, <1>6, <1>7, <1>8, QuietStep, Zenon

\* So does an instance that ends or is stopped.
LEMMA LeaveSafe ==
    ASSUME TypeOK, SafetyInv, NEW n \in Honest, Exit(n) \/ Stop(n)
    PROVE  SafetyInv'
<1>1. /\ Quiet(n) /\ sent' = sent
      /\ selfMsgs'[n] = selfMsgs[n] \/ selfMsgs'[n] = <<>>
      /\ outbound'[n] = outbound[n] \/ outbound'[n] = <<>>
  BY Zenon DEF Exit, Stop, Quiet, TypeOK
<1>2. /\ selfMsgs'[n] = <<>> => SelfSafe(n)'
      /\ outbound'[n] = <<>> => OutSafe(n)'
  BY DEF SelfSafe, OutSafe, QueueBacked
<1>3. Keeps => SelfSafe(n)' /\ OutSafe(n)'
  BY <1>1, <1>2, NodeKept, Zenon
<1> QED
  BY <1>1, <1>3, QuietStep, Zenon

\* A step that changes nothing keeps it too.
LEMMA StutterSafe ==
    ASSUME TypeOK, SafetyInv, UNCHANGED vars
    PROVE  SafetyInv'
<1>1. UNCHANGED <<proposal, prevotes, precommits, safetyQc, committed, selfMsgs, outbound, sent>>
  BY Zenon DEF vars
<1>2. Keeps
  BY <1>1, Zenon DEF Keeps, LockedOn
<1>3. \A n \in Honest : NodeSafe(n)'
  BY <1>1, <1>2, NodeKept, Zenon DEF NodeSafe
<1> QED
  BY <1>1, <1>2, <1>3, SentKept, Zenon DEF SafetyInv

\* At the start no vote is counted, queued or sent.
LEMMA InitSafe == Init => SafetyInv
<1> SUFFICES ASSUME Init, NEW n \in Honest PROVE NodeSafe(n)
  BY Zenon DEF Init, SafetyInv
<1>1. voteSet(n, "prevote") = NewVoteSet /\ voteSet(n, "precommit") = NewVoteSet
  BY Zenon DEF Init, voteSet
<1>2. \A type \in VoteTypes : VoteSetBacked(type, NewVoteSet)
  BY Zenon DEF VoteSetBacked, NewVoteSet
<1>3. VotesSafe(n)
  BY <1>1, <1>2, Zenon DEF VotesSafe, VoteTypes
<1> QED
  BY <1>3, SMTT(30) DEF Init, NodeSafe, SelfSafe, OutSafe, LockSafe, ChainSafe, QueueBacked

-----------------------------------------------------------------------------
(* What is stored, and what is stored with it.                             *)

\* The lock of a node has its tesseract beside it and was taken for a proposal, and only a
\* node without a proposal panics.
StoredAt(n) ==
    /\ safetyQc[n] # None /\ safetyQc[n].type = "prevote" => proposalInfo[n] = safetyQc[n].hash
    /\ safetyQc[n] # None => proposal[n] # None
    /\ status[n] = "panicked" => proposal[n] = None

StoredInv == \A n \in Honest : StoredAt(n)

\* What a step may do to what is stored: it is node n's alone, a lock is followed by a lock
\* or a commit, and a proposal is kept.
Stores(n) ==
    /\ \A m \in Honest \ {n} :
          /\ safetyQc'[m] = safetyQc[m] /\ committed'[m] = committed[m]
          /\ proposalInfo'[m] = proposalInfo[m] /\ proposal'[m] = proposal[m]
          /\ status'[m] = status[m]
    /\ safetyQc[n] # None => safetyQc'[n] # None \/ committed'[n] # None
    /\ committed[n] # None => committed'[n] # None
    /\ proposal[n] # None => proposal'[n] = proposal[n]
    /\ StoredAt(n) => StoredAt(n)'

\* The majority of prevotes is stored only for the proposal, with its tesseract.
LEMMA PreCommitStores ==
    ASSUME TypeOK, NEW n \in Honest, NEW vs \in VoteSets, NEW self, vs.maj23 # None,
           enterPreCommit(n, vs, self)
    PROVE  Stores(n)
<1>1. UNCHANGED <<committed, proposal, status>>
  BY Zenon DEF enterPreCommit
<1>2. CASE UNCHANGED <<safetyQc, proposalInfo>>
  BY <1>1, <1>2, Zenon DEF Stores, StoredAt
<1>3. CASE /\ proposal[n] = vs.maj23
           /\ safetyQc' = [safetyQc EXCEPT ![n] = GetQC("prevote", vs)]
           /\ proposalInfo' = [proposalInfo EXCEPT ![n] = proposal[n]]
  <2>1. safetyQc'[n] = GetQC("prevote", vs) /\ proposalInfo'[n] = vs.maj23
    BY <1>3, Zenon DEF TypeOK
  <2>2. GetQC("prevote", vs).hash = vs.maj23 /\ GetQC("prevote", vs) # None
    BY GetQCType, KBFTAssumption, Zenon DEF GetQC, VoteTypes
  <2>3. \A m \in Honest \ {n} : safetyQc'[m] = safetyQc[m] /\ proposalInfo'[m] = proposalInfo[m]
    BY <1>3, Zenon DEF TypeOK
  <2> QED
    BY <1>1, <1>3, <2>1, <2>2, <2>3, Zenon DEF Stores, StoredAt
<1>4. GetQC("prevote", vs).type = "prevote"
  BY Zenon DEF GetQC
<1> QED
  BY <1>2, <1>3, <1>4, Zenon DEF enterPreCommit, UpdateSafetyInfo

\* The majority of precommits replaces the lock or puts the tesseract on the chain.
LEMMA CommitStores ==
    ASSUME TypeOK, NEW n \in Honest, NEW vs \in VoteSets, NEW self, vs.maj23 # None,
           enterCommit(n, vs, self)
    PROVE  Stores(n)
<1>1. proposal' = proposal
  BY Zenon DEF enterCommit
<1>2. CASE proposal[n] = None
  <2>1. UNCHANGED <<safetyQc, proposalInfo, committed>> /\ status' = [status EXCEPT ![n] = "panicked"]
    BY <1>2, Zenon DEF enterCommit
  <2> QED
    BY <1>1, <1>2, <2>1, Zenon DEF Stores, StoredAt, TypeOK
<1>3. CASE proposal[n] # None
  <2>1. \/ status'[n] = status[n]
        \/ status'[n] = "closing"
    BY <1>3, Zenon DEF enterCommit, TypeOK
  <2>2. \A m \in Honest \ {n} : status'[m] = status[m]
    BY <1>3, Zenon DEF enterCommit, TypeOK
  <2>3. CASE UNCHANGED <<safetyQc, proposalInfo, committed>>
    BY <1>1, <1>3, <2>1, <2>2, <2>3, Zenon DEF Stores, StoredAt
  <2>4. CASE /\ committed' = committed
             /\ safetyQc' = [safetyQc EXCEPT ![n] = GetQC("precommit", vs)]
             /\ proposalInfo' = [proposalInfo EXCEPT ![n] = None]
    <3>1. safetyQc'[n] = GetQC("precommit", vs)
      BY <2>4, Zenon DEF TypeOK
    <3>2. GetQC("precommit", vs).type = "precommit" /\ GetQC("precommit", vs) # None
      BY GetQCType, KBFTAssumption, Zenon DEF GetQC, VoteTypes
    <3>3. \A m \in Honest \ {n} : safetyQc'[m] = safetyQc[m] /\ proposalInfo'[m] = proposalInfo[m]
      BY <2>4, Zenon DEF TypeOK
    <3> QED
      BY <1>1, <1>3, <2>1, <2>2, <2>4, <3>1, <3>2, <3>3, Zenon DEF Stores, StoredAt
  <2>5. CASE /\ committed' = [committed EXCEPT ![n] =
                    [type |-> "precommit", hash |-> vs.maj23,
                     bits |-> votesBitArray(vs), sig |-> vs.maj23Sig]]
             /\ safetyQc' = [safetyQc EXCEPT ![n] = None]
             /\ proposalInfo' = [proposalInfo EXCEPT ![n] = None]
    <3>1. /\ safetyQc'[n] = None /\ committed'[n] # None
      BY <2>5, CommitQcType, KBFTAssumption, Zenon DEF TypeOK
    <3>2. \A m \in Honest \ {n} : /\ safetyQc'[m] = safetyQc[m] /\ committed'[m] = committed[m]
                                  /\ proposalInfo'[m] = proposalInfo[m]
      BY <2>5, Zenon DEF TypeOK
    <3> QED
      BY <1>1, <1>3, <2>1, <2>2, <3>1, <3>2, Zenon DEF Stores, StoredAt
  <2>6. GetQC("precommit", vs).type # "prevote"
    BY Zenon DEF GetQC
  <2> QED
    BY <1>3, <2>3, <2>4, <2>5, <2>6, Zenon DEF enterCommit, UpdateSafetyInfo
<1> QED
  BY <1>2, <1>3, Zenon

\* Every step is one node's.
LEMMA NextStores ==
    ASSUME TypeOK, Next
    PROVE  \E n \in Honest : Stores(n)
<1>1. ASSUME NEW n, UNCHANGED <<safetyQc, proposalInfo, committed, proposal, status>> PROVE Stores(n)
  BY <1>1, Zenon DEF Stores, StoredAt
<1>2. ASSUME NEW n \in Honest, Exit(n) \/ Stop(n) PROVE Stores(n)
  <2>1. /\ UNCHANGED <<safetyQc, proposalInfo, committed, proposal>>
        /\ status'[n] # "panicked"
        /\ \A m \in Honest \ {n} : status'[m] = status[m]
    BY <1>2, Zenon DEF Exit, Stop, TypeOK
  <2> QED
    BY <2>1, Zenon DEF Stores, StoredAt
<1>3. ASSUME NEW n \in Honest, NEW self, HandlesMessages(n), Proposes(n, self) PROVE Stores(n)
  <2>1. PICK h \in Hashes : setProposal(n, h, self)
    BY <1>3, Zenon DEF Proposes
  <2>2. /\ UNCHANGED <<safetyQc, proposalInfo, committed, status>> /\ status[n] # "panicked"
        /\ proposal' = proposal \/ (proposal[n] = None /\ proposal' = [proposal EXCEPT ![n] = h])
    BY <1>3, <2>1, Zenon DEF setProposal, HandlesMessages
  <2>3. /\ \A m \in Honest \ {n} : proposal'[m] = proposal[m]
        /\ proposal[n] # None => proposal'[n] = proposal[n]
    BY <2>2, Zenon DEF TypeOK
  <2> QED
    BY <2>2, <2>3, Zenon DEF Stores, StoredAt
<1>4. ASSUME NEW n \in Honest, NEW self, NEW type \in VoteTypes, NEW vs \in VoteSets,
             GoesOn(n, self, type, vs)
      PROVE  Stores(n)
  <2>1. PICK added : afterVote(n, type, vs, added, self)
    BY <1>4, Zenon DEF GoesOn
  <2> QED
    BY <1>1, <2>1, PreCommitStores, CommitStores, Zenon DEF afterVote
<1>5. \A n \in Honest : HandleTimeout(n) \/ Send(n) =>
          UNCHANGED <<safetyQc, proposalInfo, committed, proposal, status>>
  BY Zenon DEF HandleTimeout, Send
<1> QED
  BY <1>1, <1>2, <1>3, <1>4, <1>5, NextTurns, Zenon DEF Turn

(***************************************************************************)
(* A lock is stored together with its tesseract and only for the node's    *)
(* proposal, and a node panics only without one (enterPreCommit,           *)
(* enterCommit and UpdateSafetyInfo).                                      *)
(***************************************************************************)
THEOREM StoredCorrect == Spec => []StoredInv
<1>1. Init => StoredInv
  BY Zenon DEF Init, StoredInv, StoredAt
<1>2. TypeOK /\ StoredInv /\ [Next]_vars => StoredInv'
  <2>1. UNCHANGED vars => (StoredInv => StoredInv')
    BY Zenon DEF vars, StoredInv, StoredAt
  <2>2. ASSUME StoredInv, NEW n \in Honest, Stores(n) PROVE StoredInv'
    <3>1. ASSUME NEW m \in Honest \ {n} PROVE StoredAt(m)'
      BY <2>2, Zenon DEF Stores, StoredInv, StoredAt
    <3> QED
      BY <2>2, <3>1, Zenon DEF Stores, StoredInv
  <2> QED
    BY <2>1, <2>2, NextStores, Zenon
<1> QED
  BY <1>1, <1>2, TypeCorrect, PTL DEF Spec

(***************************************************************************)
(* A node locked by a prevote certificate keeps the tesseract it would     *)
(* have to propose again in its database.                                  *)
(***************************************************************************)
THEOREM LockKeepsTesseractCorrect == Spec => []LockKeepsTesseract
<1>1. StoredInv => LockKeepsTesseract
  BY Zenon DEF StoredInv, StoredAt, LockKeepsTesseract
<1> QED
  BY <1>1, StoredCorrect, PTL

-----------------------------------------------------------------------------
(* Quorums meet.                                                           *)

\* Two quorums of indices that can count meet in a node that is not faulty.
LEMMA QuorumsMeet ==
    ASSUME NEW Q, NEW R, Q \subseteq Indices, R \subseteq Indices,
           HasQuorum(Q), HasQuorum(R),
           \A i \in Q \cup R : KramaID(i) \in Faulty \/ i = IndexOf(KramaID(i))
    PROVE  \E i \in Q \cap R : KramaID(i) \notin Faulty
<1> SUFFICES ASSUME \A i \in Q \cap R : KramaID(i) \in Faulty PROVE FALSE
  BY Zenon
<1>1. PICK p \in Positions :
          Cardinality(Countable(p)) + Cardinality({i \in Countable(p) : KramaID(i) \in Faulty})
              < 2 * Quorum(p)
  BY FaultAssumption, Zenon
<1> DEFINE C == Countable(p)
           F == {i \in C : KramaID(i) \in Faulty}
           A == {i \in Q : p \in SlotsOf(i)}
           B == {i \in R : p \in SlotsOf(i)}
<1>2. A \subseteq C /\ B \subseteq C /\ F \subseteq C /\ A \cap B \subseteq F /\ C \subseteq Indices
  BY Zenon DEF Countable
<1>3. Cardinality(A) >= Quorum(p) /\ Cardinality(B) >= Quorum(p)
  BY Zenon DEF HasQuorum, Weight
<1> HIDE DEF A, B, C, F
<1>4. IsFiniteSet(C)
  BY <1>2, IndicesFinite, FS_Subset, Zenon
<1>5. IsFiniteSet(A) /\ IsFiniteSet(B) /\ IsFiniteSet(F)
  BY <1>2, <1>4, FS_Subset, Zenon
<1>6. Cardinality(A \cup B) = Cardinality(A) + Cardinality(B) - Cardinality(A \cap B)
  BY <1>5, FS_Union, Zenon
<1>7. Cardinality(A \cup B) <= Cardinality(C)
  <2>1. A \cup B \in SUBSET C
    BY <1>2, Zenon
  <2> QED
    BY <1>4, <2>1, FS_Subset, Zenon
<1>8. IsFiniteSet(A \cap B) /\ Cardinality(A \cap B) <= Cardinality(F)
  BY <1>2, <1>5, FS_Subset, Zenon
<1>9. /\ Cardinality(A) \in Nat /\ Cardinality(B) \in Nat /\ Cardinality(C) \in Nat
      /\ Cardinality(F) \in Nat /\ Cardinality(A \cap B) \in Nat /\ Quorum(p) \in Nat
  BY <1>4, <1>5, <1>8, FS_CardinalityType, QuorumType, Zenon
<1>10. Cardinality(C) + Cardinality(F) < 2 * Quorum(p)
  BY <1>1, Zenon DEF C, F
<1> QED
  BY <1>3, <1>6, <1>7, <1>8, <1>9, <1>10

\* Two quorums of indices that stand for tesseracts stand for the same one.
LEMMA QuorumsAgree ==
    ASSUME NEW Q, NEW h, QuorumFor(Q, h), NEW R, NEW g, QuorumFor(R, g)
    PROVE  h = g
<1>1. PICK i \in Q \cap R : KramaID(i) \notin Faulty
  BY QuorumsMeet, Zenon DEF QuorumFor, Stands
<1> QED
  BY <1>1, Zenon DEF QuorumFor, Stands

(***************************************************************************)
(* A step after which the safety data or the chain of node n names the     *)
(* majority of a backed vote set keeps every lock: the certificate that n  *)
(* held before is of a quorum for the same tesseract.                      *)
(***************************************************************************)
LEMMA LockMoves ==
    ASSUME TypeOK, SafetyInv, NEW n \in Honest, NEW type \in VoteTypes, NEW vs \in VoteSets,
           VoteSetBacked(type, vs), vs.maj23 # None, proposal' = proposal,
           \A m \in Honest \ {n} : safetyQc'[m] = safetyQc[m] /\ committed'[m] = committed[m],
           LockedOn(n, vs.maj23)',
           committed'[n] = committed[n] \/ (committed[n] # None => committed[n].hash = vs.maj23)
    PROVE  Keeps
<1>1. QuorumFor(vs.maj23VoteSet, vs.maj23)
  BY MajorityStands, Zenon
<1>2. ASSUME NEW h \in Hashes, LockedOn(n, h) PROVE LockedOn(n, h)'
  <2>1. CASE safetyQc[n] # None /\ safetyQc[n].hash = h
    <3>1. QuorumFor(safetyQc[n].bits, h)
      BY <2>1, Zenon DEF SafetyInv, NodeSafe, LockSafe
    <3>2. h = vs.maj23
      BY <1>1, <3>1, QuorumsAgree, Zenon
    <3> QED
      BY <3>2, Zenon
  <2>2. CASE committed[n] # None /\ committed[n].hash = h
    BY <2>2, Zenon DEF LockedOn
  <2> QED
    BY <1>2, <2>1, <2>2, Zenon DEF LockedOn
<1>3. ASSUME NEW m \in Honest, m # n, NEW h \in Hashes, LockedOn(m, h) PROVE LockedOn(m, h)'
  BY <1>3, Zenon DEF LockedOn
<1> QED
  BY <1>2, <1>3, Zenon DEF Keeps

\* Storing the certificate of the majority of a vote set that was just counted.
LEMMA MajorityStored ==
    ASSUME TypeOK, SafetyInv, NEW n \in Honest, NEW type \in VoteTypes, NEW vs \in VoteSets,
           Counts(n, type, vs), vs.maj23 # None, UNCHANGED <<proposal, committed>>,
           safetyQc' = [safetyQc EXCEPT ![n] = GetQC(type, vs)]
    PROVE  Keeps /\ LockSafe(n)' /\ LockedOn(n, vs.maj23)'
<1>1. vs.maj23 \in Hashes /\ VoteSetBacked(type, vs)
  BY Zenon DEF Counts, VoteSets
<1>2. QuorumFor(vs.maj23VoteSet, vs.maj23)
  BY <1>1, MajorityStands, Zenon
<1>3. /\ safetyQc'[n] # None /\ safetyQc'[n].hash = vs.maj23
      /\ safetyQc'[n].bits = vs.maj23VoteSet
  <2>1. safetyQc'[n] = GetQC(type, vs)
    BY Zenon DEF TypeOK
  <2>2. GetQC(type, vs) # None
    BY GetQCType, KBFTAssumption, Zenon
  <2> QED
    BY <2>1, <2>2 DEF GetQC
<1>4. LockedOn(n, vs.maj23)'
  BY <1>2, <1>3, Zenon DEF LockedOn, QuorumFor
<1>5. \A m \in Honest \ {n} : safetyQc'[m] = safetyQc[m] /\ committed'[m] = committed[m]
  BY Zenon DEF TypeOK
<1>6. Keeps
  BY <1>1, <1>4, <1>5, LockMoves, Zenon
<1>7. QuorumFor(vs.maj23VoteSet, vs.maj23)'
  BY <1>1, <1>2, <1>6, QuorumKept, Zenon
<1> QED
  BY <1>3, <1>4, <1>6, <1>7, Zenon DEF LockSafe, QuorumFor

\* At the majority of prevotes: the lock, the precommit and the certificate.
LEMMA PreCommitSafe ==
    ASSUME TypeOK, SafetyInv, NEW n \in Honest, NEW vs \in VoteSets,
           NEW self \in Seq(SelfMsgs), QueueBacked(self),
           Counts(n, "prevote", vs), vs.maj23 # None, enterPreCommit(n, vs, self)
    PROVE  SafetyInv'
<1> "prevote" \in VoteTypes
  BY Zenon DEF VoteTypes
<1>1. UNCHANGED <<proposal, committed, sent>>
  BY Zenon DEF enterPreCommit
<1>2. PICK out \in Seq(AnyMsg) : out = outbound[n] /\ QueueBacked(out)
  BY QueuesOf, Zenon DEF SafetyInv, NodeSafe, OutSafe
<1>3. PICK vote : vote = IF proposal[n] = vs.maj23 /\ n \notin FailingNodes
                         THEN OwnVote(n, "precommit", vs.maj23) ELSE <<>>
  BY Zenon
<1>4. PICK more \in Seq(AnyMsg) : more = QcRequest(n, "prevote", vs) /\ (Keeps => QueueBacked(more)')
  BY QcRequestBacked, Zenon DEF Counts, QueueBacked
<1>5. /\ selfMsgs' = [selfMsgs EXCEPT ![n] = self \o ToSelf(n, vote)]
      /\ outbound' = [outbound EXCEPT ![n] = out \o more \o ToOperator(n, vote)]
      /\ IF proposal[n] = vs.maj23 /\ n \notin FailingNodes
         THEN safetyQc' = [safetyQc EXCEPT ![n] = GetQC("prevote", vs)]
         ELSE safetyQc' = safetyQc
  BY <1>2, <1>3, <1>4, Zenon DEF enterPreCommit, UpdateSafetyInfo
<1>6. /\ selfMsgs'[n] = self \o ToSelf(n, vote)
      /\ outbound'[n] = out \o more \o ToOperator(n, vote)
      /\ \A m \in Honest \ {n} : /\ selfMsgs'[m] = selfMsgs[m] /\ outbound'[m] = outbound[m]
                                 /\ safetyQc'[m] = safetyQc[m]
  BY <1>5, Zenon DEF TypeOK
<1>7. Keeps /\ LockSafe(n)' /\ QueueBacked(vote)' /\ vote \in Seq(AnyMsg)
  <2>1. CASE proposal[n] = vs.maj23 /\ n \notin FailingNodes
    <3>1. Keeps /\ LockSafe(n)' /\ LockedOn(n, vs.maj23)'
      BY <1>1, <1>5, <2>1, MajorityStored, Zenon
    <3>2. QueueBacked(OwnVote(n, "precommit", vs.maj23))'
      BY <1>1, <2>1, <3>1, OwnVoteBacked, Zenon
    <3>3. OwnVote(n, "precommit", vs.maj23) \in Seq(AnyMsg)
      <4>1. vs.maj23 \in Hashes /\ "precommit" \in VoteTypes
        BY Zenon DEF VoteSets, VoteTypes
      <4> QED
        BY <4>1, OwnVoteType, QueuesOf, Zenon
    <3> QED
      BY <1>3, <2>1, <3>1, <3>2, <3>3, Zenon DEF QueueBacked
  <2>2. CASE ~(proposal[n] = vs.maj23 /\ n \notin FailingNodes)
    <3>1. safetyQc' = safetyQc /\ vote = <<>>
      BY <1>3, <1>5, <2>2, Zenon
    <3>2. Keeps
      BY <1>1, <3>1, Zenon DEF Keeps, LockedOn
    <3> QED
      BY <3>1, <3>2, NodeKept DEF QueueBacked
  <2> QED
    BY <2>1, <2>2, Zenon
<1>8. SelfSafe(n)' /\ OutSafe(n)'
  <2>1. /\ QueueBacked(self \o ToSelf(n, vote))'
        /\ QueueBacked(out \o more \o ToOperator(n, vote))'
    BY <1>2, <1>4, <1>7, QueuesOf, QueuesBacked, Zenon
  <2> QED
    BY <1>6, <2>1, Zenon DEF SelfSafe, OutSafe, QueueBacked
<1>9. Others(n) /\ VotesSafe(n)' /\ ChainSafe(n)'
  BY <1>1, <1>6, <1>7, CountsKeeps, Zenon DEF Others
<1>10. NodeSafe(n)'
  BY <1>7, <1>8, <1>9, Zenon DEF NodeSafe
<1> QED
  BY <1>1, <1>7, <1>9, <1>10, OneNodeChanges, Zenon

\* What becomes of the safety data and the chain at the majority of precommits.
LEMMA CommitKeeps ==
    ASSUME TypeOK, SafetyInv, NEW n \in Honest, NEW vs \in VoteSets, NEW self,
           Counts(n, "precommit", vs), vs.maj23 # None, enterCommit(n, vs, self)
    PROVE  /\ Keeps /\ LockSafe(n)' /\ ChainSafe(n)'
           /\ \A m \in Honest \ {n} : safetyQc'[m] = safetyQc[m] /\ committed'[m] = committed[m]
<1> "precommit" \in VoteTypes /\ VoteSetBacked("precommit", vs)
  BY Zenon DEF VoteTypes, Counts
<1>1. proposal' = proposal
  BY Zenon DEF enterCommit
<1>2. /\ voteSet(n, "precommit")' = vs
      /\ committed'[n] = committed[n] => ChainSafe(n)'
  BY CountsKeeps, Zenon
<1>3. CASE safetyQc' = safetyQc /\ committed' = committed
  <2>1. Keeps
    BY <1>1, <1>3, Zenon DEF Keeps, LockedOn
  <2> QED
    BY <1>2, <1>3, <2>1, NodeKept, Zenon
<1>4. CASE /\ committed' = committed
           /\ safetyQc' = [safetyQc EXCEPT ![n] = GetQC("precommit", vs)]
  <2>1. Keeps /\ LockSafe(n)'
    BY <1>1, <1>4, MajorityStored, Zenon
  <2>2. \A m \in Honest \ {n} : safetyQc'[m] = safetyQc[m]
    BY <1>4, Zenon DEF TypeOK
  <2> QED
    BY <1>2, <1>4, <2>1, <2>2, Zenon
<1>5. CASE /\ committed' = [committed EXCEPT ![n] =
                  [type |-> "precommit", hash |-> vs.maj23,
                   bits |-> votesBitArray(vs), sig |-> vs.maj23Sig]]
           /\ safetyQc' = [safetyQc EXCEPT ![n] = None]
  <2>1. safetyQc'[n] = None /\ committed'[n] # None /\ committed'[n].hash = vs.maj23
    BY <1>5, CommitQcType, KBFTAssumption, Zenon DEF TypeOK
  <2>2. \A m \in Honest \ {n} : safetyQc'[m] = safetyQc[m] /\ committed'[m] = committed[m]
    BY <1>5, Zenon DEF TypeOK
  <2>3. LockedOn(n, vs.maj23)'
    BY <2>1, Zenon DEF LockedOn
  <2>4. committed[n] # None => committed[n].hash = vs.maj23
    BY Zenon DEF SafetyInv, NodeSafe, ChainSafe, Counts, voteSet
  <2>5. Keeps
    BY <1>1, <2>2, <2>3, <2>4, LockMoves, Zenon
  <2>6. LockSafe(n)' /\ ChainSafe(n)'
    BY <1>2, <2>1, Zenon DEF LockSafe, ChainSafe, voteSet
  <2> QED
    BY <2>2, <2>5, <2>6, Zenon
<1> QED
  BY <1>3, <1>4, <1>5, Zenon DEF enterCommit, UpdateSafetyInfo

\* At the majority of precommits: the lock, or the tesseract on the chain, and the
\* certificate.
LEMMA CommitSafe ==
    ASSUME TypeOK, SafetyInv, NEW n \in Honest, NEW vs \in VoteSets,
           NEW self \in Seq(SelfMsgs), QueueBacked(self),
           Counts(n, "precommit", vs), vs.maj23 # None, enterCommit(n, vs, self)
    PROVE  SafetyInv'
<1> "precommit" \in VoteTypes
  BY Zenon DEF VoteTypes
<1>1. /\ Keeps /\ LockSafe(n)' /\ ChainSafe(n)'
      /\ \A m \in Honest \ {n} : safetyQc'[m] = safetyQc[m] /\ committed'[m] = committed[m]
  BY CommitKeeps, Zenon
<1>2. PICK out \in Seq(AnyMsg) : out = outbound[n] /\ QueueBacked(out)'
  BY <1>1, QueuesOf, QueueKept, Zenon DEF SafetyInv, NodeSafe, OutSafe, QueueBacked
<1>3. PICK more \in Seq(AnyMsg) : more = QcRequest(n, "precommit", vs) /\ QueueBacked(more)'
  BY <1>1, QcRequestBacked, Zenon DEF Counts, QueueBacked
<1>4. \/ outbound' = outbound
      \/ outbound' = [outbound EXCEPT ![n] = out \o <<>>]
      \/ outbound' = [outbound EXCEPT ![n] = out \o more]
  BY <1>2, <1>3, Zenon DEF enterCommit
<1>5. selfMsgs' = [selfMsgs EXCEPT ![n] = self] /\ sent' = sent
  BY Zenon DEF enterCommit
<1>6. /\ selfMsgs'[n] = self /\ (outbound'[n] = out \/ outbound'[n] = out \o more)
      /\ \A m \in Honest \ {n} : selfMsgs'[m] = selfMsgs[m] /\ outbound'[m] = outbound[m]
  BY <1>2, <1>4, <1>5, SMTT(30) DEF TypeOK
<1>7. SelfSafe(n)'
  <2>1. QueueBacked(self)'
    BY <1>1, QueuesOf, QueueKept, Zenon
  <2> QED
    BY <1>6, <2>1, Zenon DEF SelfSafe, QueueBacked
<1>8. OutSafe(n)'
  <2>1. QueueBacked(out \o more)'
    BY <1>2, <1>3, ConcatBacked, Zenon
  <2> QED
    BY <1>2, <1>6, <2>1, Zenon DEF OutSafe, QueueBacked
<1>9. Others(n) /\ VotesSafe(n)'
  BY <1>1, <1>6, CountsKeeps, Zenon DEF Others
<1>10. NodeSafe(n)'
  BY <1>1, <1>7, <1>8, <1>9, Zenon DEF NodeSafe
<1> QED
  BY <1>1, <1>5, <1>9, <1>10, OneNodeChanges, Zenon

\* What addVote does once the vote set has changed.
LEMMA AfterVoteSafe ==
    ASSUME TypeOK, SafetyInv, NEW n \in Honest, NEW type \in VoteTypes,
           NEW vs \in VoteSets, NEW self \in Seq(SelfMsgs), QueueBacked(self), GoesOn(n, self, type, vs)
    PROVE  SafetyInv'
<1>1. PICK added : Counts(n, type, vs) /\ afterVote(n, type, vs, added, self)
  BY Zenon DEF GoesOn
<1>2. CASE type = "prevote" /\ vs.maj23 # None /\ enterPreCommit(n, vs, self)
  BY <1>1, <1>2, PreCommitSafe, Zenon
<1>3. CASE type = "precommit" /\ vs.maj23 # None /\ enterCommit(n, vs, self)
  BY <1>1, <1>3, CommitSafe, Zenon
<1>4. CASE /\ selfMsgs' = [selfMsgs EXCEPT ![n] = self]
           /\ UNCHANGED <<proposal, safetyQc, committed, outbound, sent>>
  <2>1. Keeps
    BY <1>4, Zenon DEF Keeps, LockedOn
  <2>2. selfMsgs'[n] = self /\ \A m \in Honest \ {n} : selfMsgs'[m] = selfMsgs[m]
    BY <1>4, Zenon DEF TypeOK
  <2>3. SelfSafe(n)'
    <3>1. QueueBacked(self)'
      BY <2>1, QueuesOf, QueueKept, Zenon
    <3> QED
      BY <2>2, <3>1, Zenon DEF SelfSafe, QueueBacked
  <2>4. Others(n) /\ VotesSafe(n)' /\ ChainSafe(n)'
    BY <1>1, <1>4, <2>1, <2>2, CountsKeeps, Zenon DEF Others
  <2>5. NodeSafe(n)'
    BY <1>4, <2>1, <2>3, <2>4, NodeKept, Zenon DEF NodeSafe
  <2> QED
    BY <1>4, <2>1, <2>4, <2>5, OneNodeChanges, Zenon
<1> QED
  BY <1>1, <1>2, <1>3, <1>4, Zenon DEF afterVote

\* The invariant is inductive: one case for each kind of step.
LEMMA NextSafe == TypeOK /\ SafetyInv /\ [Next]_vars => SafetyInv'
<1> SUFFICES ASSUME TypeOK, SafetyInv, [Next]_vars PROVE SafetyInv'
  BY Zenon
<1>1. ASSUME NEW n \in Honest, NEW self \in Seq(SelfMsgs), Turn(n, self) PROVE SafetyInv'
  BY <1>1, SetProposalSafe, AfterVoteSafe, Zenon DEF Turn
<1> QED
  BY <1>1, NextTurns, StutterSafe, HandleTimeoutSafe, SendSafe, LeaveSafe, Zenon

\* The inductive invariant: everything counted, queued, sent or stored stands for its tesseract.
THEOREM SafetyCorrect == Spec => [](TypeOK /\ SafetyInv)
<1>1. Init => TypeOK /\ SafetyInv
  BY InitType, InitSafe, Zenon
<1>2. TypeOK /\ SafetyInv /\ [Next]_vars => (TypeOK /\ SafetyInv)'
  BY NextType, NextSafe, Zenon
<1> QED
  BY <1>1, <1>2, PTL DEF Spec

\* Two majorities are quorums that stand for their tesseracts, so they agree.
LEMMA SafetyGivesOneMajority == TypeOK /\ SafetyInv => OneMajorityPerView
<1> SUFFICES ASSUME TypeOK, SafetyInv, NEW m \in Honest, NEW n \in Honest, NEW type \in VoteTypes,
                    voteSet(m, type).maj23 # None, voteSet(n, type).maj23 # None
             PROVE  voteSet(m, type).maj23 = voteSet(n, type).maj23
  BY Zenon DEF OneMajorityPerView
<1>1. /\ voteSet(m, type) \in VoteSets /\ voteSet(n, type) \in VoteSets
      /\ VoteSetBacked(type, voteSet(m, type)) /\ VoteSetBacked(type, voteSet(n, type))
  BY VoteSetOf, Zenon
<1>2. /\ QuorumFor(voteSet(m, type).maj23VoteSet, voteSet(m, type).maj23)
      /\ QuorumFor(voteSet(n, type).maj23VoteSet, voteSet(n, type).maj23)
  BY <1>1, MajorityStands, Zenon
<1> QED
  BY <1>2, QuorumsAgree, Zenon

(***************************************************************************)
(* Whatever a faulty operator proposes and certifies, the vote sets of the *)
(* nodes that follow the code never name two majorities in a view.         *)
(***************************************************************************)
THEOREM OneMajorityCorrect == Spec => []OneMajorityPerView
BY SafetyCorrect, SafetyGivesOneMajority, PTL

\* What a node has committed is the majority of its precommits.
LEMMA SafetyGivesAgreement == TypeOK /\ SafetyInv => Agreement
<1> SUFFICES ASSUME TypeOK, SafetyInv, NEW m \in Honest, NEW n \in Honest,
                    committed[m] # None, committed[n] # None
             PROVE  committed[m].hash = committed[n].hash
  BY Zenon DEF Agreement
<1>1. /\ precommits[m].maj23 # None /\ committed[m].hash = precommits[m].maj23
      /\ precommits[n].maj23 # None /\ committed[n].hash = precommits[n].maj23
  BY Zenon DEF SafetyInv, NodeSafe, ChainSafe
<1>2. voteSet(m, "precommit") = precommits[m] /\ voteSet(n, "precommit") = precommits[n]
  BY Zenon DEF voteSet
<1> QED
  BY <1>1, <1>2, SafetyGivesOneMajority, Zenon DEF OneMajorityPerView, VoteTypes

\* finalizeCommit never adds different tesseracts of one view to the chains of two nodes.
THEOREM AgreementCorrect == Spec => []Agreement
BY SafetyCorrect, SafetyGivesAgreement, PTL

\* Whoever is counted in the majority behind a commit stands for it.
LEMMA SafetyGivesCommitMeansLocked == TypeOK /\ SafetyInv => CommitMeansLocked
<1> SUFFICES ASSUME TypeOK, SafetyInv, NEW n \in Honest, committed[n] # None
             PROVE  /\ HasQuorum(precommits[n].maj23VoteSet)
                    /\ \A i \in precommits[n].maj23VoteSet :
                          KramaID(i) \in Honest => LockedOn(KramaID(i), committed[n].hash)
  BY Zenon DEF CommitMeansLocked
<1>1. /\ precommits[n].maj23 # None /\ committed[n].hash = precommits[n].maj23
      /\ VoteSetBacked("precommit", precommits[n])
      /\ precommits[n] \in VoteSets
  BY Zenon DEF SafetyInv, NodeSafe, VotesSafe, ChainSafe, VoteTypes, voteSet, TypeOK
<1>2. precommits[n].maj23 \in Hashes
  BY <1>1, Zenon DEF VoteSets
<1>3. \A i \in precommits[n].maj23VoteSet : Stands(i, "precommit", committed[n].hash)
  BY <1>1, <1>2, Zenon DEF VoteSetBacked
<1> QED
  BY <1>1, <1>3, Zenon DEF Stands, VoteSetBacked, Honest

(***************************************************************************)
(* A committed tesseract has a quorum of precommits from nodes that hold   *)
(* its prevote certificate in their database, or have committed it.        *)
(***************************************************************************)
THEOREM CommitMeansLockedCorrect == Spec => []CommitMeansLocked
BY SafetyCorrect, SafetyGivesCommitMeansLocked, PTL

(***************************************************************************)
(* The panic of enterCommit takes away only a node that has neither signed *)
(* a vote that was sent nor stored a lock: a vote that was sent stands for *)
(* the proposal of its node, and a node that panics has none.              *)
(***************************************************************************)
THEOREM PanicForgetsNoVoteCorrect == Spec => []PanicForgetsNoVote
<1>1. TypeOK /\ SafetyInv /\ StoredInv => PanicForgetsNoVote
  <2> SUFFICES ASSUME TypeOK, SafetyInv, StoredInv, NEW n \in Honest, status[n] = "panicked"
               PROVE  safetyQc[n] = None /\ \A m \in sent : m.kind = "vote" => KramaID(m.index) # n
    BY Zenon DEF PanicForgetsNoVote
  <2>1. proposal[n] = None /\ safetyQc[n] = None
    BY Zenon DEF StoredInv, StoredAt
  <2>2. ASSUME NEW m \in sent, m.kind = "vote", KramaID(m.index) = n PROVE FALSE
    <3>1. proposal[n] = m.hash
      BY <2>2, Zenon DEF SafetyInv, Backed, Stands, Honest
    <3>2. m.hash \in Hashes
      BY <2>2, Zenon DEF TypeOK, Proposals, Votes, QcMsgs
    <3> QED
      BY <2>1, <3>1, <3>2, VoteSetAssumption, Zenon
  <2> QED
    BY <2>1, <2>2, Zenon
<1> QED
  BY <1>1, SafetyCorrect, StoredCorrect, PTL

-----------------------------------------------------------------------------
(* The refinement of module Decision.                                      *)

\* A lock has a quorum of proposals behind it.
LEMMA LockStands ==
    ASSUME TypeOK, SafetyInv, NEW n \in Honest, lockOf(n) # None
    PROVE  lockOf(n) \in Hashes /\ \E Q : QuorumFor(Q, lockOf(n))
<1>1. CASE committed[n] # None
  <2>1. lockOf(n) = precommits[n].maj23 /\ precommits[n].maj23 # None
    BY <1>1, Zenon DEF lockOf, SafetyInv, NodeSafe, ChainSafe
  <2>2. /\ precommits[n] \in VoteSets /\ VoteSetBacked("precommit", precommits[n])
        /\ "precommit" \in VoteTypes
    BY Zenon DEF SafetyInv, NodeSafe, VotesSafe, VoteTypes, voteSet, TypeOK
  <2>3. QuorumFor(precommits[n].maj23VoteSet, precommits[n].maj23)
    BY <2>1, <2>2, MajorityStands, Zenon
  <2>4. precommits[n].maj23 \in Hashes
    BY <2>1, <2>2, Zenon DEF VoteSets
  <2> QED
    BY <2>1, <2>3, <2>4, Zenon
<1>2. CASE committed[n] = None
  <2>1. safetyQc[n] # None /\ lockOf(n) = safetyQc[n].hash
    BY <1>2, Zenon DEF lockOf, hashOf
  <2>2. safetyQc[n] \in Qcs
    BY <2>1, Zenon DEF TypeOK
  <2> QED
    BY <2>1, <2>2, Zenon DEF Qcs, SafetyInv, NodeSafe, LockSafe
<1> QED
  BY <1>1, <1>2, Zenon

\* What the refinement needs of one state: all locks are for one tesseract, a committed node
\* is locked, and so are the nodes of a quorum.
LocksInv ==
    /\ \A n \in Honest : lockOf(n) # None => lockOf(n) \in Hashes /\ \E Q : QuorumFor(Q, lockOf(n))
    /\ \A n \in Honest : committed[n] # None => lockOf(n) = hashOf(committed[n])
    /\ \A n \in Honest : safetyQc[n] # None \/ committed[n] # None => lockOf(n) # None
    /\ \A n \in Honest : committed[n] # None =>
          \E Q \in LockQuorums : \A m \in Q : lockOf(m) = lockOf(n)

LEMMA LocksAgree == TypeOK /\ SafetyInv => LocksInv
<1> SUFFICES ASSUME TypeOK, SafetyInv PROVE LocksInv
  BY Zenon
<1>1. \A n \in Honest : lockOf(n) # None => lockOf(n) \in Hashes /\ \E Q : QuorumFor(Q, lockOf(n))
  BY LockStands, Zenon
<1>2. ASSUME NEW n \in Honest, committed[n] # None
      PROVE  /\ lockOf(n) = hashOf(committed[n]) /\ lockOf(n) # None
             /\ lockOf(n) = committed[n].hash
  <2>1. lockOf(n) = committed[n].hash /\ lockOf(n) = hashOf(committed[n])
    BY <1>2, Zenon DEF lockOf, hashOf
  <2>2. committed[n] \in Qcs
    BY <1>2, Zenon DEF TypeOK
  <2>3. committed[n].hash \in Hashes
    BY <2>2, Zenon DEF Qcs
  <2> QED
    BY <2>1, <2>3, VoteSetAssumption, Zenon
<1>3. ASSUME NEW n \in Honest, safetyQc[n] # None PROVE lockOf(n) # None
  <2>1. CASE committed[n] # None
    BY <1>2, <2>1, Zenon
  <2>2. CASE committed[n] = None
    <3>1. safetyQc[n] \in Qcs
      BY <1>3, Zenon DEF TypeOK
    <3>2. safetyQc[n].hash \in Hashes
      BY <3>1, Zenon DEF Qcs
    <3> QED
      BY <1>3, <2>2, <3>2, VoteSetAssumption, Zenon DEF lockOf, hashOf
  <2> QED
    BY <2>1, <2>2, Zenon
<1>4. ASSUME NEW n \in Honest, committed[n] # None
      PROVE  \E Q \in LockQuorums : \A m \in Q : lockOf(m) = lockOf(n)
  <2> DEFINE voters == precommits[n].maj23VoteSet
             Q == {KramaID(i) : i \in voters} \cap Honest
  <2>1. /\ HasQuorum(voters)
        /\ \A i \in voters : KramaID(i) \in Honest => LockedOn(KramaID(i), committed[n].hash)
    BY <1>4, SafetyGivesCommitMeansLocked, Zenon DEF CommitMeansLocked
  <2>2. voters \in SUBSET Indices
    BY Zenon DEF TypeOK, VoteSets
  <2>3. Q \in LockQuorums
    BY <2>1, <2>2, Zenon DEF LockQuorums
  <2>4. ASSUME NEW m \in Q PROVE lockOf(m) = lockOf(n)
    <3>1. m \in Honest /\ LockedOn(m, committed[n].hash)
      BY <2>1, Zenon
    <3>2. lockOf(m) # None
      BY <1>2, <1>3, <3>1, Zenon DEF LockedOn
    <3> QED
      BY <1>1, <1>2, <1>4, <3>1, <3>2, QuorumsAgree, Zenon
  <2> QED
    BY <2>3, <2>4, Zenon
<1> QED
  BY <1>1, <1>2, <1>3, <1>4, Zenon DEF LocksInv

\* The same of the state after a step.
LEMMA LocksAgreeNext == (TypeOK /\ SafetyInv)' => LocksInv'
BY LocksAgree, PTL

\* Locks before and after a step are for one tesseract.
LEMMA LocksKept ==
    ASSUME LocksInv, LocksInv', NEW k \in Honest, Stores(k), NEW m \in Honest, NEW n \in Honest,
           lockOf(m) # None, lockOf(n)' # None
    PROVE  lockOf(m) = lockOf(n)'
<1>1. PICK Q : QuorumFor(Q, lockOf(m))
  BY Zenon DEF LocksInv
<1>2. PICK R : QuorumFor(R, lockOf(n))'
  BY Zenon DEF LocksInv
<1>3. lockOf(m) \in Hashes /\ lockOf(m) # None
  BY Zenon DEF LocksInv
<1>4. PICK i \in Q \cap R : KramaID(i) \notin Faulty
  BY <1>1, <1>2, QuorumsMeet, Zenon DEF QuorumFor, Stands
<1>5. KramaID(i) \in Honest
  BY <1>1, <1>4, IndexType, Zenon DEF QuorumFor, Honest
<1>6. proposal[KramaID(i)] = lockOf(m) /\ proposal'[KramaID(i)] = lockOf(n)'
  BY <1>1, <1>2, <1>4, Zenon DEF QuorumFor, Stands
<1> QED
  BY <1>3, <1>5, <1>6, Zenon DEF Stores

\* A step of the protocol locks, decides or changes nothing that Decision sees.
LEMMA StepDecides ==
    ASSUME LocksInv, LocksInv', NEW n \in Honest, Stores(n)
    PROVE  [D!Next]_(D!vars)
<1> DEFINE locked == [m \in Honest |-> lockOf(m)]
           decided == [m \in Honest |-> hashOf(committed[m])]
           v == lockOf(n)'
<1>1. \A m \in Honest \ {n} : lockOf(m)' = lockOf(m) /\ hashOf(committed[m])' = hashOf(committed[m])
  BY Zenon DEF Stores, lockOf, hashOf
<1>2. CASE v = None
  <2>1. safetyQc'[n] = None /\ committed'[n] = None
    BY <1>2, Zenon DEF LocksInv
  <2>2. safetyQc[n] = None /\ committed[n] = None
    BY <2>1, Zenon DEF Stores
  <2>3. lockOf(n)' = lockOf(n) /\ hashOf(committed[n])' = hashOf(committed[n])
    BY <2>1, <2>2, Zenon DEF lockOf, hashOf
  <2>4. UNCHANGED <<locked, decided>>
    BY <1>1, <2>3, Zenon
  <2> QED
    BY <2>4, Zenon DEF D!vars
<1>3. CASE v # None
  <2>1. v \in Hashes
    BY <1>3, Zenon DEF LocksInv
  <2>2. \A m \in Honest : lockOf(m) \in {None, v}
    BY <1>3, LocksKept, Zenon
  <2>3. locked' = [locked EXCEPT ![n] = v]
    BY <1>1, Zenon
  <2>4. D!NoOtherLock(v)
    BY <2>2, Zenon DEF D!NoOtherLock
  <2>5. CASE committed[n] = None /\ committed'[n] # None
    <3>1. decided[n] = None /\ hashOf(committed[n])' = v
      BY <2>5, Zenon DEF LocksInv, hashOf
    <3>2. decided' = [decided EXCEPT ![n] = v]
      BY <1>1, <3>1, Zenon
    <3>3. PICK Q \in LockQuorums : \A m \in Q : lockOf(m)' = v
      BY <2>5, Zenon DEF LocksInv
    <3>4. \A m \in Q : locked'[m] = v
      BY <3>3, Zenon DEF LockQuorums
    <3>5. D!Decide(n, v)
      BY <2>3, <2>4, <3>1, <3>2, <3>3, <3>4, Zenon DEF D!Decide
    <3> QED
      BY <2>1, <3>5, Zenon DEF D!Next
  <2>6. CASE ~(committed[n] = None /\ committed'[n] # None)
    <3>1. hashOf(committed[n])' = hashOf(committed[n])
      <4>1. CASE committed[n] = None
        BY <2>6, <4>1, Zenon DEF hashOf
      <4>2. CASE committed[n] # None
        BY <1>3, <4>2, LocksKept, Zenon DEF Stores, LocksInv
      <4> QED
        BY <4>1, <4>2, Zenon
    <3>2. decided' = decided
      BY <1>1, <3>1, Zenon
    <3>3. D!Lock(n, v)
      BY <2>3, <2>4, <3>2, Zenon DEF D!Lock
    <3> QED
      BY <2>1, <3>3, Zenon DEF D!Next
  <2> QED
    BY <2>5, <2>6, Zenon
<1> QED
  BY <1>2, <1>3, Zenon

(***************************************************************************)
(* The protocol of one view implements module Decision, for every          *)
(* committee and all faults within the bound.                              *)
(***************************************************************************)
THEOREM DecisionCorrect == Spec => ImplementsDecision
<1>1. Init => D!Init
  BY Zenon DEF Init, D!Init, lockOf, hashOf
<1>2. TypeOK /\ SafetyInv /\ [Next]_vars => [D!Next]_(D!vars)
  <2> SUFFICES ASSUME TypeOK, SafetyInv, [Next]_vars PROVE [D!Next]_(D!vars)
    BY Zenon
  <2>1. CASE UNCHANGED vars
    BY <2>1, Zenon DEF vars, D!vars, lockOf, hashOf
  <2>2. CASE Next
    <3>1. (TypeOK /\ SafetyInv)'
      BY NextType, NextSafe, Zenon
    <3>2. LocksInv /\ LocksInv'
      BY <3>1, LocksAgree, LocksAgreeNext, Zenon
    <3> QED
      BY <2>2, <3>2, NextStores, StepDecides, Zenon
  <2> QED
    BY <2>1, <2>2, Zenon
<1> QED
  BY <1>1, <1>2, SafetyCorrect, PTL DEF Spec, ImplementsDecision, D!Spec
=============================================================================
