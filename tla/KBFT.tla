-------------------------------- MODULE KBFT --------------------------------
(***************************************************************************)
(* The BFT agreement of one cluster in one view (kbft/kbft.go): every      *)
(* member of the committee runs one KBFT instance, votes go to the         *)
(* operator, and the operator broadcasts its proposal and the two quorum   *)
(* certificates.  Each action is one turn of KBFT.handler, which holds the *)
(* mutex for the whole turn, or one turn of icsHandler's outbound case.    *)
(*                                                                         *)
(* Messages stay in "sent" and are handled any number of times, in any     *)
(* order, or never.  A faulty member may sign anything, so its messages    *)
(* are always there to be handled.  A certificate verifies if and only if  *)
(* the signatures it aggregates are those of the indices it names.         *)
(***************************************************************************)
EXTENDS VoteSet

CONSTANTS
    Operator,      \* the leader of the cluster
    Faulty,        \* members that need not follow the code
    FaultyVotes,   \* for every other member, the single votes that it gets from faulty ones
    FaultyQcBits,  \* the sets of signers that a faulty operator's certificates name
    Tesseract,     \* ClusterState.Tesseract() at an operator that follows the code
    FailingNodes,  \* nodes whose database refuses writes
    ExpiringNodes  \* nodes whose context may expire before they decide

Honest == Nodes \ Faulty

\* ViewStepType (kbft/rounds.go); NewView is left again in the turn that enters it.
ViewStepNewHeight == 1
ViewStepPropose == 3
ViewStepPrevote == 4
ViewStepPrecommit == 5
ViewStepCommit == 6

VARIABLES
    step,          \* ViewState.Step
    proposal,      \* ViewState.Proposal and ProposalTS: the proposed tesseract's hash
    prevotes,      \* Votes.Prevotes(View)
    precommits,    \* Votes.Precommits(View)
    safetyQc,      \* the last certificate in the safety data of the cluster's accounts
    proposalInfo,  \* the stored ProposalInfo, the tesseract to repropose in a later view
    committed,     \* the commit certificate of the tesseract added to the chain
    status,        \* "running", "closing", "closed" (handler left), "stopped" (icsHandler left), "panicked"
    selfMsgs,      \* selfMsgChan
    outbound,      \* outboundMsgChan
    sent           \* what icsHandler has handed to the transport

vars == <<step, proposal, prevotes, precommits, safetyQc, proposalInfo, committed,
          status, selfMsgs, outbound, sent>>

VoteTypes == {"prevote", "precommit"}
Proposals == [kind : {"proposal"}, hash : Hashes]
Votes == [kind : {"vote"}, type : VoteTypes, hash : Hashes, index : Indices]
Qcs == [type : VoteTypes, hash : Hashes, bits : SUBSET Indices, sig : SUBSET Indices]
QcMsgs == [kind : {"qc"}, type : VoteTypes, hash : Hashes, bits : SUBSET Indices, sig : SUBSET Indices]
\* A queued certificate holds a pointer to the vote set's bit array, not the bits.
QcRequests == [kind : {"qc"}, type : VoteTypes, hash : Hashes, sig : SUBSET Indices]

ASSUME KBFTAssumption ==
    /\ Operator \in Nodes
    /\ Faulty \subseteq Nodes
    /\ Tesseract \in Hashes
    /\ None \notin Qcs
    /\ FaultyVotes \in [Honest -> SUBSET {v \in Votes : KramaID(v.index) \in Faulty}]
    /\ FaultyQcBits \subseteq SUBSET Indices

\* The indices that can count for set p: those of faulty nodes, and the first of every other node.
Countable(p) ==
    {i \in Indices : p \in SlotsOf(i) /\ (KramaID(i) \in Faulty \/ i = IndexOf(KramaID(i)))}

(***************************************************************************)
(* The bound on faults: in some set two quorums meet in a node that is not *)
(* faulty.  When no node is in two sets this is the usual bound, less than *)
(* a third of the set.                                                     *)
(***************************************************************************)
ASSUME FaultAssumption ==
    \E p \in Positions :
        Cardinality(Countable(p)) + Cardinality({i \in Countable(p) : KramaID(i) \in Faulty})
            < 2 * Quorum(p)

Init ==
    /\ step = [n \in Honest |-> ViewStepNewHeight]
    /\ proposal = [n \in Honest |-> None]
    /\ prevotes = [n \in Honest |-> NewVoteSet]
    /\ precommits = [n \in Honest |-> NewVoteSet]
    /\ safetyQc = [n \in Honest |-> None]
    /\ proposalInfo = [n \in Honest |-> None]
    /\ committed = [n \in Honest |-> None]
    /\ status = [n \in Honest |-> "running"]
    /\ selfMsgs = [n \in Honest |-> <<>>]
    /\ outbound = [n \in Honest |-> <<>>]
    /\ sent = {}

-----------------------------------------------------------------------------
ProposalMsg(h) == [kind |-> "proposal", hash |-> h]
Vote(n, type, h) == [kind |-> "vote", type |-> type, hash |-> h, index |-> IndexOf(n)]

isLeader(n) == n = Operator
HandlesMessages(n) == status[n] \in {"running", "closing"}

\* sendVote and signVote: a node that was not prepared has no vote.
OwnVote(n, type, h) == IF n \in Responders THEN <<Vote(n, type, h)>> ELSE <<>>

\* sendVote: the operator's vote goes to itself, every other vote to the operator.
ToSelf(n, msgs) == IF isLeader(n) THEN msgs ELSE <<>>
ToOperator(n, msgs) == IF isLeader(n) THEN <<>> ELSE msgs

\* Mutant: the operator sends only the commit certificate.
QcRequest_commitOnly(n, type, vs) ==
    IF isLeader(n) /\ type = "precommit"
    THEN <<[kind |-> "qc", type |-> type, hash |-> vs.maj23, sig |-> vs.maj23Sig]>>
    ELSE <<>>

\* sendQc with VoteSet.GetQC.
QcRequest(n, type, vs) ==
    IF isLeader(n)
    THEN <<[kind |-> "qc", type |-> type, hash |-> vs.maj23, sig |-> vs.maj23Sig]>>
    ELSE <<>>

\* HeightVoteSet.GetQC: the certificate that is stored names the voters of the majority.
GetQC(type, vs) ==
    [type |-> type, hash |-> vs.maj23, bits |-> vs.maj23VoteSet, sig |-> vs.maj23Sig]

\* Mutant: the stored tesseract is deleted with the prevote certificate already.
UpdateSafetyInfo_deletes(n, qc) ==
    IF n \in FailingNodes
    THEN UNCHANGED <<safetyQc, proposalInfo>>
    ELSE /\ safetyQc' = [safetyQc EXCEPT ![n] = qc]
         /\ proposalInfo' = [proposalInfo EXCEPT ![n] = None]

(***************************************************************************)
(* UpdateSafetyInfo, for accounts that this view is the latest of: the     *)
(* certificate replaces the prevote certificate of the same view.  It      *)
(* needs the proposal for the account heights.                             *)
(***************************************************************************)
UpdateSafetyInfo(n, qc) ==
    IF n \in FailingNodes
    THEN UNCHANGED <<safetyQc, proposalInfo>>
    ELSE /\ safetyQc' = [safetyQc EXCEPT ![n] = qc]
         /\ proposalInfo' = [proposalInfo EXCEPT ![n] =
                                IF qc.type = "prevote" THEN proposal[n] ELSE None]

-----------------------------------------------------------------------------
(***************************************************************************)
(* handleTimeout, for the only timeout that is ever scheduled: enterNewView*)
(* and enterPropose.  The operator sends itself its proposal.  A timeout   *)
(* that finds a later step is dropped.                                     *)
(***************************************************************************)
HandleTimeout(n) ==
    /\ HandlesMessages(n)
    /\ step[n] = ViewStepNewHeight
    /\ step' = [step EXCEPT ![n] = ViewStepPropose]
    /\ selfMsgs' = [selfMsgs EXCEPT ![n] =
                       IF isLeader(n) THEN Append(@, ProposalMsg(Tesseract)) ELSE @]
    /\ UNCHANGED <<proposal, prevotes, precommits, safetyQc, proposalInfo, committed,
                   status, outbound, sent>>

(***************************************************************************)
(* setProposal, with enterPrevote: the first proposal is kept, the         *)
(* operator passes it on, and the node prevotes for it if it has not left  *)
(* the propose step.  "self" is what is left in selfMsgChan.               *)
(***************************************************************************)
setProposal(n, h, self) ==
    LET prevotes_now == step[n] <= ViewStepPropose
        vote == IF prevotes_now THEN OwnVote(n, "prevote", h) ELSE <<>>
        passOn == IF isLeader(n) THEN <<ProposalMsg(h)>> ELSE <<>>
    IN  /\ UNCHANGED <<prevotes, precommits, safetyQc, proposalInfo, committed, status, sent>>
        /\ IF proposal[n] # None
           THEN /\ selfMsgs' = [selfMsgs EXCEPT ![n] = self]
                /\ UNCHANGED <<proposal, step, outbound>>
           ELSE /\ proposal' = [proposal EXCEPT ![n] = h]
                /\ step' = [step EXCEPT ![n] = IF prevotes_now THEN ViewStepPrevote ELSE @]
                /\ selfMsgs' = [selfMsgs EXCEPT ![n] = self \o ToSelf(n, vote)]
                /\ outbound' = [outbound EXCEPT ![n] = @ \o passOn \o ToOperator(n, vote)]

\* Mutant: the precommit is sent although the certificate could not be stored.
enterPreCommit_ignoresError(n, vs, self) ==
    LET vote == IF proposal[n] = vs.maj23 THEN OwnVote(n, "precommit", vs.maj23) ELSE <<>>
    IN  /\ step' = [step EXCEPT ![n] = ViewStepPrecommit]
        /\ IF proposal[n] = vs.maj23 THEN UpdateSafetyInfo(n, GetQC("prevote", vs))
           ELSE UNCHANGED <<safetyQc, proposalInfo>>
        /\ selfMsgs' = [selfMsgs EXCEPT ![n] = self \o ToSelf(n, vote)]
        /\ outbound' = [outbound EXCEPT ![n] =
                           @ \o QcRequest(n, "prevote", vs) \o ToOperator(n, vote)]
        /\ UNCHANGED <<proposal, committed, status, sent>>

(***************************************************************************)
(* enterPreCommit, on the prevotes vs: the operator sends the certificate; *)
(* a node that has the tesseract stores the certificate and only then      *)
(* precommits.                                                             *)
(***************************************************************************)
enterPreCommit(n, vs, self) ==
    LET locks == proposal[n] = vs.maj23
        vote == IF locks /\ n \notin FailingNodes THEN OwnVote(n, "precommit", vs.maj23) ELSE <<>>
    IN  /\ step' = [step EXCEPT ![n] = ViewStepPrecommit]
        /\ IF locks THEN UpdateSafetyInfo(n, GetQC("prevote", vs))
           ELSE UNCHANGED <<safetyQc, proposalInfo>>
        /\ selfMsgs' = [selfMsgs EXCEPT ![n] = self \o ToSelf(n, vote)]
        /\ outbound' = [outbound EXCEPT ![n] =
                           @ \o QcRequest(n, "prevote", vs) \o ToOperator(n, vote)]
        /\ UNCHANGED <<proposal, committed, status, sent>>

\* Mutant: the tesseract is looked up by the hash of the certificate.
enterCommit_byHash(n, vs, self) ==
    /\ proposal[n] # vs.maj23
    /\ step' = [step EXCEPT ![n] = ViewStepCommit]
    /\ selfMsgs' = [selfMsgs EXCEPT ![n] = self]
    /\ status' = [status EXCEPT ![n] = "panicked"]
    /\ UNCHANGED <<proposal, safetyQc, proposalInfo, committed, outbound, sent>>

(***************************************************************************)
(* enterCommit and finalizeCommit, on the precommits vs.  Without the      *)
(* proposal UpdateSafetyInfo dereferences nil.  A node that has the        *)
(* tesseract adds it to the chain with all the bits of the vote set        *)
(* (updateConsensusInfoInTesseracts), which deletes the safety data, and   *)
(* closes; it also closes if the tesseract cannot be added.                *)
(***************************************************************************)
enterCommit(n, vs, self) ==
    LET finalizes == proposal[n] = vs.maj23
        fails == n \in FailingNodes
    IN  /\ step' = [step EXCEPT ![n] = ViewStepCommit]
        /\ selfMsgs' = [selfMsgs EXCEPT ![n] = self]
        /\ UNCHANGED <<proposal, sent>>
        /\ IF proposal[n] = None
           THEN /\ status' = [status EXCEPT ![n] = "panicked"]
                /\ UNCHANGED <<safetyQc, proposalInfo, committed, outbound>>
           ELSE /\ outbound' = [outbound EXCEPT ![n] =
                       @ \o (IF fails THEN <<>> ELSE QcRequest(n, "precommit", vs))]
                /\ status' = [status EXCEPT ![n] = IF finalizes THEN "closing" ELSE @]
                /\ IF finalizes /\ ~fails
                   THEN /\ committed' = [committed EXCEPT ![n] =
                               [type |-> "precommit", hash |-> vs.maj23,
                                bits |-> votesBitArray(vs), sig |-> vs.maj23Sig]]
                        /\ safetyQc' = [safetyQc EXCEPT ![n] = None]
                        /\ proposalInfo' = [proposalInfo EXCEPT ![n] = None]
                   ELSE /\ UpdateSafetyInfo(n, GetQC("precommit", vs))
                        /\ UNCHANGED committed

\* Mutant: a vote is acted on without waiting for the majority.
afterVote_anyVote(n, type, vs, added, self) ==
    CASE type = "prevote" /\ added /\ step[n] = ViewStepPrevote -> enterPreCommit(n, vs, self)
      [] type = "precommit" /\ added /\ step[n] < ViewStepCommit -> enterCommit(n, vs, self)
      [] OTHER ->
            /\ selfMsgs' = [selfMsgs EXCEPT ![n] = self]
            /\ UNCHANGED <<step, proposal, safetyQc, proposalInfo, committed, status, outbound, sent>>

(***************************************************************************)
(* The end of addVote, once the vote set has become vs: a majority of      *)
(* prevotes is acted on from the prevote step on, one of precommits in any *)
(* step.  "added" is what the vote set reported.                           *)
(***************************************************************************)
afterVote(n, type, vs, added, self) ==
    CASE type = "prevote" /\ added /\ vs.maj23 # None /\ step[n] = ViewStepPrevote ->
            enterPreCommit(n, vs, self)
      [] type = "precommit" /\ added /\ vs.maj23 # None /\ step[n] < ViewStepCommit ->
            enterCommit(n, vs, self)
      [] OTHER ->
            /\ selfMsgs' = [selfMsgs EXCEPT ![n] = self]
            /\ UNCHANGED <<step, proposal, safetyQc, proposalInfo, committed, status, outbound, sent>>

voteSet(n, type) == IF type = "prevote" THEN prevotes[n] ELSE precommits[n]

updateVoteSet(n, type, vs) ==
    IF type = "prevote"
    THEN prevotes' = [prevotes EXCEPT ![n] = vs] /\ UNCHANGED precommits
    ELSE precommits' = [precommits EXCEPT ![n] = vs] /\ UNCHANGED prevotes

\* addVote for a single vote; a vote of a node that was not prepared changes nothing.
addVote(n, v, self) ==
    LET old == voteSet(n, v.type)
        vs == IF CanVote(v.index) THEN addVerifiedVote(old, v.index, v.hash) ELSE old
    IN  /\ updateVoteSet(n, v.type, vs)
        /\ afterVote(n, v.type, vs, IsNewVote(old, v.index), self)

\* addVote for a certificate; one that is accepted counts as added even if nothing is new.
addQc(n, qc) ==
    LET old == voteSet(n, qc.type)
        accepted == AcceptsQc(old, qc)
        vs == IF accepted THEN AddQc(old, qc) ELSE old
    IN  /\ updateVoteSet(n, qc.type, vs)
        /\ afterVote(n, qc.type, vs, accepted, selfMsgs[n])

-----------------------------------------------------------------------------
\* What a node may find in its inbound channel.
ReceivableProposals(n) ==
    {h \in Hashes :
        IF isLeader(n) THEN h = Tesseract
        ELSE Operator \in Faulty \/ ProposalMsg(h) \in sent}

ReceivableVotes(n) ==
    FaultyVotes[n] \cup (IF isLeader(n) THEN {m \in sent : m.kind = "vote"} ELSE {})

\* A faulty operator can certify what its signers have signed, quorum or not.
ForgeableQcs ==
    {[kind |-> "qc", type |-> type, hash |-> h, bits |-> bits, sig |-> bits] :
        type \in VoteTypes, h \in Hashes, bits \in FaultyQcBits}

Certifiable(qc) ==
    \A i \in qc.bits :
        KramaID(i) \in Faulty
        \/ [kind |-> "vote", type |-> qc.type, hash |-> qc.hash, index |-> i] \in sent

\* addVote takes a certificate from the leader only, which does not send it to itself.
ReceivableQcs(n) ==
    CASE isLeader(n) -> {}
      [] Operator \in Faulty -> {qc \in ForgeableQcs : Certifiable(qc)}
      [] OTHER -> {m \in sent : m.kind = "qc"}

HandleProposal(n) ==
    /\ HandlesMessages(n)
    /\ \E h \in ReceivableProposals(n) : setProposal(n, h, selfMsgs[n])

HandleVote(n) ==
    /\ HandlesMessages(n)
    /\ \E v \in ReceivableVotes(n) : addVote(n, v, selfMsgs[n])

HandleQc(n) ==
    /\ HandlesMessages(n)
    /\ \E qc \in ReceivableQcs(n) : addQc(n, qc)

HandleSelf(n) ==
    /\ HandlesMessages(n)
    /\ selfMsgs[n] # <<>>
    /\ LET m == Head(selfMsgs[n])
           self == Tail(selfMsgs[n])
       IN  IF m.kind = "proposal" THEN setProposal(n, m.hash, self) ELSE addVote(n, m, self)

(***************************************************************************)
(* handleOutboundMessage: the message is encoded only now.  A certificate  *)
(* gets the bits its vote set has at this moment, with the signature it    *)
(* had when it was queued.                                                 *)
(***************************************************************************)
Encode(n, m) ==
    IF m.kind = "qc"
    THEN [kind |-> "qc", type |-> m.type, hash |-> m.hash, sig |-> m.sig,
          bits |-> votesBitArray(voteSet(n, m.type))]
    ELSE m

Send(n) ==
    /\ status[n] \in {"running", "closing", "closed"}
    /\ outbound[n] # <<>>
    /\ sent' = sent \cup {Encode(n, Head(outbound[n]))}
    /\ outbound' = [outbound EXCEPT ![n] = Tail(@)]
    /\ UNCHANGED <<step, proposal, prevotes, precommits, safetyQc, proposalInfo, committed,
                   status, selfMsgs>>

\* KBFT.handler returns: after Close, or when the context expires or the slot is cleaned up.
Exit(n) ==
    /\ status[n] = "closing" \/ (status[n] = "running" /\ n \in ExpiringNodes)
    /\ status' = [status EXCEPT ![n] = "closed"]
    /\ selfMsgs' = [selfMsgs EXCEPT ![n] = <<>>]
    /\ UNCHANGED <<step, proposal, prevotes, precommits, safetyQc, proposalInfo, committed,
                   outbound, sent>>

\* icsHandler receives from BftStopChan and returns, with or without the rest of the queue sent.
Stop(n) ==
    /\ status[n] = "closed"
    /\ status' = [status EXCEPT ![n] = "stopped"]
    /\ outbound' = [outbound EXCEPT ![n] = <<>>]
    /\ UNCHANGED <<step, proposal, prevotes, precommits, safetyQc, proposalInfo, committed,
                   selfMsgs, sent>>

\* A turn of the select in KBFT.handler.
Handler(n) ==
    \/ HandleTimeout(n)
    \/ HandleProposal(n)
    \/ HandleVote(n)
    \/ HandleQc(n)
    \/ HandleSelf(n)

Next == \E n \in Honest : Handler(n) \/ Send(n) \/ Exit(n) \/ Stop(n)

Spec == Init /\ [][Next]_vars

(***************************************************************************)
(* The goroutine of every KBFT instance and that of its icsHandler go on   *)
(* as long as there is something to do, and messages are delivered.        *)
(***************************************************************************)
Fairness == \A n \in Honest : WF_vars(Handler(n)) /\ WF_vars(Send(n))

FairSpec == Spec /\ Fairness

-----------------------------------------------------------------------------
Messages == Proposals \cup Votes \cup QcRequests

\* The state of every instance and the messages in every channel are of the code's types.
TypeOK ==
    /\ step \in [Honest -> {ViewStepNewHeight, ViewStepPropose, ViewStepPrevote,
                            ViewStepPrecommit, ViewStepCommit}]
    /\ proposal \in [Honest -> Hashes \cup {None}]
    /\ prevotes \in [Honest -> VoteSets]
    /\ precommits \in [Honest -> VoteSets]
    /\ safetyQc \in [Honest -> Qcs \cup {None}]
    /\ proposalInfo \in [Honest -> Hashes \cup {None}]
    /\ committed \in [Honest -> Qcs \cup {None}]
    /\ status \in [Honest -> {"running", "closing", "closed", "stopped", "panicked"}]
    /\ selfMsgs \in [Honest -> Seq(Proposals \cup Votes)]
    /\ outbound \in [Honest -> Seq(Messages)]
    /\ sent \subseteq Proposals \cup Votes \cup QcMsgs

\* No two nodes that follow the code add different tesseracts to the chain in one view.
Agreement ==
    \A m, n \in Honest :
        committed[m] # None /\ committed[n] # None => committed[m].hash = committed[n].hash

(***************************************************************************)
(* The votes of one type have at most one majority in a view: whatever a   *)
(* faulty operator proposes and certifies, the vote sets of the nodes that *)
(* follow the code never disagree on maj23TsHash.                          *)
(***************************************************************************)
OneMajorityPerView ==
    \A m, n \in Honest, type \in VoteTypes :
        LET h == voteSet(m, type).maj23
            g == voteSet(n, type).maj23
        IN  h # None /\ g # None => h = g

LockedOn(n, h) ==
    \/ safetyQc[n] # None /\ safetyQc[n].hash = h /\ HasQuorum(safetyQc[n].bits)
    \/ committed[n] # None /\ committed[n].hash = h

(***************************************************************************)
(* When a node commits, a quorum has precommitted, and every one of these  *)
(* that follows the code holds a certificate of a quorum of prevotes for   *)
(* the tesseract in its database, or has committed it too.  This is what a *)
(* later view finds after any crash.                                       *)
(***************************************************************************)
CommitMeansLocked ==
    \A n \in Honest : committed[n] # None =>
        LET voters == precommits[n].maj23VoteSet
        IN  /\ HasQuorum(voters)
            /\ \A i \in voters :
                  KramaID(i) \in Honest => LockedOn(KramaID(i), committed[n].hash)

\* A node locked by a prevote certificate has the tesseract it would have to propose again.
LockKeepsTesseract ==
    \A n \in Honest :
        safetyQc[n] # None /\ safetyQc[n].type = "prevote" => proposalInfo[n] = safetyQc[n].hash

(***************************************************************************)
(* A commit certificate that overtakes the proposal makes UpdateSafetyInfo *)
(* dereference nil and ends the process.  It only ever ends one that has   *)
(* not voted: no vote is signed for, and no lock lost, by a node that this *)
(* takes away.                                                             *)
(***************************************************************************)
PanicForgetsNoVote ==
    \A n \in Honest : status[n] = "panicked" =>
        /\ safetyQc[n] = None
        /\ \A m \in sent : m.kind = "vote" => KramaID(m.index) # n

\* A certificate that the operator sends verifies at its receivers.
SentCertificatesVerify == \A m \in sent : m.kind = "qc" => m.bits = m.sig

\* When nobody is faulty and every member's vote is needed, the operator commits, in
\* whatever order proposals, votes and certificates arrive.
OperatorCommits == <>(committed[Operator] # None)

-----------------------------------------------------------------------------
(* What the view promises, as an abstract specification.                   *)

hashOf(qc) == IF qc = None THEN None ELSE qc.hash

\* The lock of a node: the tesseract on its chain, or else the one in its safety data.
lockOf(n) == IF committed[n] # None THEN committed[n].hash ELSE hashOf(safetyQc[n])

\* What is left of a quorum of votes when the faulty nodes are taken away.
LockQuorums ==
    {Q \in SUBSET Honest :
        \E voters \in SUBSET Indices :
            HasQuorum(voters) /\ Q = {KramaID(i) : i \in voters} \cap Honest}

D == INSTANCE Decision WITH
        Replicas <- Honest, Values <- Hashes, Quorums <- LockQuorums,
        locked <- [n \in Honest |-> lockOf(n)],
        decided <- [n \in Honest |-> hashOf(committed[n])]

(***************************************************************************)
(* The protocol keeps the promise of module Decision: in every step at     *)
(* most one node locks or commits, all locks are for one tesseract and are *)
(* never given up, not even when a node commits what it had not locked,    *)
(* and a commit finds the locks of a quorum.                               *)
(***************************************************************************)
ImplementsDecision == D!Spec
=============================================================================
