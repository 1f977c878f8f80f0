------------------------------- MODULE Views -------------------------------
(***************************************************************************)
(* Consensus on one account from view to view (handler.go, ics_handler.go, *)
(* krama_engine.go, safety/safety.go, types/consensus.go): the PREPARE     *)
(* phase in which an operator learns the locks of the account's context,   *)
(* the choice of what to propose, and the safety data a node keeps on disk *)
(* between the views.  The BFT rounds inside a cluster are those of module *)
(* KBFT; here they are reduced to the order in which votes, certificates   *)
(* and disk writes appear.                                                 *)
(*                                                                         *)
(* A tesseract is the sequence of the views in which it and its ancestors  *)
(* were created: its length is its height, its prefixes are its ancestors, *)
(* and genesis is <<>>.  An operator creates at most one tesseract a view, *)
(* and the view is part of what a tesseract hash covers (PoXtData.View).   *)
(***************************************************************************)
EXTENDS Integers, Sequences, FiniteSets, Functions

CONSTANTS
    Order,      \* the account's context: a sequence of nodes, a node's place is its position
    MaxView,    \* bound: the last view
    MaxSkew,    \* bound: how many views one node may be ahead of another
    BatchViews, \* the views at whose start the pool may have a batch for the account
    Lifetime,   \* how many view ticks a node sees, at least, before a cluster times out
    Crashes,    \* bound: how many nodes may crash
    None, Down, Fresh

Nodes == Range(Order)

Last(s) == s[Len(s)]
IsPrefix(s, t) == Len(s) <= Len(t) /\ \A i \in 1 .. Len(s) : s[i] = t[i]

\* t is one tesseract longer than s.
Extends(t, s) == Len(t) = Len(s) + 1 /\ IsPrefix(s, t)

\* isOperatorEligible: the operator of a view is found by its position in the context set.
Operator(v) == Order[(v % Len(Order)) + 1]

\* ParticipantQuorum.
Quorum == (Len(Order) * 2) \div 3 + 1

Views == 0 .. MaxView
Tesseracts == {t \in Seq(1 .. MaxView) : \A i \in 1 .. Len(t) - 1 : t[i] < t[i + 1]}
Qcs == [type : {"prevote", "precommit"}, view : Views, ts : Tesseracts]

\* A cluster of the operator, up to its proposal, and one that takes part in the BFT.
Asking == {"prepare", "proposing", "stuck"}
Voting == {"prevoted", "precommitted", "committing", "added"}
Clusters ==
    [view : Views, ixns : Tesseracts \cup {Fresh, None}, local : Seq(Qcs) \cup {None},
     highest : Seq(Qcs) \cup {None}, responded : SUBSET Nodes, ts : Tesseracts \cup {None},
     step : Asking \cup Voting \cup {"inert"}]

Messages ==
    [type : {"prepare"}, view : Views, to : Nodes]
        \cup [type : {"prepared"}, view : Views, from : Nodes, info : Seq(Qcs)]
        \cup [type : {"proposal"}, view : Views, ts : Tesseracts, to : Nodes]

ASSUME ViewsAssumption ==
    /\ Order \in Seq(Nodes) /\ Order # <<>> /\ IsInjective(Order)
    /\ BatchViews \subseteq 1 .. MaxView
    /\ MaxView \in Nat /\ MaxSkew \in Nat /\ Lifetime \in Nat /\ Crashes \in Nat
    /\ None # Down /\ None \notin Clusters /\ Down \notin Clusters
    /\ Fresh \notin Tesseracts

VARIABLES
    view,          \* Engine.view of each node
    committed,     \* the latest tesseract of the account in a node's lattice
    commitView,    \* the view of the certificate in its commit info
    safetyData,    \* ConsensusSafety: the list of certificates kept for the account, or <<>>
    proposalInfo,  \* ConsensusSafety: the stored proposals
    cluster,       \* the node's slot for the account: None, Down after a crash, or its state
    msgs,          \* PREPARE, PREPARED and PROPOSAL messages in flight
    votes,         \* the votes sent: [type, view, node]
    certs,         \* the certificates the operator of a view has sent: [type, view]
    crashed        \* the nodes that have crashed

disk == <<committed, commitView, safetyData, proposalInfo>>
vars == <<view, disk, cluster, msgs, votes, certs, crashed>>

Init ==
    /\ view = [n \in Nodes |-> 0]
    /\ committed = [n \in Nodes |-> <<>>]
    /\ commitView = [n \in Nodes |-> 0]
    /\ safetyData = [n \in Nodes |-> <<>>]
    /\ proposalInfo = [n \in Nodes |-> {}]
    /\ cluster = [n \in Nodes |-> None]
    /\ msgs = {}
    /\ votes = {}
    /\ certs = {}
    /\ crashed = {}

Free(n) == cluster[n] = None
In(n, step) == cluster[n] \notin {None, Down} /\ cluster[n].step = step

-----------------------------------------------------------------------------
(* The safety data.                                                        *)

\* Mutant: the certificate of a later view is put behind the old one.
UpdateQc_append(qcs, qc) == Append(qcs, qc)

\* A certificate of a later view replaces the list, the PRECOMMIT of a view its PREVOTE.
UpdateQc(qcs, qc) ==
    IF qcs # <<>> /\ Last(qcs).view < qc.view
    THEN <<qc>>
    ELSE IF qcs # <<>> /\ Last(qcs).view = qc.view /\ Last(qcs).type = "prevote"
    THEN [qcs EXCEPT ![Len(qcs)] = qc]
    ELSE Append(qcs, qc)

\* Mutant: the proposal is dropped as soon as the node is locked on it.
proposalsAfter_deletes(n, qc) == proposalInfo[n] \ {qc.ts}

\* A PREVOTE certificate stores the proposal, a PRECOMMIT certificate deletes it.
proposalsAfter(n, qc) ==
    IF qc.type = "prevote" THEN proposalInfo[n] \cup {qc.ts} ELSE proposalInfo[n] \ {qc.ts}

UpdateSafetyInfo(n, qc) ==
    /\ safetyData' = [safetyData EXCEPT ![n] = UpdateQc(@, qc)]
    /\ proposalInfo' = [proposalInfo EXCEPT ![n] = proposalsAfter(n, qc)]

\* What loadViewInfo reports: the safety data, or the certificate of the latest tesseract.
ViewInfo(n) ==
    IF safetyData[n] # <<>>
    THEN safetyData[n]
    ELSE <<[type |-> "precommit", view |-> commitView[n], ts |-> committed[n]]>>

LastView(info) == Last(info).view

\* getTS finds a tesseract in the lattice or among the stored proposals, never in the network.
HasTS(n, t) == IsPrefix(t, committed[n]) \/ t \in proposalInfo[n]

-----------------------------------------------------------------------------
(* A new view: handleNewView, handleFailedView, createICS and sendPrepare. *)

\* GetFailedViewTS, less those whose interactions validateInteractions refuses.
FailedViewTS(n) == {t \in proposalInfo[n] : Len(t) > Len(committed[n])}

\* The interactions the operator works on: those of a failed view, or else a batch of the pool.
Ixns(n, v) ==
    IF FailedViewTS(n) # {} THEN FailedViewTS(n) ELSE {x \in {Fresh} : v \in BatchViews}

NewICS(n, v, ixns) ==
    [view |-> v, ixns |-> ixns, local |-> ViewInfo(n), highest |-> ViewInfo(n),
     responded |-> {n}, ts |-> None, step |-> "prepare"]

Tick(n) ==
    LET v == view[n] + 1 IN
    /\ v <= MaxView
    /\ \A m \in Nodes : v <= view[m] + MaxSkew
    /\ view' = [view EXCEPT ![n] = v]
    /\ \/ /\ Operator(v) = n /\ cluster[n] \in {None, Down}
          /\ \E ixns \in Ixns(n, v) : cluster' = [cluster EXCEPT ![n] = NewICS(n, v, ixns)]
          /\ msgs' = msgs \cup {[type |-> "prepare", view |-> v, to |-> m] : m \in Nodes \ {n}}
       \/ \* not the operator, the account is locked, or the pool has no batch
          /\ ~(Operator(v) = n /\ cluster[n] \in {None, Down} /\ FailedViewTS(n) # {})
          /\ cluster' = [cluster EXCEPT ![n] = IF @ = Down THEN None ELSE @]
          /\ UNCHANGED msgs
    /\ UNCHANGED <<disk, votes, certs, crashed>>

\* A PREPARE is answered in its own view; one for the next view waits in futureMsg.
HandlePrepare(n, m) ==
    /\ m.type = "prepare" /\ m.to = n
    /\ cluster[n] # Down
    /\ m.view = view[n]
    /\ msgs' = (msgs \ {m}) \cup
           {[type |-> "prepared", view |-> m.view, from |-> n, info |-> ViewInfo(n)]}
    /\ UNCHANGED <<view, disk, cluster, votes, certs, crashed>>

-----------------------------------------------------------------------------
(* The operator collects PREPARED messages: handlePrepared.                *)

\* updateHighestVI takes over an info of a later view only.
Higher(info, highest) == LastView(info) > LastView(highest)

\* validatePeerHighestQc, which is given the highest info so far and not the peer's.
ValidHighest(n) ==
    \A i \in DOMAIN cluster[n].highest :
        LET qc == cluster[n].highest[i] IN qc.view = 0 \/ HasTS(n, qc.ts)

\* Mutant: every prevote certificate is a lock, the operator's own too.
LockedTS_own(highest, local) == IF highest[1].type = "prevote" THEN {highest[1].ts} ELSE {}

\* The tesseract of the highest certificate, when it is one height above the local one.
LockedTS(highest, local) ==
    IF Len(highest[1].ts) - Len(local[1].ts) = 1 THEN {highest[1].ts} ELSE {}

\* The early returns after the stage is set: a missing tesseract, a height to be synced first.
MustGiveUp(n, highest, local) ==
    LET diff == Len(highest[1].ts) - Len(local[1].ts) IN
    \/ ~HasTS(n, highest[1].ts) \/ ~HasTS(n, local[1].ts)
    \/ diff \notin {0, 1}   \* a negative difference wraps around to a large one
    \/ diff = 1 /\ highest[1].type = "precommit"

\* Mutant: a new tesseract is stamped with the view after the current one.
createProposalTS_nextView(n, lockedTS) ==
    IF lockedTS = {} THEN Append(committed[n], view[n] + 1) ELSE CHOOSE t \in lockedTS : TRUE

\* createProposalTS: the locked tesseract again, or a new one on top of the node's own state.
createProposalTS(n, lockedTS) ==
    IF lockedTS = {} THEN Append(committed[n], view[n]) ELSE CHOOSE t \in lockedTS : TRUE

LockMismatch(n, lockedTS) == \E t \in lockedTS : t # cluster[n].ixns

(***************************************************************************)
(* What becomes of the operator's cluster once the quorum is there.  Only  *)
(* createProposalTesseract makes the vote set, so on the other path the    *)
(* BFT starts with a nil one, and its first view change ends the process.  *)
(***************************************************************************)
AfterQuorum(n, c) ==
    LET lockedTS == LockedTS(c.highest, c.local)
    IN  IF MustGiveUp(n, c.highest, c.local) \/ LockMismatch(n, lockedTS)
        THEN [c EXCEPT !.step = "stuck"]
        ELSE IF lockedTS # {} THEN Down
        ELSE [c EXCEPT !.step = "proposing", !.ts = createProposalTS(n, lockedTS)]

HandlePrepared(n, m) ==
    LET c == cluster[n]
        highest == IF Higher(m.info, c.highest) THEN m.info ELSE c.highest
        d == [c EXCEPT !.highest = highest, !.responded = @ \cup {m.from}]
    IN
    /\ m.type = "prepared" /\ n = Operator(m.view)
    /\ In(n, "prepare") \/ In(n, "proposing")
    /\ c.view = m.view /\ view[n] = m.view
    /\ Higher(m.info, c.highest) => ValidHighest(n)
    /\ cluster' = [cluster EXCEPT ![n] =
           IF c.step = "prepare" /\ Cardinality(d.responded) >= Quorum
           THEN AfterQuorum(n, d) ELSE d]
    /\ msgs' = msgs \ {m}
    /\ UNCHANGED <<view, disk, votes, certs, crashed>>

-----------------------------------------------------------------------------
(* The rounds of module KBFT, as seen from outside a cluster.              *)

\* The operator's BFT proposes to the nodes that have answered, and prevotes.
Propose(n) ==
    LET c == cluster[n] IN
    /\ In(n, "proposing")
    /\ msgs' = msgs \cup {[type |-> "proposal", view |-> c.view, ts |-> c.ts, to |-> m] :
                             m \in c.responded \ {n}}
    /\ votes' = votes \cup {[type |-> "prevote", view |-> c.view, node |-> n]}
    /\ cluster' = [cluster EXCEPT ![n].step = "prevoted"]
    /\ UNCHANGED <<view, disk, certs, crashed>>

\* validateInteractions and ExecuteAndValidate: the tesseract extends the node's own state.
Valid(n, t) == Extends(t, committed[n])

\* createICSForProposal, handleProposal and setProposal.
HandleProposal(n, m) ==
    /\ m.type = "proposal" /\ m.to = n
    /\ cluster[n] # Down
    /\ msgs' = msgs \ {m}
    /\ IF Free(n) /\ Valid(n, m.ts)
       THEN /\ cluster' = [cluster EXCEPT ![n] =
                  [view |-> view[n], ixns |-> None, local |-> None, highest |-> None,
                   responded |-> {}, ts |-> m.ts,
                   step |-> IF m.view = view[n] THEN "prevoted" ELSE "inert"]]
            /\ votes' = votes \cup (IF m.view = view[n]
                  THEN {[type |-> "prevote", view |-> m.view, node |-> n]} ELSE {})
       ELSE UNCHANGED <<cluster, votes>>
    /\ UNCHANGED <<view, disk, certs, crashed>>

\* The operator has a certificate when it has a quorum of votes, a validator when it is sent one.
HasCert(n, type) ==
    LET v == cluster[n].view IN
    IF n = Operator(v)
    THEN Cardinality({w \in votes : w.type = type /\ w.view = v}) >= Quorum
    ELSE [type |-> type, view |-> v] \in certs

Certificate(n, type) == [type |-> type, view |-> cluster[n].view, ts |-> cluster[n].ts]

SendCert(n, type) ==
    certs' = certs \cup (IF n = Operator(cluster[n].view)
                         THEN {[type |-> type, view |-> cluster[n].view]} ELSE {})

\* enterPreCommit: lock, then precommit.
EnterPreCommit(n) ==
    /\ In(n, "prevoted") /\ HasCert(n, "prevote")
    /\ UpdateSafetyInfo(n, Certificate(n, "prevote"))
    /\ SendCert(n, "prevote")
    /\ votes' = votes \cup {[type |-> "precommit", view |-> cluster[n].view, node |-> n]}
    /\ cluster' = [cluster EXCEPT ![n].step = "precommitted"]
    /\ UNCHANGED <<view, committed, commitView, msgs, crashed>>

\* enterCommit: the PRECOMMIT certificate is stored before the tesseract is.
EnterCommit(n) ==
    /\ In(n, "prevoted") \/ In(n, "precommitted")
    /\ HasCert(n, "precommit")
    /\ UpdateSafetyInfo(n, Certificate(n, "precommit"))
    /\ SendCert(n, "precommit")
    /\ cluster' = [cluster EXCEPT ![n].step = "committing"]
    /\ UNCHANGED <<view, committed, commitView, msgs, votes, crashed>>

\* Mutant: the safety data is deleted before the tesseract is added.
Finalize_deleteFirst(n) ==
    \/ /\ In(n, "committing")
       /\ safetyData' = [safetyData EXCEPT ![n] = <<>>]
       /\ cluster' = [cluster EXCEPT ![n].step = "added"]
       /\ UNCHANGED <<view, committed, commitView, proposalInfo, msgs, votes, certs, crashed>>
    \/ /\ In(n, "added")
       /\ committed' = [committed EXCEPT ![n] = cluster[n].ts]
       /\ commitView' = [commitView EXCEPT ![n] = cluster[n].view]
       /\ cluster' = [cluster EXCEPT ![n] = None]
       /\ UNCHANGED <<view, safetyData, proposalInfo, msgs, votes, certs, crashed>>

\* finalizedTesseractHandler: the tesseract is added, then the safety data deleted.
Finalize(n) ==
    \/ /\ In(n, "committing")
       /\ committed' = [committed EXCEPT ![n] = cluster[n].ts]
       /\ commitView' = [commitView EXCEPT ![n] = cluster[n].view]
       /\ cluster' = [cluster EXCEPT ![n].step = "added"]
       /\ UNCHANGED <<view, safetyData, proposalInfo, msgs, votes, certs, crashed>>
    \/ /\ In(n, "added")
       /\ safetyData' = [safetyData EXCEPT ![n] = <<>>]
       /\ cluster' = [cluster EXCEPT ![n] = None]
       /\ UNCHANGED <<view, committed, commitView, proposalInfo, msgs, votes, certs, crashed>>

\* A timeout of icsHandler before the BFT is started, or of the BFT; a stuck one never ends.
Timeout(n) ==
    /\ \E step \in {"prepare", "proposing", "inert", "prevoted", "precommitted"} : In(n, step)
    /\ view[n] >= cluster[n].view + Lifetime
    /\ cluster' = [cluster EXCEPT ![n] = None]
    /\ UNCHANGED <<view, disk, msgs, votes, certs, crashed>>

-----------------------------------------------------------------------------
(* A committed tesseract that arrives from the network is added if         *)
(* ValidateTesseract accepts it: its height is new and its parent known.   *)
(* The syncer locks the account while it does so, and leaves the safety    *)
(* data alone.                                                             *)
Sync(n, m) ==
    LET t == committed[m] IN
    /\ Free(n)
    /\ Extends(t, committed[n])
    /\ committed' = [committed EXCEPT ![n] = t]
    /\ commitView' = [commitView EXCEPT ![n] = commitView[m]]
    /\ UNCHANGED <<view, safetyData, proposalInfo, cluster, msgs, votes, certs, crashed>>

-----------------------------------------------------------------------------
(* A crash loses the cluster and keeps the disk.  The node takes part      *)
(* again from its next view tick on.                                       *)
MayCrash(n) ==
    /\ Cardinality(crashed) < Crashes /\ n \notin crashed
    /\ crashed' = crashed \cup {n}
    /\ cluster' = [cluster EXCEPT ![n] = Down]
    /\ UNCHANGED <<view, committed, commitView, msgs, votes, certs>>

Crash(n) == MayCrash(n) /\ UNCHANGED <<safetyData, proposalInfo>>

\* The crash comes between the two writes of UpdateSafetyInfo.
CrashInUpdate(n) ==
    /\ In(n, "prevoted") /\ HasCert(n, "prevote")
    /\ safetyData' = [safetyData EXCEPT ![n] = UpdateQc(@, Certificate(n, "prevote"))]
    /\ MayCrash(n)
    /\ UNCHANGED proposalInfo

Next ==
    \/ \E n \in Nodes :
          \/ Tick(n) \/ Propose(n) \/ EnterPreCommit(n) \/ EnterCommit(n) \/ Finalize(n)
          \/ Timeout(n) \/ Crash(n) \/ CrashInUpdate(n)
    \/ \E n \in Nodes, m \in msgs :
          HandlePrepare(n, m) \/ HandlePrepared(n, m) \/ HandleProposal(n, m)
    \/ \E n, m \in Nodes : Sync(n, m)

Spec == Init /\ [][Next]_vars

-----------------------------------------------------------------------------
(* Properties.                                                             *)

\* What is on disk, the node's views, its cluster and the messages have the types of the code.
TypeOK ==
    /\ view \in [Nodes -> Views]
    /\ committed \in [Nodes -> Tesseracts]
    /\ commitView \in [Nodes -> Views]
    /\ safetyData \in [Nodes -> Seq(Qcs)]
    /\ proposalInfo \in [Nodes -> SUBSET Tesseracts]
    /\ cluster \in [Nodes -> Clusters \cup {None, Down}]
    /\ msgs \subseteq Messages
    /\ votes \subseteq [type : {"prevote", "precommit"}, view : Views, node : Nodes]
    /\ certs \subseteq [type : {"prevote", "precommit"}, view : Views]
    /\ crashed \subseteq Nodes

(***************************************************************************)
(* The list of certificates never has two entries.  handlePrepared decides *)
(* by the first entry what updateHighestVI compared by the last one, and   *)
(* is right only because of this.                                          *)
(***************************************************************************)
OneQcKept == \A n \in Nodes : Len(safetyData[n]) <= 1

(***************************************************************************)
(* A node that is not in the middle of a commit, and has not crashed, has  *)
(* the tesseract of the certificate it reports, in its lattice or among    *)
(* the stored proposals, so an operator never gives up for want of its own *)
(* tesseract.  A crash between two writes does leave such a certificate.   *)
(***************************************************************************)
OwnLockResolves ==
    \A n \in Nodes \ crashed : ~In(n, "committing") => HasTS(n, Last(ViewInfo(n)).ts)

(***************************************************************************)
(* The view a node reports for the account never goes back, through locks, *)
(* commits, deleted safety data, synced tesseracts and restarts.           *)
(***************************************************************************)
LockMonotone == [][\A n \in Nodes : LastView(ViewInfo(n)) <= LastView(ViewInfo(n)')]_vars

(***************************************************************************)
(* A node goes down only by a crash.  In particular an operator never gets *)
(* as far as proposing a locked tesseract again, which would end its       *)
(* process for want of a vote set: an operator that has the locked         *)
(* tesseract is locked itself, and so its certificate is for the height it *)
(* compares with.                                                          *)
(***************************************************************************)
PanicFree == \A n \in Nodes : cluster[n] = Down => n \in crashed

(***************************************************************************)
(* No two nodes commit tesseracts neither of which descends from the       *)
(* other.  The code does not keep it across views: an operator that is     *)
(* locked itself proposes a new tesseract of the same height.              *)
(***************************************************************************)
AgreementAcrossViews ==
    \A n, m \in Nodes : IsPrefix(committed[n], committed[m]) \/ IsPrefix(committed[m], committed[n])
=============================================================================
