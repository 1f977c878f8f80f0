----------------------------- MODULE Views_proof -----------------------------
(***************************************************************************)
(* The safety data of a node from view to view, for every context set,     *)
(* every skew of the views and any number of crashes: the inductive        *)
(* invariant of module Views, what a step of one node has to do to keep    *)
(* it, the steps, and the theorems.  At the heart of the invariant are     *)
(* that every view has one operator, which makes one proposal in it, so    *)
(* that whatever bears the number of a view comes after that proposal; and *)
(* that a quorum which has answered in a view and one which has committed  *)
(* in a later view share a node.  The second half of the module is about   *)
(* agreement across views, which the code loses in two ways and in no      *)
(* other.                                                                  *)
(***************************************************************************)
EXTENDS Views, FiniteSetTheorems, TLAPS

Running(n) == cluster[n] \notin {None, Down}
AtStep(n, steps) == Running(n) /\ cluster[n].step \in steps

\* The operator of view v has come to the view, and is past its proposal or will make none.
Proposed(v) ==
    /\ view[Operator(v)] >= v
    /\ AtStep(Operator(v), Asking) => cluster[Operator(v)].view # v

\* A quorum of nodes has come to view v.
QuorumAt(v) ==
    \E V \in SUBSET Nodes : Cardinality(V) >= Quorum /\ \A r \in V : view[r] >= v

(***************************************************************************)
(* What is on a node's disk.  The view of its commit info is that of its   *)
(* latest tesseract, which was proposed and which a quorum has reached.    *)
(* It keeps one certificate at most.  A stored proposal above its state    *)
(* has the height of the certificate.                                      *)
(***************************************************************************)
ChainOK(n) ==
    /\ Len(committed[n]) = 0 => commitView[n] = 0
    /\ Len(committed[n]) > 0 =>
          /\ commitView[n] = Last(committed[n])
          /\ Proposed(commitView[n]) /\ QuorumAt(commitView[n])

LockOK(n) ==
    /\ Len(safetyData[n]) \in {0, 1}
    /\ Len(safetyData[n]) = 1 =>
          /\ safetyData[n][1].view >= 1 /\ safetyData[n][1].view <= view[n]
          /\ Proposed(safetyData[n][1].view)

StoreOK(n) ==
    /\ \A t \in proposalInfo[n] :
          /\ Len(t) <= Len(committed[n]) + 1
          /\ Len(t) = Len(committed[n]) + 1 =>
                Len(safetyData[n]) = 1 /\ Len(safetyData[n][1].ts) = Len(t)
    /\ n \notin crashed /\ Len(safetyData[n]) = 1 =>
          \/ safetyData[n][1].type = "prevote" /\ safetyData[n][1].ts \in proposalInfo[n]
          \/ AtStep(n, {"committing", "added"})

DiskOK(n) == ChainOK(n) /\ LockOK(n) /\ StoreOK(n)

\* A quorum of nodes is past the view of n's cluster and has not answered in it.
QuorumSilent(n) ==
    \E V \in SUBSET Nodes :
        /\ Cardinality(V) >= Quorum
        /\ \A r \in V : view[r] > cluster[n].view /\ r \notin cluster[n].responded
        /\ \A m \in msgs : m.type = "prepared" /\ m.view = cluster[n].view => m.from \notin V

\* An operator whose state is from a later view will never have a quorum of answers.
AskingOK(n) ==
    /\ n = Operator(cluster[n].view)
    /\ cluster[n].local = ViewInfo(n)
    /\ cluster[n].highest \in Seq(Qcs) /\ Len(cluster[n].highest) = 1
    /\ cluster[n].ixns # Fresh => cluster[n].ixns \in FailedViewTS(n)
    /\ cluster[n].step = "prepare" /\ commitView[n] > cluster[n].view => QuorumSilent(n)

\* The node's one certificate is that of its cluster.
Holds(n, type) == Len(safetyData[n]) = 1 /\ safetyData[n][1] = Certificate(n, type)

(***************************************************************************)
(* A cluster.  A node proposes, votes for and commits a tesseract on top   *)
(* of its own state.  Its certificate is from an earlier view until it     *)
(* locks in this one.                                                      *)
(***************************************************************************)
ClusterOK(n) ==
    /\ cluster[n] = Down => n \in crashed
    /\ Running(n) => cluster[n].view <= view[n] /\ (cluster[n].step # "inert" => cluster[n].view >= 1)
    /\ AtStep(n, Asking) => AskingOK(n)
    /\ AtStep(n, Asking \cup {"prevoted"}) /\ Len(safetyData[n]) = 1 =>
          safetyData[n][1].view < cluster[n].view
    /\ AtStep(n, {"proposing", "prevoted", "precommitted", "committing"}) =>
          cluster[n].ts = Append(committed[n], cluster[n].view) /\ commitView[n] < cluster[n].view
    /\ AtStep(n, {"precommitted"}) => Holds(n, "prevote")
    /\ AtStep(n, {"committing", "added"}) => Holds(n, "precommit")
    /\ AtStep(n, {"committing"}) => QuorumAt(cluster[n].view)
    /\ AtStep(n, {"added"}) => cluster[n].ts = committed[n] /\ cluster[n].view = commitView[n]
    /\ AtStep(n, Voting) => Proposed(cluster[n].view)

\* A proposal is the only one of its view to its node, which has not used the view yet.
ProposalOK(m) ==
    /\ m.view >= 1 /\ Proposed(m.view)
    /\ Len(m.ts) > 0 /\ Last(m.ts) = m.view
    /\ Len(safetyData[m.to]) = 1 => safetyData[m.to][1].view # m.view
    /\ AtStep(m.to, Voting) => cluster[m.to].view # m.view
    /\ \A l \in msgs : l.type = "proposal" /\ l.to = m.to /\ l.view = m.view => l = m

MsgOK(m) ==
    /\ m.type \in {"prepare", "prepared"} => view[Operator(m.view)] >= m.view
    /\ m.type = "prepared" => Len(m.info) = 1
    /\ m.type = "proposal" => ProposalOK(m)

VotesOK ==
    /\ \A w \in votes : view[w.node] >= w.view
    /\ \A c \in certs : c.type = "precommit" => QuorumAt(c.view)

ViewsInv ==
    /\ TypeOK
    /\ \A n \in Nodes : DiskOK(n) /\ ClusterOK(n)
    /\ \A m \in msgs : MsgOK(m)
    /\ VotesOK

-----------------------------------------------------------------------------
(* The operators of the model.                                             *)

\* The views are numbers, and the operator of every view is a node of the context.
LEMMA OperatorType ==
    /\ Views \subseteq Nat
    /\ \A v \in Nat : Operator(v) \in Nodes
<1>1. Len(Order) \in Nat /\ Len(Order) > 0 /\ DOMAIN Order = 1 .. Len(Order)
  BY ViewsAssumption
<1>2. Views \subseteq Nat
  BY ViewsAssumption DEF Views
<1>3. ASSUME NEW v \in Nat PROVE Operator(v) \in Nodes
  <2>1. (v % Len(Order)) + 1 \in 1 .. Len(Order)
    BY <1>1
  <2> QED
    BY <1>1, <2>1, Zenon DEF Operator, Nodes, Range
<1> QED
  BY <1>2, <1>3, Zenon

\* What a message carries, by its type.
LEMMA MessageType ==
    ASSUME NEW m \in Messages
    PROVE  /\ m.view \in Views /\ m.view \in Nat
           /\ m.type \in {"prepare", "prepared", "proposal"}
           /\ m.type = "prepare" => m.to \in Nodes
           /\ m.type = "prepared" => m.from \in Nodes /\ m.info \in Seq(Qcs)
           /\ m.type = "proposal" => m.to \in Nodes /\ m.ts \in Tesseracts
BY OperatorType, Zenon DEF Messages

\* An element of a sequence has the type of the elements.
LEMMA ElementType ==
    ASSUME NEW S, NEW t \in Seq(S), NEW k \in 1 .. Len(t)
    PROVE  t[k] \in S
OBVIOUS

LEMMA OnlyElement ==
    ASSUME NEW S, NEW t \in Seq(S), Len(t) = 1
    PROVE  t[1] \in S
OBVIOUS

\* A certificate's view is a number.
LEMMA QcView ==
    ASSUME NEW q \in Qcs
    PROVE  q.view \in Views /\ q.view \in Nat /\ q.ts \in Tesseracts
BY OperatorType, Zenon DEF Qcs

\* The types of what a node keeps.
LEMMA NodeType ==
    ASSUME TypeOK, NEW n \in Nodes
    PROVE  /\ view[n] \in Views /\ view[n] \in Nat
           /\ commitView[n] \in Views /\ commitView[n] \in Nat
           /\ committed[n] \in Tesseracts /\ Len(committed[n]) \in Nat
<1>1. view[n] \in Views /\ commitView[n] \in Views /\ committed[n] \in Tesseracts
  BY Zenon DEF TypeOK
<1>2. Len(committed[n]) \in Nat
  BY <1>1 DEF Tesseracts
<1> QED
  BY <1>1, <1>2, OperatorType, Zenon

\* The view of a certificate that a node keeps is a number.
LEMMA LockType ==
    ASSUME TypeOK, NEW n \in Nodes, Len(safetyData[n]) = 1
    PROVE  safetyData[n][1] \in Qcs /\ safetyData[n][1].view \in Nat
<1>1. safetyData[n] \in Seq(Qcs)
  BY Zenon DEF TypeOK
<1>2. safetyData[n][1] \in Qcs
  BY <1>1, OnlyElement, Zenon
<1> QED
  BY <1>2, QcView, Zenon

\* A new tesseract on top of an older one.
LEMMA AppendTesseract ==
    ASSUME NEW t \in Tesseracts, NEW v \in 1 .. MaxView, Len(t) > 0 => Last(t) < v
    PROVE  /\ Append(t, v) \in Tesseracts
           /\ Len(Append(t, v)) = Len(t) + 1
           /\ Last(Append(t, v)) = v
<1> DEFINE a == Append(t, v)
<1>1. t \in Seq(1 .. MaxView) /\ Len(t) \in Nat /\ \A i \in 1 .. Len(t) - 1 : t[i] < t[i + 1]
  BY DEF Tesseracts
<1>2. /\ a \in Seq(1 .. MaxView) /\ Len(a) = Len(t) + 1
      /\ a[Len(t) + 1] = v /\ \A i \in 1 .. Len(t) : a[i] = t[i]
  BY <1>1
<1>3. Len(t) > 0 => t[Len(t)] < v
  BY Zenon DEF Last
<1> HIDE DEF a
<1>4. ASSUME NEW i \in 1 .. Len(a) - 1 PROVE a[i] < a[i + 1]
  BY <1>1, <1>2, <1>3
<1>5. a \in Tesseracts
  BY <1>2, <1>4, Zenon DEF Tesseracts
<1>6. Last(a) = v
  BY <1>1, <1>2, Zenon DEF Last
<1> QED
  BY <1>2, <1>5, <1>6, Zenon DEF a

\* The views of a tesseract grow: one that extends another is from a later view.
LEMMA ExtendsGrows ==
    ASSUME NEW t \in Tesseracts, NEW s \in Tesseracts, Extends(t, s)
    PROVE  /\ t = Append(s, Last(t))
           /\ Len(t) = Len(s) + 1
           /\ Last(t) \in 1 .. MaxView
           /\ Len(s) > 0 => Last(s) < Last(t)
<1>1. t \in Seq(1 .. MaxView) /\ s \in Seq(1 .. MaxView) /\ Len(s) \in Nat
  BY DEF Tesseracts
<1>2. Len(t) = Len(s) + 1 /\ \A i \in 1 .. Len(s) : s[i] = t[i]
  BY Zenon DEF Extends, IsPrefix
<1>3. t[Len(t)] \in 1 .. MaxView
  <2>1. Len(t) \in 1 .. Len(t)
    BY <1>1, <1>2
  <2> QED
    BY <1>1, <2>1, ElementType, Zenon
<1>4. Len(s) > 0 => s[Len(s)] < t[Len(t)]
  <2>1. \A i \in 1 .. Len(t) - 1 : t[i] < t[i + 1]
    BY Zenon DEF Tesseracts
  <2> QED
    BY <1>1, <1>2, <2>1
<1>5. t = Append(s, t[Len(t)])
  <2> DEFINE a == Append(s, t[Len(t)])
  <2>1. a \in Seq(1 .. MaxView) /\ Len(a) = Len(t)
    BY <1>1, <1>2, <1>3
  <2>2. \A i \in 1 .. Len(t) : a[i] = t[i]
    BY <1>1, <1>2, <1>3
  <2> HIDE DEF a
  <2>3. a = t
    BY <1>1, <2>1, <2>2
  <2> QED
    BY <2>3, Zenon DEF a
<1> QED
  BY <1>2, <1>3, <1>4, <1>5, Zenon DEF Last

\* UpdateQc keeps one certificate, the new one, when the old one is of an earlier
\* view or is the PREVOTE of the same view.
Supersedes(qc, qcs) ==
    Len(qcs) = 1 => \/ qcs[1].view < qc.view
                    \/ qcs[1].view = qc.view /\ qcs[1].type = "prevote"

LEMMA UpdateQcOne ==
    ASSUME NEW qcs \in Seq(Qcs), NEW qc \in Qcs, Len(qcs) \in {0, 1}, Supersedes(qc, qcs)
    PROVE  /\ UpdateQc(qcs, qc) \in Seq(Qcs)
           /\ Len(UpdateQc(qcs, qc)) = 1
           /\ UpdateQc(qcs, qc)[1] = qc
<1>1. Len(qcs) \in Nat /\ (qcs = <<>> <=> Len(qcs) = 0)
  OBVIOUS
<1>2. CASE Len(qcs) = 0
  <2>1. UpdateQc(qcs, qc) = Append(qcs, qc)
    BY <1>1, <1>2, Zenon DEF UpdateQc
  <2> QED
    BY <1>2, <2>1
<1>3. CASE Len(qcs) = 1
  <2>0. qcs[1] \in Qcs
    BY <1>3, OnlyElement, Zenon
  <2>1. PICK q \in Qcs : q = qcs[1]
    BY <2>0, Zenon
  <2>2. q.view \in Nat /\ qc.view \in Nat
    BY QcView, Zenon
  <2>3. Last(qcs) = q /\ qcs # <<>>
    BY <1>1, <1>3, <2>1 DEF Last
  <2>4. q.view < qc.view \/ (q.view = qc.view /\ q.type = "prevote")
    BY <1>3, <2>1, Zenon DEF Supersedes
  <2>5. CASE q.view < qc.view
    <3>1. UpdateQc(qcs, qc) = <<qc>>
      BY <2>3, <2>5, Zenon DEF UpdateQc
    <3> QED
      BY <3>1
  <2>6. CASE ~ (q.view < qc.view)
    <3>1. q.view = qc.view /\ q.type = "prevote"
      BY <2>4, <2>6, Zenon
    <3>2. UpdateQc(qcs, qc) = [qcs EXCEPT ![Len(qcs)] = qc]
      BY <2>3, <2>6, <3>1, Zenon DEF UpdateQc
    <3> QED
      BY <1>3, <3>2
  <2> QED
    BY <2>5, <2>6, Zenon
<1> QED
  BY <1>1, <1>2, <1>3, Zenon

\* What a node reports is one certificate.
LEMMA ViewInfoOne ==
    ASSUME TypeOK, NEW n \in Nodes, Len(safetyData[n]) \in {0, 1}
    PROVE  /\ ViewInfo(n) \in Seq(Qcs) /\ Len(ViewInfo(n)) = 1
           /\ Last(ViewInfo(n)) = ViewInfo(n)[1]
           /\ Len(safetyData[n]) = 1 => ViewInfo(n) = safetyData[n]
           /\ Len(safetyData[n]) = 0 =>
                 /\ ViewInfo(n)[1].view = commitView[n]
                 /\ ViewInfo(n)[1].ts = committed[n]
<1> DEFINE qc == [type |-> "precommit", view |-> commitView[n], ts |-> committed[n]]
<1>1. /\ safetyData[n] \in Seq(Qcs) /\ Len(safetyData[n]) \in Nat
      /\ safetyData[n] = <<>> <=> Len(safetyData[n]) = 0
  BY DEF TypeOK
<1>2. qc \in Qcs
  BY Zenon DEF TypeOK, Qcs
<1>3. qc.view = commitView[n] /\ qc.ts = committed[n]
  BY Zenon
<1>4. ViewInfo(n) = IF safetyData[n] # <<>> THEN safetyData[n] ELSE <<qc>>
  BY Zenon DEF ViewInfo
<1> HIDE DEF qc
<1>5. <<qc>> \in Seq(Qcs) /\ Len(<<qc>>) = 1 /\ <<qc>>[1] = qc
  BY <1>2
<1> QED
  BY <1>1, <1>3, <1>4, <1>5 DEF Last

\* The types of the cluster of a node.
LEMMA ClusterType ==
    ASSUME TypeOK, NEW n \in Nodes, Running(n)
    PROVE  /\ cluster[n] \in Clusters /\ cluster[n].view \in Views /\ cluster[n].view \in Nat
           /\ cluster[n].ts \in Tesseracts \cup {None} /\ cluster[n].responded \in SUBSET Nodes
           /\ cluster[n].step \in Asking \cup Voting \cup {"inert"}
BY OperatorType, Zenon DEF TypeOK, Running, Clusters

LEMMA SetStep ==
    ASSUME NEW c \in Clusters, NEW s \in Asking \cup Voting \cup {"inert"}
    PROVE  /\ [c EXCEPT !.step = s] \in Clusters
           /\ [c EXCEPT !.step = s].step = s
           /\ [c EXCEPT !.step = s].view = c.view
           /\ [c EXCEPT !.step = s].ts = c.ts
BY Zenon DEF Clusters

-----------------------------------------------------------------------------
(* What a step of one node has to do to keep the invariant.                *)

\* A node's cluster asks for the state of the others in a step only if it did so before, in
\* the same view, or if it has just been made in a later view.
AsksLater(n) ==
    AtStep(n, Asking)' =>
        \/ AtStep(n, Asking) /\ cluster'[n].view = cluster[n].view
        \/ cluster'[n].view > view[n]

KeepsDisk(r) ==
    /\ committed'[r] = committed[r] /\ commitView'[r] = commitView[r]
    /\ safetyData'[r] = safetyData[r] /\ proposalInfo'[r] = proposalInfo[r]

Same(r) == KeepsDisk(r) /\ view'[r] = view[r] /\ cluster'[r] = cluster[r]

\* Nobody answers in a view that it is not in.
AnswersInView == \A m \in msgs' : m.type = "prepared" => m \in msgs \/ m.view = view[m.from]

StepOf(n) ==
    /\ \A r \in Nodes \ {n} : Same(r)
    /\ view'[n] \in {view[n], view[n] + 1}
    /\ AsksLater(n)
    /\ AnswersInView
    /\ crashed \subseteq crashed'

\* No node goes back to an earlier view.
LEMMA ViewsGrow ==
    ASSUME TypeOK, TypeOK', NEW n \in Nodes, StepOf(n), NEW r \in Nodes
    PROVE  view[r] \in Nat /\ view'[r] \in Nat /\ view'[r] >= view[r]
<1>1. view[r] \in Nat /\ view'[r] \in Nat
  BY OperatorType, Zenon DEF TypeOK
<1> QED
  BY <1>1 DEF StepOf, Same

\* What is proposed stays proposed.
LEMMA ProposedKept ==
    ASSUME TypeOK, TypeOK', NEW n \in Nodes, StepOf(n), NEW v \in Views, Proposed(v)
    PROVE  Proposed(v)'
<1> DEFINE o == Operator(v)
<1>1. v \in Nat /\ o \in Nodes
  BY OperatorType, Zenon
<1>2. view[o] >= v /\ (AtStep(o, Asking) => cluster[o].view # v)
  BY Zenon DEF Proposed
<1> HIDE DEF o
<1>3. view[o] \in Nat /\ view'[o] \in Nat /\ view'[o] >= view[o]
  BY <1>1, ViewsGrow, Zenon
<1>4. view'[o] >= v
  BY <1>1, <1>2, <1>3
<1>5. AtStep(o, Asking)' => cluster'[o].view # v
  <2>1. CASE o # n
    BY <1>1, <1>2, <2>1, Zenon DEF StepOf, Same, AtStep, Running
  <2>2. CASE o = n
    BY <1>1, <1>2, <1>3, <2>2 DEF StepOf, AsksLater
  <2> QED
    BY <2>1, <2>2, Zenon
<1> QED
  BY <1>4, <1>5, Zenon DEF Proposed, o

\* A quorum that has come to a view does not go back.
LEMMA QuorumKept ==
    ASSUME TypeOK, TypeOK', NEW n \in Nodes, StepOf(n), NEW v \in Views, QuorumAt(v)
    PROVE  QuorumAt(v)'
<1>1. PICK V \in SUBSET Nodes : Cardinality(V) >= Quorum /\ \A r \in V : view[r] >= v
  BY Zenon DEF QuorumAt
<1>2. \A r \in V : view'[r] >= v
  BY <1>1, OperatorType, ViewsGrow
<1> QED
  BY <1>1, <1>2, Zenon DEF QuorumAt

LEMMA SilentKept ==
    ASSUME TypeOK, TypeOK', NEW n \in Nodes, StepOf(n), NEW r \in Nodes, Running(r),
           cluster'[r] = cluster[r], QuorumSilent(r)
    PROVE  QuorumSilent(r)'
<1>1. PICK V \in SUBSET Nodes :
        /\ Cardinality(V) >= Quorum
        /\ \A s \in V : view[s] > cluster[r].view /\ s \notin cluster[r].responded
        /\ \A m \in msgs : m.type = "prepared" /\ m.view = cluster[r].view => m.from \notin V
  BY Zenon DEF QuorumSilent
<1>2. PICK v \in Nat : v = cluster[r].view
  BY ClusterType, Zenon
<1>3. \A s \in V : view[s] \in Nat /\ view[s] > v /\ view'[s] > v
  BY <1>1, <1>2, ViewsGrow
<1>4. ASSUME NEW m \in msgs', m.type = "prepared", m.view = v PROVE m.from \notin V
  <2>1. CASE m \in msgs
    BY <1>1, <1>2, <1>4, <2>1, Zenon
  <2>2. CASE m.view = view[m.from]
    BY <1>2, <1>3, <1>4, <2>2
  <2> QED
    BY <1>4, <2>1, <2>2, Zenon DEF StepOf, AnswersInView
<1> QED
  BY <1>1, <1>2, <1>3, <1>4, Zenon DEF QuorumSilent

\* A node that writes nothing keeps what is known of its disk.
LEMMA DiskKept ==
    ASSUME TypeOK, TypeOK', NEW n \in Nodes, StepOf(n), NEW r \in Nodes, KeepsDisk(r), DiskOK(r),
           AtStep(r, {"committing", "added"}) => AtStep(r, {"committing", "added"})' \/ r \in crashed'
    PROVE  DiskOK(r)'
<1> USE DEF KeepsDisk
<1>1. ChainOK(r)'
  <2>1. PICK v \in Views : v = commitView[r]
    BY Zenon DEF TypeOK
  <2>2. Len(committed[r]) > 0 => Proposed(v)' /\ QuorumAt(v)'
    BY <2>1, ProposedKept, QuorumKept, Zenon DEF DiskOK, ChainOK
  <2> QED
    BY <2>1, <2>2, Zenon DEF DiskOK, ChainOK
<1>2. LockOK(r)'
  <2>1. CASE Len(safetyData[r]) = 1
    <3>1. PICK q \in Qcs : q = safetyData[r][1]
      BY <2>1, LockType, Zenon
    <3>2. q.view \in Nat /\ q.view \in Views /\ q.view >= 1 /\ q.view <= view[r] /\ Proposed(q.view)
      BY <2>1, <3>1, QcView, Zenon DEF DiskOK, LockOK
    <3>3. q.view <= view'[r] /\ Proposed(q.view)'
      BY <3>2, ProposedKept, ViewsGrow
    <3> QED
      BY <2>1, <3>1, <3>2, <3>3, Zenon DEF LockOK
  <2> QED
    BY <2>1, Zenon DEF DiskOK, LockOK
<1>3. StoreOK(r)'
  BY Zenon DEF DiskOK, StoreOK, StepOf
<1> QED
  BY <1>1, <1>2, <1>3, Zenon DEF DiskOK

\* A node that is the same as before keeps what is known of its cluster.
LEMMA ClusterKept ==
    ASSUME TypeOK, TypeOK', NEW n \in Nodes, StepOf(n), NEW r \in Nodes, KeepsDisk(r),
           cluster'[r] = cluster[r], ClusterOK(r)
    PROVE  ClusterOK(r)'
<1> USE DEF KeepsDisk
<1>1. Running(r)' = Running(r) /\ \A S : AtStep(r, S)' <=> AtStep(r, S)
  BY Zenon DEF AtStep, Running
<1>2. CASE ~ Running(r)
  BY <1>1, <1>2, Zenon DEF ClusterOK, AtStep, StepOf
<1>3. CASE Running(r)
  <2>1. PICK v \in Views : v = cluster[r].view /\ v \in Nat
    BY <1>3, ClusterType, Zenon
  <2>2. v <= view[r] => v <= view'[r]
    BY <2>1, ViewsGrow
  <2>3. (Proposed(v) => Proposed(v)') /\ (QuorumAt(v) => QuorumAt(v)')
    BY ProposedKept, QuorumKept, Zenon
  <2>4. AskingOK(r) => AskingOK(r)'
    <3>1. ViewInfo(r)' = ViewInfo(r) /\ FailedViewTS(r)' = FailedViewTS(r)
      BY Zenon DEF ViewInfo, FailedViewTS
    <3>2. QuorumSilent(r) => QuorumSilent(r)'
      BY <1>3, SilentKept, Zenon
    <3> QED
      BY <3>1, <3>2, Zenon DEF AskingOK
  <2>5. \A type : Holds(r, type)' = Holds(r, type)
    BY Zenon DEF Holds, Certificate
  <2> QED
    BY <1>1, <2>1, <2>2, <2>3, <2>4, <2>5, ZenonT(30) DEF ClusterOK, StepOf
<1> QED
  BY <1>2, <1>3, Zenon

(***************************************************************************)
(* What the step does to the messages.  The node's certificate is the one  *)
(* it had, or of the view that it votes in; its cluster takes part in a    *)
(* view of which no proposal to it is left; a new proposal is the first of *)
(* its view.                                                               *)
(***************************************************************************)
DeliveryOK(n) ==
    /\ \/ safetyData'[n] = safetyData[n]
       \/ Len(safetyData'[n]) = 0
       \/ AtStep(n, Voting) /\ safetyData'[n][1].view = cluster[n].view
    /\ AtStep(n, Voting)' =>
          \/ AtStep(n, Voting) /\ cluster'[n].view = cluster[n].view
          \/ \A m \in msgs \cap msgs' : m.type = "proposal" /\ m.to = n => cluster'[n].view # m.view
    /\ \A l \in msgs' \ msgs, m \in msgs :
          l.type = "proposal" /\ m.type = "proposal" => l.view # m.view
    /\ \A m \in msgs' \ msgs : MsgOK(m)'
    /\ \A w \in votes' \ votes : view'[w.node] >= w.view
    /\ \A c \in certs' \ certs : c.type = "precommit" => QuorumAt(c.view)'

\* A message that stays in flight keeps its part of the invariant.
LEMMA MessagesOK ==
    ASSUME TypeOK, TypeOK', NEW n \in Nodes, StepOf(n), DeliveryOK(n),
           NEW m \in msgs, m \in msgs', MsgOK(m)
    PROVE  MsgOK(m)'
<1>1. m \in Messages /\ m.view \in Views /\ m.view \in Nat /\ Operator(m.view) \in Nodes
  BY MessageType, OperatorType, Zenon DEF TypeOK
<1>2. ASSUME m.type \in {"prepare", "prepared"} PROVE view'[Operator(m.view)] >= m.view
  <2>1. PICK o \in Nodes : o = Operator(m.view)
    BY <1>1, Zenon
  <2>2. view[o] \in Nat /\ view'[o] \in Nat /\ view'[o] >= view[o]
    BY ViewsGrow, Zenon
  <2> QED
    BY <1>1, <1>2, <2>1, <2>2 DEF MsgOK
<1>3. ASSUME m.type = "proposal" PROVE ProposalOK(m)'
  <2>1. ProposalOK(m) /\ m.to \in Nodes
    BY <1>1, <1>3, MessageType, Zenon DEF MsgOK
  <2>2. Proposed(m.view)'
    BY <1>1, <2>1, ProposedKept, Zenon DEF ProposalOK
  <2>3. /\ Len(safetyData'[m.to]) = 1 => safetyData'[m.to][1].view # m.view
        /\ AtStep(m.to, Voting)' => cluster'[m.to].view # m.view
    <3>1. CASE m.to = n
      BY <1>3, <2>1, <3>1, SMTT(30) DEF DeliveryOK, ProposalOK
    <3>2. CASE m.to # n
      BY <2>1, <3>2, Zenon DEF StepOf, Same, KeepsDisk, ProposalOK, AtStep, Running
    <3> QED
      BY <3>1, <3>2, Zenon
  <2>4. ASSUME NEW l \in msgs', l.type = "proposal", l.to = m.to, l.view = m.view
        PROVE  l = m
    BY <1>3, <2>1, <2>4, Zenon DEF DeliveryOK, ProposalOK
  <2> QED
    BY <2>1, <2>2, <2>3, <2>4, Zenon DEF ProposalOK
<1> QED
  BY <1>2, <1>3, Zenon DEF MsgOK

\* So a step of a node keeps the invariant if the node keeps its own part of it.
LEMMA OneNode ==
    ASSUME ViewsInv, TypeOK', NEW n \in Nodes, StepOf(n), DiskOK(n)', ClusterOK(n)', DeliveryOK(n)
    PROVE  ViewsInv'
<1> TypeOK
  BY Zenon DEF ViewsInv
<1>1. ASSUME NEW r \in Nodes \ {n} PROVE DiskOK(r)' /\ ClusterOK(r)'
  <2>1. KeepsDisk(r) /\ cluster'[r] = cluster[r] /\ DiskOK(r) /\ ClusterOK(r)
    BY Zenon DEF StepOf, Same, ViewsInv
  <2>2. \A S : AtStep(r, S)' <=> AtStep(r, S)
    BY <2>1, Zenon DEF AtStep, Running
  <2> QED
    BY <2>1, <2>2, DiskKept, ClusterKept, Zenon
<1>2. \A m \in msgs' : MsgOK(m)'
  BY MessagesOK, Zenon DEF ViewsInv, DeliveryOK
<1>3. ASSUME NEW w \in votes' PROVE view'[w.node] >= w.view
  <2>1. CASE w \in votes
    <3>1. PICK r \in Nodes : r = w.node /\ w.view \in Nat
      BY <2>1, OperatorType, Zenon DEF TypeOK
    <3>2. view[r] \in Nat /\ view'[r] \in Nat /\ view'[r] >= view[r]
      BY ViewsGrow, Zenon
    <3>3. view[r] >= w.view
      BY <2>1, <3>1, Zenon DEF ViewsInv, VotesOK
    <3> QED
      BY <3>1, <3>2, <3>3
  <2> QED
    BY <2>1, <1>3, Zenon DEF DeliveryOK
<1>4. ASSUME NEW c \in certs', c.type = "precommit" PROVE QuorumAt(c.view)'
  <2>1. CASE c \in certs
    <3>1. c.view \in Views
      BY <2>1, Zenon DEF TypeOK
    <3> QED
      BY <1>4, <2>1, <3>1, QuorumKept, Zenon DEF ViewsInv, VotesOK
  <2> QED
    BY <2>1, <1>4, Zenon DEF DeliveryOK
<1> QED
  BY <1>1, <1>2, <1>3, <1>4, Zenon DEF ViewsInv, VotesOK

(***************************************************************************)
(* A step that writes nothing to the disk, sends no certificate and gives  *)
(* the node the cluster e.                                                 *)
(***************************************************************************)
Quiet(n, e) ==
    /\ cluster' = [cluster EXCEPT ![n] = e]
    /\ UNCHANGED <<disk, certs>>
    /\ view' \in [Nodes -> Views] /\ \A r \in Nodes \ {n} : view'[r] = view[r]
    /\ view'[n] \in {view[n], view[n] + 1}
    /\ msgs' \subseteq Messages /\ AnswersInView
    /\ votes' \subseteq [type : {"prevote", "precommit"}, view : Views, node : Nodes]
    /\ crashed \subseteq crashed' /\ crashed' \subseteq Nodes
    /\ AtStep(n, {"committing", "added"}) => e = cluster[n] \/ n \in crashed'
    /\ e \in Clusters /\ e.step \in Asking =>
          \/ AtStep(n, Asking) /\ e.view = cluster[n].view
          \/ e.view > view[n]

LEMMA QuietStep ==
    ASSUME ViewsInv, NEW n \in Nodes, NEW e \in Clusters \cup {None, Down}, Quiet(n, e)
    PROVE  /\ TypeOK' /\ StepOf(n) /\ DiskOK(n)' /\ KeepsDisk(n)
           /\ cluster'[n] = e /\ Running(n)' = (e \in Clusters)
           /\ \A S : AtStep(n, S)' <=> e \in Clusters /\ e.step \in S
<1> USE DEF Quiet
<1> TypeOK /\ DiskOK(n)
  BY Zenon DEF ViewsInv
<1>1. /\ cluster' \in [Nodes -> Clusters \cup {None, Down}]
      /\ cluster'[n] = e /\ \A r \in Nodes \ {n} : cluster'[r] = cluster[r]
  BY Zenon DEF TypeOK
<1>2. Running(n)' = (e \in Clusters) /\ \A S : AtStep(n, S)' <=> e \in Clusters /\ e.step \in S
  BY <1>1, ViewsAssumption DEF AtStep, Running
<1>3. TypeOK' /\ \A r \in Nodes : KeepsDisk(r)
  BY <1>1, Zenon DEF TypeOK, disk, KeepsDisk
<1>4. StepOf(n)
  BY <1>1, <1>2, <1>3, Zenon DEF StepOf, Same, AsksLater
<1>5. DiskOK(n)'
  <2>1. AtStep(n, {"committing", "added"}) => AtStep(n, {"committing", "added"})' \/ n \in crashed'
    BY <1>1, Zenon DEF AtStep, Running
  <2> QED
    BY <1>3, <1>4, <2>1, DiskKept, Zenon
<1> QED
  BY <1>1, <1>2, <1>3, <1>4, <1>5, Zenon

-----------------------------------------------------------------------------
(* The steps.                                                              *)

LEMMA InitInv == Init => ViewsInv
<1> SUFFICES ASSUME Init PROVE ViewsInv
  BY Zenon
<1> DEFINE e == <<>>
<1>1. 0 \in Views /\ e \in Tesseracts /\ e \in Seq(Qcs) /\ Len(e) = 0
  <2>1. e \in Seq(1 .. MaxView) /\ e \in Seq(Qcs) /\ Len(e) = 0
    OBVIOUS
  <2>2. e \in Tesseracts
    BY <2>1 DEF Tesseracts
  <2> QED
    BY <2>1, <2>2, ViewsAssumption DEF Views
<1>2. committed = [n \in Nodes |-> e] /\ safetyData = [n \in Nodes |-> e]
  BY Zenon DEF Init
<1> HIDE DEF e
<1>3. TypeOK
  BY <1>1, <1>2, Zenon DEF Init, TypeOK
<1>4. ASSUME NEW n \in Nodes PROVE DiskOK(n) /\ ClusterOK(n)
  <2>1. /\ ~ Running(n) /\ \A S : ~ AtStep(n, S)
        /\ Len(committed[n]) = 0 /\ Len(safetyData[n]) = 0
        /\ commitView[n] = 0 /\ proposalInfo[n] = {} /\ cluster[n] = None
    BY <1>1, <1>2, Zenon DEF Init, Running, AtStep
  <2> QED
    BY <2>1, ViewsAssumption, SMTT(30)
    DEF DiskOK, ChainOK, ClusterOK, LockOK, StoreOK
<1> QED
  BY <1>3, <1>4, Zenon DEF Init, ViewsInv, VotesOK

\* A node that gives up its cluster before the commit, or loses it in a crash, keeps its disk.
LEMMA NoCluster ==
    ASSUME ViewsInv, NEW n \in Nodes, NEW e \in {None, Down}, e = Down => n \in crashed',
           Quiet(n, e), UNCHANGED <<msgs, votes>>
    PROVE  ViewsInv'
<1>1. /\ TypeOK' /\ StepOf(n) /\ DiskOK(n)' /\ KeepsDisk(n) /\ cluster'[n] = e
      /\ ~ Running(n)' /\ \A S : ~ AtStep(n, S)'
  BY QuietStep, ViewsAssumption, Zenon
<1>2. ClusterOK(n)' /\ DeliveryOK(n)
  BY <1>1, Zenon DEF ClusterOK, DeliveryOK, KeepsDisk, Quiet
<1> QED
  BY <1>1, <1>2, OneNode, Zenon

LEMMA TimeoutInv ==
    ASSUME ViewsInv, NEW n \in Nodes, Timeout(n)
    PROVE  ViewsInv'
<1>1. TypeOK /\ ~ AtStep(n, {"committing", "added"})
  BY Zenon DEF ViewsInv, Timeout, In, AtStep
<1>2. Quiet(n, None)
  BY <1>1, ViewsAssumption, Zenon DEF Timeout, TypeOK, AnswersInView, Quiet
<1> QED
  BY <1>2, NoCluster, ViewsAssumption, Zenon DEF Timeout

LEMMA CrashInv ==
    ASSUME ViewsInv, NEW n \in Nodes, Crash(n)
    PROVE  ViewsInv'
<1>1. Quiet(n, Down) /\ n \in crashed' /\ UNCHANGED <<msgs, votes>>
  BY ViewsAssumption, Zenon DEF ViewsInv, TypeOK, Crash, MayCrash, disk, AnswersInView, Quiet
<1> QED
  BY <1>1, NoCluster, Zenon

\* A tesseract from another node is later than the node's own, and a quorum has been there.
LEMMA SyncInv ==
    ASSUME ViewsInv, NEW n \in Nodes, NEW m \in Nodes, Sync(n, m)
    PROVE  ViewsInv'
<1> TypeOK /\ DiskOK(n) /\ DiskOK(m) /\ ~ Running(n)
  BY Zenon DEF ViewsInv, Sync, Free, Running
<1> /\ UNCHANGED <<view, safetyData, proposalInfo, cluster, msgs, votes, certs, crashed>>
    /\ cluster[n] = None
  BY Zenon DEF Sync, Free
<1>1. /\ committed'[n] = committed[m] /\ commitView'[n] = commitView[m]
      /\ \A r \in Nodes \ {n} : committed'[r] = committed[r] /\ commitView'[r] = commitView[r]
      /\ committed' \in [Nodes -> Tesseracts] /\ commitView' \in [Nodes -> Views]
  BY Zenon DEF Sync, TypeOK
<1>2. Len(committed[n]) \in Nat /\ Len(committed'[n]) = Len(committed[n]) + 1
  BY <1>1, NodeType, Zenon DEF Sync, Extends
<1>3. ~ Running(n)' /\ \A S : ~ AtStep(n, S)' /\ ~ AtStep(n, S)
  BY Zenon DEF Running, AtStep
<1>4. TypeOK' /\ StepOf(n)
  BY <1>1, <1>3, Zenon DEF TypeOK, StepOf, Same, KeepsDisk, AsksLater, AnswersInView
<1>5. ChainOK(n)'
  <2>1. Len(committed[m]) > 0 /\ commitView[m] \in Views
    BY <1>1, <1>2, NodeType, SMTT(30)
  <2>2. PICK v \in Views : v = commitView[m] /\ v = Last(committed[m]) /\ Proposed(v) /\ QuorumAt(v)
    BY <2>1, Zenon DEF DiskOK, ChainOK
  <2>3. Proposed(v)' /\ QuorumAt(v)'
    BY <1>4, <2>2, ProposedKept, QuorumKept, Zenon
  <2> QED
    BY <1>1, <1>2, <2>2, <2>3, SMTT(30) DEF ChainOK
<1>6. LockOK(n)'
  <2>1. Proposed(safetyData[n][1].view)' = Proposed(safetyData[n][1].view)
    BY Zenon DEF Proposed, AtStep, Running
  <2> QED
    BY <2>1, Zenon DEF DiskOK, LockOK
<1>7. StoreOK(n)'
  <2>1. \A t \in proposalInfo[n] : Len(t) \in Nat /\ Len(t) <= Len(committed[n]) + 1
    BY SMTT(30) DEF TypeOK, Tesseracts, DiskOK, StoreOK
  <2>2. \A t \in proposalInfo[n] : Len(t) <= Len(committed'[n]) + 1 /\ Len(t) # Len(committed'[n]) + 1
    BY <1>2, <2>1
  <2> QED
    BY <1>3, <2>2, Zenon DEF DiskOK, StoreOK
<1>8. DiskOK(n)' /\ ClusterOK(n)' /\ DeliveryOK(n)
  BY <1>3, <1>5, <1>6, <1>7, ViewsAssumption, Zenon DEF DiskOK, ClusterOK, DeliveryOK
<1> QED
  BY <1>4, <1>8, OneNode, Zenon

\* What a node votes for is a tesseract one height above its own.
LEMMA VoteTS ==
    ASSUME TypeOK, NEW n \in Nodes, DiskOK(n), ClusterOK(n),
           AtStep(n, {"proposing", "prevoted", "precommitted", "committing"})
    PROVE  /\ cluster[n].ts \in Tesseracts
           /\ Len(cluster[n].ts) = Len(committed[n]) + 1 /\ Len(committed[n]) \in Nat
           /\ Last(cluster[n].ts) = cluster[n].view
<1>1. PICK v \in 1 .. MaxView : v = cluster[n].view
  BY ClusterType, ViewsAssumption, SMTT(30) DEF AtStep, ClusterOK, Views
<1>2. cluster[n].ts = Append(committed[n], v) /\ commitView[n] < v
  BY <1>1, Zenon DEF ClusterOK
<1>3. Len(committed[n]) > 0 => Last(committed[n]) < v
  BY <1>2, Zenon DEF DiskOK, ChainOK
<1> QED
  BY <1>1, <1>2, <1>3, NodeType, AppendTesseract, Zenon

\* The certificate of a node's cluster takes the place of the one it had.
LEMMA LockTaken ==
    ASSUME TypeOK, NEW n \in Nodes, DiskOK(n), ClusterOK(n), NEW type \in {"prevote", "precommit"},
           \/ AtStep(n, {"prevoted"})
           \/ AtStep(n, {"precommitted"}) /\ type = "precommit"
    PROVE  /\ UpdateQc(safetyData[n], Certificate(n, type)) \in Seq(Qcs)
           /\ Len(UpdateQc(safetyData[n], Certificate(n, type))) = 1
           /\ UpdateQc(safetyData[n], Certificate(n, type))[1] = Certificate(n, type)
<1>1. PICK qc \in Qcs : qc = Certificate(n, type) /\ qc.view = cluster[n].view
  <2>1. cluster[n].ts \in Tesseracts /\ cluster[n].view \in Views
    BY VoteTS, ClusterType, Zenon DEF AtStep
  <2>2. Certificate(n, type) \in Qcs /\ Certificate(n, type).view = cluster[n].view
    BY <2>1, Zenon DEF Certificate, Qcs
  <2> QED
    BY <2>2, Zenon
<1>2. safetyData[n] \in Seq(Qcs) /\ Len(safetyData[n]) \in {0, 1}
  BY Zenon DEF TypeOK, DiskOK, LockOK
<1>3. Supersedes(qc, safetyData[n])
  <2>1. CASE AtStep(n, {"prevoted"})
    BY <1>1, <2>1, Zenon DEF ClusterOK, Supersedes, AtStep
  <2>2. CASE AtStep(n, {"precommitted"})
    BY <1>1, <2>2, SMTT(30) DEF ClusterOK, Holds, Supersedes, Certificate
  <2> QED
    BY <2>1, <2>2, Zenon
<1> QED
  BY <1>1, <1>2, <1>3, UpdateQcOne, Zenon

(***************************************************************************)
(* A step that stores the certificate of the node's cluster, which goes on *)
(* to the step s or is lost in a crash.                                    *)
(***************************************************************************)
LEMMA LockingInv ==
    ASSUME ViewsInv, NEW n \in Nodes, NEW type \in {"prevote", "precommit"}, NEW s,
           AtStep(n, {"prevoted"}) \/ (AtStep(n, {"precommitted"}) /\ type = "precommit"),
           s = IF type = "prevote" THEN "precommitted" ELSE "committing",
           type = "precommit" => QuorumAt(cluster[n].view),
           NEW e \in {[cluster[n] EXCEPT !.step = s], Down}, e = Down => n \in crashed',
           NEW P \in SUBSET (proposalInfo[n] \cup {cluster[n].ts}),
           e # Down /\ type = "prevote" => cluster[n].ts \in P,
           cluster' = [cluster EXCEPT ![n] = e],
           safetyData' = [safetyData EXCEPT ![n] = UpdateQc(safetyData[n], Certificate(n, type))],
           proposalInfo' = [proposalInfo EXCEPT ![n] = P],
           UNCHANGED <<view, committed, commitView, msgs>>,
           votes' \subseteq votes \cup {[type |-> "precommit", view |-> cluster[n].view, node |-> n]},
           certs' \subseteq certs \cup {[type |-> type, view |-> cluster[n].view]},
           crashed \subseteq crashed', crashed' \subseteq Nodes
    PROVE  ViewsInv'
<1> /\ TypeOK /\ DiskOK(n) /\ ClusterOK(n) /\ Running(n)
    /\ AtStep(n, Voting) /\ AtStep(n, {"prevoted", "precommitted"})
  BY Zenon DEF ViewsInv, AtStep, Voting
<1>1. PICK v \in Views :
          /\ v = cluster[n].view /\ v \in Nat /\ v >= 1 /\ v <= view[n] /\ commitView[n] < v
          /\ cluster[n].ts = Append(committed[n], v)
          /\ Proposed(v) /\ (type = "precommit" => QuorumAt(v))
  BY ClusterType, Zenon DEF ClusterOK, AtStep
<1>2. /\ cluster[n] \in Clusters /\ cluster[n].ts \in Tesseracts
      /\ Len(cluster[n].ts) = Len(committed[n]) + 1 /\ Len(committed[n]) \in Nat
  BY ClusterType, VoteTS, Zenon DEF AtStep
<1>3. e # Down => e \in Clusters /\ e.step = s /\ e.view = v /\ e.ts = cluster[n].ts
  <2>1. s \in Asking \cup Voting \cup {"inert"}
    BY Zenon DEF Voting
  <2> DEFINE d == [cluster[n] EXCEPT !.step = s]
  <2>2. d \in Clusters /\ d.step = s /\ d.view = cluster[n].view /\ d.ts = cluster[n].ts
    BY <1>2, <2>1, SetStep, ZenonT(30)
  <2> HIDE DEF d
  <2>3. e # Down => e = d
    BY Zenon DEF d
  <2> QED
    BY <1>1, <2>2, <2>3, Zenon
<1> DEFINE qcs == UpdateQc(safetyData[n], Certificate(n, type))
<1>4. qcs \in Seq(Qcs) /\ Len(qcs) = 1 /\ qcs[1] = [type |-> type, view |-> v, ts |-> cluster[n].ts]
  BY <1>1, LockTaken, Zenon DEF Certificate
<1> HIDE DEF qcs
<1>5. /\ cluster'[n] = e /\ safetyData'[n] = qcs /\ proposalInfo'[n] = P
      /\ \A r \in Nodes \ {n} : Same(r)
  BY Zenon DEF TypeOK, Same, KeepsDisk, qcs
<1>6. TypeOK'
  <2>1. cluster' \in [Nodes -> Clusters \cup {None, Down}]
    BY <1>3, Zenon DEF TypeOK
  <2>2. safetyData' \in [Nodes -> Seq(Qcs)] /\ proposalInfo' \in [Nodes -> SUBSET Tesseracts]
    BY <1>2, <1>4, Zenon DEF TypeOK, qcs
  <2> QED
    BY <1>1, <2>1, <2>2 DEF TypeOK
<1>7. \A S : AtStep(n, S)' <=> e # Down /\ s \in S
  BY <1>3, <1>5, ViewsAssumption, Zenon DEF Running, AtStep
<1>8. StepOf(n)
  BY <1>5, <1>7 DEF StepOf, AsksLater, AnswersInView, Asking
<1>9. Proposed(v)' /\ (type = "precommit" => QuorumAt(v)')
  BY <1>1, <1>6, <1>8, ProposedKept, QuorumKept, Zenon
<1>10. DiskOK(n)'
  <2>1. ChainOK(n)'
    <3>1. PICK w \in Views : w = commitView[n] /\ w = commitView'[n]
      BY NodeType, Zenon
    <3> QED
      BY <1>6, <1>8, <3>1, ProposedKept, QuorumKept, Zenon DEF DiskOK, ChainOK
  <2>2. LockOK(n)'
    BY <1>1, <1>4, <1>5, <1>9 DEF LockOK
  <2>3. StoreOK(n)'
    <3>1. \A t \in P : Len(t) <= Len(committed[n]) + 1
      BY <1>2 DEF DiskOK, StoreOK
    <3>2. e # Down => \/ type = "prevote" /\ cluster[n].ts \in P
                      \/ AtStep(n, {"committing", "added"})'
      BY <1>7, Zenon
    <3> QED
      BY <1>2, <1>4, <1>5, <3>1, <3>2 DEF StoreOK
  <2> QED
    BY <2>1, <2>2, <2>3, Zenon DEF DiskOK
<1>11. ClusterOK(n)'
  <2>1. CASE e = Down
    BY <1>5, <1>7, <2>1, Zenon DEF ClusterOK, Running
  <2>2. CASE e # Down
    <3>1. Holds(n, type)'
      BY <1>3, <1>4, <1>5, <2>2, Zenon DEF Holds, Certificate
    <3>2. cluster'[n] # Down /\ cluster'[n].view = v /\ cluster'[n].ts = Append(committed'[n], v)
      BY <1>1, <1>3, <1>5, <2>2, Zenon
    <3> QED
      BY <1>1, <1>7, <1>9, <3>1, <3>2, SMTT(30) DEF ClusterOK, Asking
  <2> QED
    BY <2>1, <2>2, Zenon
<1>12. DeliveryOK(n)
  <2>1. safetyData'[n][1].view = cluster[n].view
    BY <1>1, <1>4, <1>5
  <2>2. AtStep(n, Voting)' => cluster'[n].view = cluster[n].view
    BY <1>1, <1>3, <1>5, <1>7, Zenon
  <2>3. \A w \in votes' \ votes : view'[w.node] >= w.view
    BY <1>1
  <2>4. \A c \in certs' \ certs : c.type = "precommit" => QuorumAt(c.view)'
    BY <1>1, <1>9
  <2> QED
    BY <2>1, <2>2, <2>3, <2>4, Zenon DEF DeliveryOK
<1> QED
  BY <1>6, <1>8, <1>10, <1>11, <1>12, OneNode, Zenon

LEMMA EnterPreCommitInv ==
    ASSUME ViewsInv, NEW n \in Nodes, EnterPreCommit(n)
    PROVE  ViewsInv'
<1> DEFINE P == proposalInfo[n] \cup {cluster[n].ts}
           d == [cluster[n] EXCEPT !.step = "precommitted"]
<1>1. AtStep(n, {"prevoted"}) /\ d # Down /\ crashed' \subseteq Nodes
  <2>1. AtStep(n, {"prevoted"}) /\ TypeOK
    BY Zenon DEF EnterPreCommit, In, AtStep, Running, ViewsInv
  <2>2. d \in Clusters
    BY <2>1, ClusterType, SetStep, Zenon DEF AtStep, Voting
  <2> QED
    BY <2>1, <2>2, ViewsAssumption, Zenon DEF EnterPreCommit, TypeOK
<1>2. /\ cluster' = [cluster EXCEPT ![n] = d]
      /\ safetyData' = [safetyData EXCEPT ![n] = UpdateQc(safetyData[n], Certificate(n, "prevote"))]
      /\ proposalInfo' = [proposalInfo EXCEPT ![n] = P]
      /\ votes' \subseteq votes \cup {[type |-> "precommit", view |-> cluster[n].view, node |-> n]}
      /\ certs' \subseteq certs \cup {[type |-> "prevote", view |-> cluster[n].view]}
      /\ UNCHANGED <<view, committed, commitView, msgs, crashed>>
  BY Zenon DEF EnterPreCommit, UpdateSafetyInfo, proposalsAfter, Certificate, SendCert
<1>3. P \in SUBSET (proposalInfo[n] \cup {cluster[n].ts}) /\ cluster[n].ts \in P
  BY Zenon
<1> HIDE DEF P
<1> QED
  BY <1>1, <1>2, <1>3, LockingInv, Zenon

\* A crash between the two writes leaves a lock whose proposal is not stored.
LEMMA CrashInUpdateInv ==
    ASSUME ViewsInv, NEW n \in Nodes, CrashInUpdate(n)
    PROVE  ViewsInv'
<1>1. TypeOK /\ AtStep(n, {"prevoted"})
  BY Zenon DEF ViewsInv, CrashInUpdate, In, AtStep, Running
<1>2. /\ cluster' = [cluster EXCEPT ![n] = Down]
      /\ safetyData' = [safetyData EXCEPT ![n] = UpdateQc(safetyData[n], Certificate(n, "prevote"))]
      /\ proposalInfo' = [proposalInfo EXCEPT ![n] = proposalInfo[n]]
      /\ crashed' = crashed \cup {n} /\ crashed' \subseteq Nodes
      /\ UNCHANGED <<view, committed, commitView, msgs, votes, certs>>
  BY <1>1, Zenon DEF CrashInUpdate, MayCrash, TypeOK
<1> QED
  BY <1>1, <1>2, LockingInv, Zenon

\* The tesseract is added: the node's state is that of its cluster.
LEMMA AddInv ==
    ASSUME ViewsInv, NEW n \in Nodes, In(n, "committing"),
           committed' = [committed EXCEPT ![n] = cluster[n].ts],
           commitView' = [commitView EXCEPT ![n] = cluster[n].view],
           cluster' = [cluster EXCEPT ![n].step = "added"],
           UNCHANGED <<view, safetyData, proposalInfo, msgs, votes, certs, crashed>>
    PROVE  ViewsInv'
<1> TypeOK /\ DiskOK(n) /\ ClusterOK(n) /\ AtStep(n, {"committing"}) /\ AtStep(n, Voting) /\ Running(n)
  BY Zenon DEF ViewsInv, In, AtStep, Running, Voting
<1> DEFINE d == [cluster[n] EXCEPT !.step = "added"]
<1>1. PICK v \in Views :
          /\ v = cluster[n].view /\ v \in Nat /\ v >= 1 /\ v <= view[n] /\ Proposed(v) /\ QuorumAt(v)
  BY ClusterType, Zenon DEF AtStep, ClusterOK
<1>2. /\ cluster[n].ts \in Tesseracts /\ Last(cluster[n].ts) = v
      /\ Len(cluster[n].ts) = Len(committed[n]) + 1 /\ Len(committed[n]) \in Nat
  BY <1>1, VoteTS, Zenon DEF AtStep
<1>3. d \in Clusters /\ d.step = "added" /\ d.view = v /\ d.ts = cluster[n].ts
  BY <1>1, ClusterType, SetStep, Zenon DEF Voting
<1>4. cluster' = [cluster EXCEPT ![n] = d]
  BY Zenon
<1> HIDE DEF d
<1>5. /\ cluster'[n] = d /\ committed'[n] = cluster[n].ts /\ commitView'[n] = v
      /\ \A r \in Nodes \ {n} : Same(r)
  BY <1>1, <1>4, Zenon DEF TypeOK, Same, KeepsDisk
<1>6. TypeOK'
  <2>1. /\ cluster' \in [Nodes -> Clusters \cup {None, Down}]
        /\ committed' \in [Nodes -> Tesseracts] /\ commitView' \in [Nodes -> Views]
    BY <1>1, <1>2, <1>3, <1>4, Zenon DEF TypeOK
  <2> QED
    BY <2>1, Zenon DEF TypeOK
<1>7. cluster'[n] # Down /\ \A S : AtStep(n, S)' <=> "added" \in S
  BY <1>3, <1>5, ViewsAssumption, Zenon DEF Running, AtStep
<1>8. StepOf(n)
  BY <1>5, <1>7, Zenon DEF StepOf, AsksLater, AnswersInView, Asking
<1>9. Proposed(v)' /\ QuorumAt(v)'
  BY <1>1, <1>6, <1>8, ProposedKept, QuorumKept, Zenon
<1>10. DiskOK(n)'
  <2>1. ChainOK(n)'
    BY <1>1, <1>2, <1>5, <1>9 DEF ChainOK
  <2>2. LockOK(n)'
    <3>1. Len(safetyData[n]) = 1 /\ safetyData[n][1].view = v
      BY <1>1 DEF ClusterOK, Holds, Certificate, AtStep
    <3> QED
      BY <1>1, <1>9, <3>1, Zenon DEF LockOK
  <2>3. \A t \in proposalInfo[n] : Len(t) \in Nat /\ Len(t) <= Len(committed[n]) + 1
    BY DEF TypeOK, Tesseracts, DiskOK, StoreOK
  <2>4. Len(committed'[n]) = Len(committed[n]) + 1
    BY <1>2, <1>5, Zenon
  <2>5. \A t \in proposalInfo[n] : Len(t) <= Len(committed'[n]) + 1 /\ Len(t) # Len(committed'[n]) + 1
    BY <1>2, <2>3, <2>4
  <2>6. StoreOK(n)'
    BY <1>7, <2>5, Zenon DEF StoreOK
  <2> QED
    BY <2>1, <2>2, <2>6, Zenon DEF DiskOK
<1>11. ClusterOK(n)'
  <2>1. Holds(n, "precommit")'
    BY <1>1, <1>3, <1>5, Zenon DEF ClusterOK, AtStep, Holds, Certificate
  <2> QED
    BY <1>1, <1>3, <1>5, <1>7, <1>9, <2>1, Zenon DEF ClusterOK, Asking
<1>12. DeliveryOK(n)
  BY <1>1, <1>3, <1>5, Zenon DEF DeliveryOK
<1> QED
  BY <1>6, <1>8, <1>10, <1>11, <1>12, OneNode, Zenon

\* The safety data is deleted: no stored proposal is above the node's state by then.
LEMMA DeleteInv ==
    ASSUME ViewsInv, NEW n \in Nodes, In(n, "added"),
           safetyData' = [safetyData EXCEPT ![n] = <<>>],
           cluster' = [cluster EXCEPT ![n] = None],
           UNCHANGED <<view, committed, commitView, proposalInfo, msgs, votes, certs, crashed>>
    PROVE  ViewsInv'
<1> TypeOK /\ DiskOK(n) /\ ClusterOK(n) /\ AtStep(n, {"added"})
  BY Zenon DEF ViewsInv, In, AtStep, Running
<1> DEFINE e == <<>>
<1>1. e \in Seq(Qcs) /\ Len(e) = 0 /\ safetyData' = [safetyData EXCEPT ![n] = e]
  OBVIOUS
<1> HIDE DEF e
<1>2. /\ cluster'[n] = None /\ safetyData'[n] = e
      /\ \A r \in Nodes \ {n} : Same(r)
  BY <1>1, Zenon DEF TypeOK, Same, KeepsDisk
<1>3. TypeOK'
  <2>1. cluster' \in [Nodes -> Clusters \cup {None, Down}] /\ safetyData' \in [Nodes -> Seq(Qcs)]
    BY <1>1, Zenon DEF TypeOK
  <2> QED
    BY <2>1, Zenon DEF TypeOK
<1>4. ~ Running(n)' /\ \A S : ~ AtStep(n, S)'
  BY <1>2, Zenon DEF Running, AtStep
<1>5. StepOf(n)
  BY <1>2, <1>4, Zenon DEF StepOf, AsksLater, AnswersInView
<1>6. ChainOK(n)'
  <2>1. PICK w \in Views : w = commitView[n] /\ w = commitView'[n]
    BY NodeType, Zenon
  <2> QED
    BY <1>3, <1>5, <2>1, ProposedKept, QuorumKept, Zenon DEF DiskOK, ChainOK
<1>7. StoreOK(n)'
  <2>1. safetyData[n][1].ts = committed[n] /\ Len(committed[n]) \in Nat
    BY NodeType, SMTT(30) DEF ClusterOK, Holds, AtStep, Certificate
  <2>2. \A t \in proposalInfo[n] : Len(t) # Len(committed[n]) + 1
    BY <2>1, SMTT(30) DEF DiskOK, StoreOK
  <2> QED
    BY <1>1, <1>2, <2>2, SMTT(30) DEF StoreOK, DiskOK
<1>8. DiskOK(n)'
  BY <1>1, <1>2, <1>6, <1>7, SMTT(30) DEF DiskOK, LockOK
<1>9. ClusterOK(n)' /\ DeliveryOK(n)
  <2>1. cluster'[n] # Down /\ Len(safetyData'[n]) = 0
    BY <1>1, <1>2, ViewsAssumption, Zenon
  <2> QED
    BY <1>4, <2>1, Zenon DEF ClusterOK, DeliveryOK
<1> QED
  BY <1>3, <1>5, <1>8, <1>9, OneNode, Zenon

\* Until it proposes, an operator's view is not proposed.
LEMMA AskingFirst ==
    ASSUME NEW n \in Nodes, ClusterOK(n), AtStep(n, Asking)
    PROVE  ~ Proposed(cluster[n].view)
BY Zenon DEF ClusterOK, AskingOK, Proposed

\* A step that leaves the node as it is, or at most takes it to the next view.
LEMMA SameCluster ==
    ASSUME ViewsInv, NEW n \in Nodes, UNCHANGED <<disk, cluster, votes, certs, crashed>>,
           view' \in [Nodes -> Views], \A r \in Nodes \ {n} : view'[r] = view[r],
           view'[n] \in {view[n], view[n] + 1},
           \A l \in msgs' \ msgs :
              /\ l \in Messages /\ l.type = "prepared" /\ l.view = view[l.from]
              /\ view[Operator(l.view)] >= l.view /\ Len(l.info) = 1
    PROVE  ViewsInv'
<1> TypeOK /\ DiskOK(n) /\ ClusterOK(n)
  BY Zenon DEF ViewsInv
<1>1. /\ TypeOK' /\ \A S : AtStep(n, S)' <=> AtStep(n, S)
      /\ \A r \in Nodes : KeepsDisk(r) /\ cluster'[r] = cluster[r]
  BY Zenon DEF TypeOK, disk, KeepsDisk, AtStep, Running
<1>2. StepOf(n)
  BY <1>1, Zenon DEF StepOf, Same, AsksLater, AnswersInView
<1>3. DiskOK(n)' /\ ClusterOK(n)'
  BY <1>1, <1>2, DiskKept, ClusterKept, Zenon
<1>4. ASSUME NEW l \in msgs' \ msgs PROVE MsgOK(l)'
  <2>1. PICK o \in Nodes : o = Operator(l.view) /\ l.view \in Nat
    BY MessageType, OperatorType, Zenon
  <2>2. view'[o] \in Nat /\ view[o] \in Nat /\ view'[o] >= view[o]
    BY <1>1, <1>2, <2>1, ViewsGrow, Zenon
  <2> QED
    BY <2>1, <2>2, SMTT(30) DEF MsgOK
<1>5. DeliveryOK(n)
  BY <1>1, <1>4, Zenon DEF DeliveryOK, KeepsDisk
<1> QED
  BY <1>1, <1>2, <1>3, <1>5, OneNode, Zenon

\* A node answers in the view it is in, which the operator has reached.
LEMMA HandlePrepareInv ==
    ASSUME ViewsInv, NEW n \in Nodes, NEW m \in msgs, HandlePrepare(n, m)
    PROVE  ViewsInv'
<1>1. TypeOK /\ DiskOK(n) /\ m \in Messages /\ MsgOK(m)
  BY Zenon DEF ViewsInv, TypeOK
<1> DEFINE a == [type |-> "prepared", view |-> m.view, from |-> n, info |-> ViewInfo(n)]
<1>2. m.view \in Views /\ m.view = view[n] /\ view[Operator(m.view)] >= m.view
  BY <1>1, MessageType, Zenon DEF HandlePrepare, MsgOK
<1>3. ViewInfo(n) \in Seq(Qcs) /\ Len(ViewInfo(n)) = 1
  BY <1>1, ViewInfoOne, Zenon DEF DiskOK, LockOK
<1>4. /\ a \in Messages /\ a.type = "prepared" /\ a.view = m.view /\ a.from = n
      /\ Len(a.info) = 1
  BY <1>2, <1>3, Zenon DEF Messages
<1>5. msgs' = (msgs \ {m}) \cup {a} /\ UNCHANGED <<view, disk, cluster, votes, certs, crashed>>
  BY Zenon DEF HandlePrepare
<1> HIDE DEF a
<1>6. /\ view' \in [Nodes -> Views] /\ view'[n] = view[n]
      /\ \A l \in msgs' \ msgs : l = a
  BY <1>1, <1>5, Zenon DEF TypeOK
<1> QED
  BY <1>2, <1>4, <1>5, <1>6, SameCluster, Zenon

\* The proposals of a view go out once, and to nodes that have not used the view.
LEMMA ProposeInv ==
    ASSUME ViewsInv, NEW n \in Nodes, Propose(n)
    PROVE  ViewsInv'
<1> TypeOK /\ DiskOK(n) /\ ClusterOK(n) /\ AtStep(n, {"proposing"}) /\ AtStep(n, Asking) /\ Running(n)
  BY Zenon DEF ViewsInv, Propose, In, AtStep, Running, Asking
<1> DEFINE c == cluster[n]
           d == [c EXCEPT !.step = "prevoted"]
           w == [type |-> "prevote", view |-> c.view, node |-> n]
           p(r) == [type |-> "proposal", view |-> c.view, ts |-> c.ts, to |-> r]
<1>1. PICK v \in Views :
          /\ v = c.view /\ v \in Nat /\ v >= 1 /\ v <= view[n] /\ n = Operator(v) /\ ~ Proposed(v)
          /\ c.ts = Append(committed[n], v) /\ commitView[n] < v
          /\ Len(safetyData[n]) = 1 => safetyData[n][1].view < v
  BY ClusterType, AskingFirst, Zenon DEF AtStep, ClusterOK, AskingOK, Asking
<1>2. PICK ts \in Tesseracts : ts = c.ts /\ Len(ts) > 0 /\ Last(ts) = v
  <2>1. /\ c.ts \in Tesseracts /\ Last(c.ts) = c.view
        /\ Len(c.ts) = Len(committed[n]) + 1 /\ Len(committed[n]) \in Nat
    BY VoteTS, Zenon DEF AtStep
  <2>2. Len(c.ts) > 0
    BY <2>1
  <2> HIDE DEF c
  <2> QED
    BY <1>1, <2>1, <2>2, Zenon
<1>3. /\ d \in Clusters /\ d.step = "prevoted" /\ d.view = v /\ d.ts = c.ts
      /\ c.responded \subseteq Nodes
  BY <1>1, ClusterType, SetStep, Zenon DEF Voting
<1>4. /\ cluster' = [cluster EXCEPT ![n] = d] /\ UNCHANGED <<view, disk, certs, crashed>>
      /\ msgs' = msgs \cup {p(r) : r \in c.responded \ {n}}
      /\ votes' = votes \cup {w}
  BY Zenon DEF Propose
<1>5. w \in [type : {"prevote", "precommit"}, view : Views, node : Nodes] /\ w.node = n /\ w.view = v
  BY <1>1, Zenon
<1>6. \A r \in Nodes : /\ p(r) \in Messages /\ p(r).type = "proposal" /\ p(r).view = v
                       /\ p(r).ts = ts /\ p(r).to = r
  BY <1>1, <1>2, Zenon DEF Messages
<1> HIDE DEF d, w, p
<1>7. \A l \in msgs' \ msgs :
          /\ l.type = "proposal" /\ l.view = v /\ l.ts = ts /\ l \in Messages
          /\ l.to \in Nodes \ {n} /\ l = p(l.to)
  BY <1>3, <1>4, <1>6
<1>8. ~ AtStep(n, {"committing", "added"}) /\ d.step \notin Asking
  BY <1>3, Zenon DEF AtStep, Asking
<1>9. Quiet(n, d)
  BY <1>4, <1>5, <1>7, <1>8, Zenon DEF TypeOK, AnswersInView, Quiet
<1>10. /\ TypeOK' /\ StepOf(n) /\ DiskOK(n)' /\ KeepsDisk(n) /\ cluster'[n] = d
       /\ \A S : AtStep(n, S)' <=> "prevoted" \in S
  BY <1>3, <1>9, QuietStep, Zenon
<1>11. Proposed(v)'
  BY <1>1, <1>4, <1>10, Zenon DEF Proposed, Asking
<1>12. ClusterOK(n)'
  <2>1. d # Down
    BY <1>3, ViewsAssumption, Zenon
  <2> QED
    BY <1>1, <1>3, <1>4, <1>10, <1>11, <2>1, Zenon DEF ClusterOK, KeepsDisk, Asking
<1>13. \A m \in msgs : m.type = "proposal" => m.view # v
  <2>1. \A m \in msgs : m.type = "proposal" => Proposed(m.view)
    BY Zenon DEF ViewsInv, MsgOK, ProposalOK
  <2> QED
    BY <1>1, <2>1, Zenon
<1>14. ASSUME NEW l \in msgs' \ msgs PROVE ProposalOK(l)'
  <2>1. PICK r \in Nodes \ {n} : r = l.to /\ l.view = v /\ l.ts = ts /\ l = p(r)
    BY <1>7, Zenon
  <2>2. DiskOK(r) /\ ClusterOK(r) /\ Same(r)
    BY <1>10, Zenon DEF ViewsInv, StepOf
  <2>3. Len(safetyData'[r]) = 1 => safetyData'[r][1].view # v
    <3>1. Len(safetyData[r]) = 1 => Proposed(safetyData[r][1].view)
      BY <2>2, Zenon DEF DiskOK, LockOK
    <3>2. safetyData'[r] = safetyData[r]
      BY <2>2, Zenon DEF Same, KeepsDisk
    <3> QED
      BY <1>1, <3>1, <3>2, Zenon
  <2>4. AtStep(r, Voting)' => cluster'[r].view # v
    BY <1>1, <2>2, Zenon DEF ClusterOK, Same, AtStep, Running
  <2>5. ASSUME NEW k \in msgs', k.type = "proposal", k.to = r, k.view = v PROVE k = l
    <3>1. k \in msgs' \ msgs
      BY <1>13, <2>5, Zenon
    <3> QED
      BY <1>7, <2>1, <2>5, <3>1, Zenon
  <2> QED
    BY <1>1, <1>2, <1>11, <2>1, <2>3, <2>4, <2>5, Zenon DEF ProposalOK
<1>15. DeliveryOK(n)
  <2>1. \A l \in msgs' \ msgs : MsgOK(l)'
    BY <1>7, <1>14, Zenon DEF MsgOK
  <2>2. \A x \in votes' \ votes : view'[x.node] >= x.view
    BY <1>1, <1>4, <1>5, Zenon
  <2>3. cluster'[n].view = v /\ safetyData'[n] = safetyData[n] /\ certs' = certs
    BY <1>3, <1>4, <1>10, Zenon DEF KeepsDisk
  <2> QED
    BY <1>7, <1>13, <2>1, <2>2, <2>3, Zenon DEF DeliveryOK
<1> QED
  BY <1>10, <1>12, <1>15, OneNode, Zenon

\* A node that takes a proposal prevotes a tesseract of a view it has not used.
LEMMA HandleProposalInv ==
    ASSUME ViewsInv, NEW n \in Nodes, NEW m \in msgs, HandleProposal(n, m)
    PROVE  ViewsInv'
<1> TypeOK /\ DiskOK(n) /\ view[n] \in Nat /\ view[n] \in Views
  BY NodeType, Zenon DEF ViewsInv
<1>1. /\ m.type = "proposal" /\ m.to = n /\ m.view \in Views /\ m.view \in Nat /\ m.ts \in Tesseracts
      /\ ProposalOK(m) /\ m \in Messages
  <2>1. m \in Messages /\ MsgOK(m)
    BY Zenon DEF ViewsInv, TypeOK
  <2> QED
    BY <2>1, MessageType, Zenon DEF HandleProposal, MsgOK
<1>2. msgs' = msgs \ {m} /\ UNCHANGED <<view, disk, certs, crashed>> /\ view' \in [Nodes -> Views]
  BY Zenon DEF HandleProposal, TypeOK
<1>3. CASE UNCHANGED <<cluster, votes>>
  <2>1. \A l \in msgs' \ msgs : FALSE
    BY <1>2, Zenon
  <2> QED
    BY <1>2, <1>3, <2>1, SameCluster, Zenon
<1>4. CASE Free(n) /\ Valid(n, m.ts)
  <2> DEFINE step == IF m.view = view[n] THEN "prevoted" ELSE "inert"
             d == [view |-> view[n], ixns |-> None, local |-> None, highest |-> None,
                   responded |-> {}, ts |-> m.ts, step |-> step]
             w == [type |-> "prevote", view |-> m.view, node |-> n]
             W == IF m.view = view[n] THEN {w} ELSE {}
  <2>1. cluster' = [cluster EXCEPT ![n] = d] /\ votes' = votes \cup W
    BY <1>4, Zenon DEF HandleProposal
  <2>2. /\ d.step = step /\ d.view = view[n] /\ d.ts = m.ts
        /\ step \in Voting \cup {"inert"} /\ step \notin Asking
    BY Zenon DEF Voting, Asking
  <2>3. /\ w \in [type : {"prevote", "precommit"}, view : Views, node : Nodes]
        /\ w.node = n /\ w.view = m.view
    BY <1>1, Zenon
  <2>4. \/ m.view = view[n] /\ step = "prevoted" /\ W = {w}
        \/ m.view # view[n] /\ step = "inert" /\ W = {}
    BY Zenon
  <2>5. d \in Clusters
    <3> HIDE DEF step
    <3> QED
      BY <1>1, <2>2, Zenon DEF Clusters
  <2> HIDE DEF d, w, W, step
  <2>6. Quiet(n, d)
    <3>1. ~ AtStep(n, {"committing", "added"})
      BY <1>4, Zenon DEF AtStep, Running, Free
    <3>2. msgs' \subseteq Messages /\ AnswersInView
      BY <1>2, Zenon DEF TypeOK, AnswersInView
    <3>3. votes' \subseteq [type : {"prevote", "precommit"}, view : Views, node : Nodes]
      BY <2>1, <2>3, <2>4, Zenon DEF TypeOK
    <3>4. /\ \A r \in Nodes \ {n} : view'[r] = view[r]
          /\ view'[n] \in {view[n], view[n] + 1}
      BY <1>2, Zenon
    <3>5. crashed \subseteq crashed' /\ crashed' \subseteq Nodes
      BY <1>2, Zenon DEF TypeOK
    <3> QED
      BY <1>2, <2>1, <2>2, <3>1, <3>2, <3>3, <3>4, <3>5, Zenon DEF Quiet
  <2>7. /\ TypeOK' /\ StepOf(n) /\ DiskOK(n)' /\ KeepsDisk(n) /\ cluster'[n] = d /\ d # Down
        /\ \A S : AtStep(n, S)' <=> step \in S
    BY <2>2, <2>5, <2>6, QuietStep, ViewsAssumption, Zenon
  <2>8. /\ m.view >= 1 /\ Proposed(m.view) /\ m.ts = Append(committed[n], m.view)
        /\ commitView[n] < m.view
        /\ Len(safetyData[n]) = 1 => safetyData[n][1].view # m.view
    <3>1. /\ m.ts = Append(committed[n], Last(m.ts)) /\ Len(committed[n]) \in Nat
          /\ Len(committed[n]) > 0 => Last(committed[n]) < Last(m.ts)
      BY <1>1, <1>4, ExtendsGrows, NodeType, Zenon DEF Valid
    <3>2. /\ Last(m.ts) = m.view /\ m.view >= 1 /\ Proposed(m.view)
          /\ Len(safetyData[n]) = 1 => safetyData[n][1].view # m.view
      BY <1>1, Zenon DEF ProposalOK
    <3>3. commitView[n] < m.view
      BY <1>1, <3>1, <3>2, SMTT(30) DEF DiskOK, ChainOK
    <3> QED
      BY <3>1, <3>2, <3>3, Zenon
  <2>9. ClusterOK(n)'
    <3>1. Proposed(m.view)'
      BY <1>1, <2>7, <2>8, ProposedKept, Zenon
    <3>2. step = "prevoted" /\ Len(safetyData[n]) = 1 => safetyData[n][1].view < view[n]
      <4> DEFINE lock == safetyData[n][1].view
      <4>1. Len(safetyData[n]) = 1 => lock \in Nat /\ lock <= view[n] /\ lock # m.view
        BY <2>8, LockType, Zenon DEF DiskOK, LockOK
      <4> HIDE DEF lock
      <4>2. Len(safetyData[n]) = 1 /\ m.view = view[n] => lock < view[n]
        BY <1>1, <4>1
      <4> QED
        BY <2>4, <4>2, Zenon DEF lock
    <3>3. /\ \A S : AtStep(n, S)' <=> step \in S
          /\ (step = "prevoted" /\ m.view = view[n]) \/ step = "inert"
      BY <2>4, <2>7, Zenon
    <3>4. /\ ~ AtStep(n, Asking)' /\ ~ AtStep(n, {"precommitted"})'
          /\ ~ AtStep(n, {"committing", "added"})'
          /\ ~ AtStep(n, {"committing"})' /\ ~ AtStep(n, {"added"})'
      BY <3>3, Zenon DEF Asking
    <3>5. /\ AtStep(n, Asking \cup {"prevoted"})' => step = "prevoted"
          /\ AtStep(n, {"proposing", "prevoted", "precommitted", "committing"})' => step = "prevoted"
          /\ AtStep(n, Voting)' => step = "prevoted"
      BY <3>3, Zenon DEF Asking, Voting
    <3>6. /\ cluster'[n] # Down /\ cluster'[n].view = view[n] /\ cluster'[n].ts = m.ts
          /\ cluster'[n].step = step /\ view'[n] = view[n] /\ view[n] <= view[n]
      BY <1>2, <2>2, <2>7, SMTT(30)
    <3>7. step # "inert" => view[n] >= 1
      BY <2>8, <3>3, Zenon
    <3> QED
      BY <2>7, <2>8, <3>1, <3>2, <3>3, <3>4, <3>5, <3>6, <3>7, Zenon DEF ClusterOK, KeepsDisk
  <2>10. DeliveryOK(n)
    <3>1. AtStep(n, Voting)' => cluster'[n].view = m.view
      BY <2>2, <2>4, <2>7, Zenon DEF Voting
    <3>2. \A x \in votes' \ votes : view'[x.node] >= x.view
      BY <1>1, <1>2, <2>1, <2>3, <2>4
    <3>3. \A l \in msgs' : l \in msgs /\ (l.type = "proposal" /\ l.to = n => l.view # m.view)
      BY <1>1, <1>2, Zenon DEF ProposalOK
    <3> QED
      BY <1>2, <2>7, <3>1, <3>2, <3>3, Zenon DEF DeliveryOK, KeepsDisk
  <2> QED
    BY <2>7, <2>9, <2>10, OneNode, Zenon
<1> QED
  BY <1>3, <1>4, Zenon DEF HandleProposal

-----------------------------------------------------------------------------
(* Quorums.                                                                *)

LEMMA NodesFinite == IsFiniteSet(Nodes) /\ Cardinality(Nodes) <= Len(Order)
<1>1. Order \in Seq(Nodes) /\ Len(Order) \in Nat /\ DOMAIN Order = 1 .. Len(Order)
  BY ViewsAssumption
<1>2. IsFiniteSet(1 .. Len(Order)) /\ Cardinality(1 .. Len(Order)) = Len(Order)
  <2>1. Len(Order) \in Int /\ 1 \in Int
    BY <1>1
  <2>2. /\ IsFiniteSet(1 .. Len(Order))
        /\ Cardinality(1 .. Len(Order)) = IF 1 > Len(Order) THEN 0 ELSE Len(Order) - 1 + 1
    BY <2>1, FS_Interval, Zenon
  <2> QED
    BY <1>1, <2>2
<1>3. Order \in Surjection(1 .. Len(Order), Nodes)
  BY <1>1 DEF Surjection, Nodes, Range
<1> QED
  BY <1>2, <1>3, FS_Surjection

\* Two quorums share a node.
LEMMA QuorumsMeet ==
    ASSUME NEW V \in SUBSET Nodes, NEW W \in SUBSET Nodes,
           Cardinality(V) >= Quorum, Cardinality(W) >= Quorum
    PROVE  V \cap W # {}
<1>1. /\ IsFiniteSet(V) /\ IsFiniteSet(W) /\ IsFiniteSet(V \cup W)
      /\ Cardinality(V \cup W) <= Cardinality(Nodes)
  <2>1. V \cup W \in SUBSET Nodes
    BY Zenon
  <2> QED
    BY <2>1, NodesFinite, FS_Subset, Zenon
<1>2. Cardinality(V \cup W) = Cardinality(V) + Cardinality(W) - Cardinality(V \cap W)
  BY <1>1, FS_Union, Zenon
<1>3. /\ Cardinality(V) \in Nat /\ Cardinality(W) \in Nat
      /\ Cardinality(V \cup W) \in Nat /\ Cardinality(Nodes) \in Nat
  BY <1>1, NodesFinite, FS_CardinalityType, Zenon
<1>4. Len(Order) \in Nat /\ Quorum \in Nat /\ 2 * Quorum > Len(Order)
  <2>1. Len(Order) \in Nat
    BY ViewsAssumption
  <2> QED
    BY <2>1 DEF Quorum
<1>5. V \cap W = {} => Cardinality(V \cap W) = 0
  BY FS_EmptySet, Zenon
<1> QED
  BY <1>1, <1>2, <1>3, <1>4, <1>5, NodesFinite

\* The votes of one kind in one view are of as many nodes.
LEMMA VotersCount ==
    ASSUME NEW type, NEW v \in Views, NEW W \in SUBSET [type : {type}, view : {v}, node : Nodes]
    PROVE  Cardinality({w.node : w \in W}) = Cardinality(W)
<1> DEFINE V == {w.node : w \in W}
           f == [w \in W |-> w.node]
<1>1. \A w, x \in W : w.node = x.node => w = x
  OBVIOUS
<1>2. f \in Injection(W, V) /\ f \in Surjection(W, V)
  BY <1>1, Zenon DEF Injection, Surjection, IsInjective
<1>3. V \in SUBSET Nodes
  BY Zenon
<1>4. IsFiniteSet(V)
  BY <1>3, NodesFinite, FS_Subset, Zenon
<1> QED
  BY <1>2, <1>4, FS_Injection, Zenon

\* A quorum of votes of a view is cast by a quorum of nodes that have come to it.
LEMMA VotesQuorum ==
    ASSUME TypeOK, VotesOK, NEW v \in Views, NEW type,
           Cardinality({w \in votes : w.type = type /\ w.view = v}) >= Quorum
    PROVE  QuorumAt(v)
<1> DEFINE W == {w \in votes : w.type = type /\ w.view = v}
           V == {w.node : w \in W}
<1>1. \A w \in W : /\ w \in [type : {"prevote", "precommit"}, view : Views, node : Nodes]
                   /\ w.type = type /\ w.view = v /\ view[w.node] >= v /\ w.node \in Nodes
  BY Zenon DEF TypeOK, VotesOK
<1>2. W \in SUBSET [type : {type}, view : {v}, node : Nodes]
  BY <1>1, Zenon
<1>3. V \in SUBSET Nodes /\ \A r \in V : view[r] >= v
  BY <1>1, Zenon
<1>4. Cardinality(V) >= Quorum
  BY <1>2, VotersCount, Zenon
<1> QED
  BY <1>3, <1>4, Zenon DEF QuorumAt

\* A node with a PRECOMMIT certificate knows that a quorum has come to its view.
LEMMA CertQuorum ==
    ASSUME TypeOK, VotesOK, NEW n \in Nodes, cluster[n].view \in Views,
           HasCert(n, "precommit")
    PROVE  QuorumAt(cluster[n].view)
<1>1. CASE n = Operator(cluster[n].view)
  BY <1>1, VotesQuorum, Zenon DEF HasCert
<1>2. CASE n # Operator(cluster[n].view)
  BY <1>2, Zenon DEF HasCert, VotesOK
<1> QED
  BY <1>1, <1>2, Zenon

\* When a quorum has answered an operator, its own state is from an earlier view.
LEMMA AnsweredLater ==
    ASSUME TypeOK, NEW n \in Nodes, DiskOK(n), ClusterOK(n),
           AtStep(n, {"prepare"}), NEW m \in msgs, m.type = "prepared",
           m.view = cluster[n].view,
           Cardinality(cluster[n].responded \cup {m.from}) >= Quorum
    PROVE  commitView[n] < cluster[n].view
<1>1. commitView[n] \in Nat
  BY NodeType, Zenon
<1>2. PICK v \in Nat : v = cluster[n].view /\ v >= 1
  BY ClusterType, Zenon DEF AtStep, ClusterOK
<1>3. commitView[n] # v
  <2>1. ~ Proposed(v)
    BY <1>2, AskingFirst, Zenon DEF AtStep, Asking
  <2> QED
    BY <1>2, <2>1, NodeType DEF DiskOK, ChainOK
<1>4. ~ (commitView[n] > v)
  <2> SUFFICES ASSUME commitView[n] > v PROVE FALSE
    BY Zenon
  <2>1. QuorumSilent(n)
    BY <1>2, Zenon DEF ClusterOK, AskingOK, AtStep, Asking
  <2>2. PICK V \in SUBSET Nodes :
          /\ Cardinality(V) >= Quorum
          /\ \A r \in V : r \notin cluster[n].responded
          /\ m.from \notin V
    BY <2>1, Zenon DEF QuorumSilent
  <2>3. cluster[n].responded \cup {m.from} \in SUBSET Nodes
    BY MessageType, ClusterType, Zenon DEF TypeOK, AtStep
  <2>4. V \cap (cluster[n].responded \cup {m.from}) # {}
    BY <2>2, <2>3, QuorumsMeet, Zenon
  <2> QED
    BY <2>2, <2>4, Zenon
<1> QED
  BY <1>1, <1>2, <1>3, <1>4

-----------------------------------------------------------------------------
(* The steps.                                                              *)

LEMMA EnterCommitInv ==
    ASSUME ViewsInv, NEW n \in Nodes, EnterCommit(n)
    PROVE  ViewsInv'
<1> DEFINE P == proposalInfo[n] \ {cluster[n].ts}
           d == [cluster[n] EXCEPT !.step = "committing"]
<1>1. TypeOK /\ VotesOK /\ (AtStep(n, {"prevoted"}) \/ AtStep(n, {"precommitted"})) /\ Running(n)
  BY Zenon DEF EnterCommit, In, AtStep, Running, ViewsInv
<1>2. d # Down /\ crashed' \subseteq Nodes /\ QuorumAt(cluster[n].view)
  <2>1. d \in Clusters /\ cluster[n].view \in Views
    BY <1>1, ClusterType, SetStep, Zenon DEF Voting
  <2>2. QuorumAt(cluster[n].view)
    BY <1>1, <2>1, CertQuorum, Zenon DEF EnterCommit
  <2> QED
    BY <1>1, <2>1, <2>2, ViewsAssumption, Zenon DEF EnterCommit, TypeOK
<1>3. /\ cluster' = [cluster EXCEPT ![n] = d]
      /\ safetyData' = [safetyData EXCEPT ![n] = UpdateQc(safetyData[n], Certificate(n, "precommit"))]
      /\ proposalInfo' = [proposalInfo EXCEPT ![n] = P]
      /\ certs' \subseteq certs \cup {[type |-> "precommit", view |-> cluster[n].view]}
      /\ UNCHANGED <<view, committed, commitView, msgs, votes, crashed>>
  BY Zenon DEF EnterCommit, UpdateSafetyInfo, proposalsAfter, Certificate, SendCert
<1>4. P \in SUBSET (proposalInfo[n] \cup {cluster[n].ts})
  BY Zenon
<1> HIDE DEF P
<1> QED
  BY <1>1, <1>2, <1>3, <1>4, LockingInv, Zenon

\* The operator of a new view asks for the state of the others.  If its own state is from a
\* later view, a quorum is past this view, and nobody has answered in it.
StartICS(n, v, ixns) ==
    /\ v = view[n] + 1 /\ v <= MaxView /\ Operator(v) = n /\ cluster[n] \in {None, Down}
    /\ ixns \in Ixns(n, v)
    /\ view' = [view EXCEPT ![n] = v]
    /\ cluster' = [cluster EXCEPT ![n] = NewICS(n, v, ixns)]
    /\ msgs' = msgs \cup {[type |-> "prepare", view |-> v, to |-> m] : m \in Nodes \ {n}}
    /\ UNCHANGED <<disk, votes, certs, crashed>>

LEMMA NewICSInv ==
    ASSUME ViewsInv, NEW n \in Nodes, NEW v, NEW ixns, StartICS(n, v, ixns)
    PROVE  ViewsInv'
<1> TypeOK /\ DiskOK(n)
  BY Zenon DEF ViewsInv
<1> DEFINE d == NewICS(n, v, ixns)
<1>1. view[n] \in Nat /\ v \in Views /\ v \in Nat /\ v >= 1 /\ v > view[n] /\ Operator(v) = n
  BY NodeType, ViewsAssumption DEF Views, StartICS
<1>2. PICK info \in Seq(Qcs) : info = ViewInfo(n) /\ Len(info) = 1
  BY ViewInfoOne, Zenon DEF DiskOK, LockOK
<1>3. /\ ixns = Fresh \/ ixns \in FailedViewTS(n)
      /\ ixns \in Tesseracts \cup {Fresh}
  BY Zenon DEF Ixns, FailedViewTS, TypeOK, StartICS
<1>4. d = [view |-> v, ixns |-> ixns, local |-> info, highest |-> info,
           responded |-> {n}, ts |-> None, step |-> "prepare"]
  BY <1>2, Zenon DEF NewICS
<1>5. /\ d.view = v /\ d.ixns = ixns /\ d.local = info /\ d.highest = info
      /\ d.responded = {n} /\ d.step = "prepare"
  BY <1>4
<1>6. d \in Clusters
  BY <1>1, <1>2, <1>3, <1>4 DEF Clusters, Asking
<1>7. cluster' = [cluster EXCEPT ![n] = d]
  BY Zenon DEF StartICS
<1> HIDE DEF d
<1>8. /\ view' \in [Nodes -> Views] /\ view'[n] = v /\ v = view[n] + 1
      /\ \A r \in Nodes \ {n} : view'[r] = view[r]
      /\ UNCHANGED <<disk, votes, certs, crashed>>
  BY <1>1, Zenon DEF TypeOK, StartICS
<1>9. \A l \in msgs' \ msgs : l \in Messages /\ l.type = "prepare" /\ l.view = v
  BY <1>1 DEF Messages, StartICS
<1>10. Quiet(n, d)
  <2>1. ~ AtStep(n, {"committing", "added"})
    BY Zenon DEF AtStep, Running, StartICS
  <2>2. msgs' \subseteq Messages /\ AnswersInView
    BY <1>9, Zenon DEF TypeOK, AnswersInView
  <2> QED
    BY <1>1, <1>5, <1>7, <1>8, <2>1, <2>2, Zenon DEF TypeOK, Quiet
<1>11. /\ TypeOK' /\ StepOf(n) /\ DiskOK(n)' /\ KeepsDisk(n) /\ cluster'[n] = d /\ d # Down
       /\ \A S : AtStep(n, S)' <=> "prepare" \in S
  <2>1. d # Down
    BY <1>6, ViewsAssumption, Zenon
  <2> QED
    BY <1>5, <1>6, <1>10, <2>1, QuietStep
<1>12. ASSUME commitView[n] > v PROVE QuorumSilent(n)'
  <2>1. commitView[n] \in Nat /\ Len(committed[n]) \in Nat
    BY NodeType, Zenon
  <2>2. QuorumAt(commitView[n])
    BY <1>1, <1>12, <2>1 DEF DiskOK, ChainOK
  <2>3. PICK V \in SUBSET Nodes : Cardinality(V) >= Quorum /\ \A r \in V : view[r] >= commitView[n]
    BY <2>2, Zenon DEF QuorumAt
  <2>4. \A r \in V : view[r] \in Nat /\ view[r] > v
    BY <1>1, <1>12, <2>1, <2>3, NodeType
  <2>5. n \notin V
    BY <1>1, <2>4
  <2>6. \A r \in V : view'[r] > v /\ r \notin d.responded
    BY <1>5, <1>8, <2>4, <2>5, Zenon
  <2>7. ASSUME NEW l \in msgs', l.type = "prepared" PROVE l.view # v
    <3>1. l \in msgs
      BY <1>9, <2>7, Zenon
    <3>2. view[Operator(l.view)] >= l.view
      BY <2>7, <3>1, Zenon DEF ViewsInv, MsgOK
    <3> QED
      BY <1>1, <3>2
  <2> QED
    BY <1>5, <1>11, <2>3, <2>6, <2>7, Zenon DEF QuorumSilent
<1>13. ClusterOK(n)'
  <2>1. ViewInfo(n)' = info /\ FailedViewTS(n)' = FailedViewTS(n)
    BY <1>2, <1>11, Zenon DEF ViewInfo, FailedViewTS, KeepsDisk
  <2>2. AskingOK(n)'
    BY <1>1, <1>2, <1>3, <1>5, <1>11, <1>12, <2>1, Zenon DEF AskingOK, KeepsDisk
  <2>3. Len(safetyData[n]) = 1 => safetyData[n][1].view < v
    BY <1>1, LockType, SMTT(30) DEF DiskOK, LockOK
  <2> QED
    BY <1>1, <1>5, <1>8, <1>11, <2>2, <2>3, SMTT(30) DEF ClusterOK, KeepsDisk, Asking, Voting
<1>14. DeliveryOK(n)
  <2>1. \A l \in msgs' \ msgs : MsgOK(l)'
    BY <1>1, <1>8, <1>9 DEF MsgOK
  <2> QED
    BY <1>8, <1>9, <1>11, <2>1, Zenon DEF DeliveryOK, KeepsDisk, Voting
<1> QED
  BY <1>11, <1>13, <1>14, OneNode, Zenon

\* A view tick that starts nothing.
LEMMA IdleTickInv ==
    ASSUME ViewsInv, NEW n \in Nodes, view[n] + 1 <= MaxView,
           view' = [view EXCEPT ![n] = view[n] + 1],
           cluster' = [cluster EXCEPT ![n] = IF cluster[n] = Down THEN None ELSE cluster[n]],
           UNCHANGED <<disk, msgs, votes, certs, crashed>>
    PROVE  ViewsInv'
<1>1. TypeOK /\ view[n] + 1 \in Views
  BY NodeType, ViewsAssumption DEF ViewsInv, Views
<1>2. /\ view' \in [Nodes -> Views] /\ view'[n] = view[n] + 1
      /\ \A r \in Nodes \ {n} : view'[r] = view[r]
  BY <1>1, Zenon DEF TypeOK
<1>3. CASE cluster[n] = Down
  <2>1. cluster' = [cluster EXCEPT ![n] = None] /\ ~ AtStep(n, {"committing", "added"})
    BY <1>3, Zenon DEF AtStep, Running
  <2>2. Quiet(n, None)
    BY <1>1, <1>2, <2>1, ViewsAssumption, Zenon DEF TypeOK, AnswersInView, Quiet
  <2> QED
    BY <2>2, NoCluster, ViewsAssumption, Zenon
<1>4. CASE cluster[n] # Down
  <2>1. cluster' = cluster
    BY <1>1, <1>4, Zenon DEF TypeOK
  <2> QED
    BY <1>2, <2>1, SameCluster, Zenon
<1> QED
  BY <1>3, <1>4, Zenon

LEMMA TickInv ==
    ASSUME ViewsInv, NEW n \in Nodes, Tick(n)
    PROVE  ViewsInv'
<1>1. CASE /\ Operator(view[n] + 1) = n /\ cluster[n] \in {None, Down}
           /\ \E ixns \in Ixns(n, view[n] + 1) :
                cluster' = [cluster EXCEPT ![n] = NewICS(n, view[n] + 1, ixns)]
           /\ msgs' = msgs \cup {[type |-> "prepare", view |-> view[n] + 1, to |-> m] : m \in Nodes \ {n}}
  <2>1. \E ixns : StartICS(n, view[n] + 1, ixns)
    BY <1>1, Zenon DEF Tick, StartICS
  <2> QED
    BY <2>1, NewICSInv, Zenon
<1>2. CASE /\ cluster' = [cluster EXCEPT ![n] = IF @ = Down THEN None ELSE @]
           /\ UNCHANGED msgs
  <2>1. /\ view[n] + 1 <= MaxView /\ view' = [view EXCEPT ![n] = view[n] + 1]
        /\ UNCHANGED <<disk, votes, certs, crashed>>
    BY Zenon DEF Tick
  <2> QED
    BY <1>2, <2>1, IdleTickInv, Zenon
<1> QED
  BY <1>1, <1>2, Zenon DEF Tick

\* An operator that goes on collecting answers, gives up, or makes its proposal.
Collects(n, m, e) ==
    /\ m.type = "prepared" /\ m.view = cluster[n].view
    /\ e.view = cluster[n].view /\ e.local = cluster[n].local /\ e.ixns = cluster[n].ixns
    /\ e.highest \in Seq(Qcs) /\ Len(e.highest) = 1 /\ e.step \in Asking
    /\ e.step = "prepare" =>
          cluster[n].step = "prepare" /\ e.responded = cluster[n].responded \cup {m.from}
    /\ e.step = "proposing" =>
          e.ts = Append(committed[n], cluster[n].view) /\ commitView[n] < cluster[n].view
    /\ cluster' = [cluster EXCEPT ![n] = e]
    /\ msgs' = msgs \ {m}
    /\ UNCHANGED <<view, disk, votes, certs, crashed>>

LEMMA AskingInv ==
    ASSUME ViewsInv, NEW n \in Nodes, NEW m \in msgs, NEW e \in Clusters,
           AtStep(n, Asking), Collects(n, m, e)
    PROVE  ViewsInv'
<1> TypeOK /\ ClusterOK(n) /\ AskingOK(n) /\ Running(n)
  BY Zenon DEF ViewsInv, ClusterOK, AtStep
<1>1. PICK v \in Views :
          /\ v = cluster[n].view /\ v \in Nat /\ v <= view[n] /\ v >= 1 /\ n = Operator(v)
          /\ Len(safetyData[n]) = 1 => safetyData[n][1].view < v
  BY ClusterType, Zenon DEF AtStep, ClusterOK, AskingOK, Asking
<1>2. ~ AtStep(n, {"committing", "added"}) /\ e.step \notin Voting /\ e.view = v
  <2>1. cluster[n].step \in Asking /\ e.step \in Asking /\ e.view = v
    BY <1>1, Zenon DEF AtStep, Collects
  <2> QED
    BY <2>1, Zenon DEF AtStep, Asking, Voting
<1>3. Quiet(n, e)
  BY <1>1, <1>2, Zenon DEF TypeOK, AnswersInView, Quiet, Collects
<1>4. /\ TypeOK' /\ StepOf(n) /\ DiskOK(n)' /\ KeepsDisk(n) /\ cluster'[n] = e /\ e # Down
      /\ \A S : AtStep(n, S)' <=> e.step \in S
  BY <1>3, QuietStep, ViewsAssumption, Zenon
<1>5. ASSUME e.step = "prepare", commitView[n] > v PROVE QuorumSilent(n)'
  <2>1. PICK V \in SUBSET Nodes :
          /\ Cardinality(V) >= Quorum
          /\ \A r \in V : view[r] > v /\ r \notin cluster[n].responded
          /\ \A l \in msgs : l.type = "prepared" /\ l.view = v => l.from \notin V
    BY <1>1, <1>5, Zenon DEF AskingOK, QuorumSilent, Collects
  <2>2. /\ \A r \in V : view'[r] > v /\ r \notin e.responded
        /\ \A l \in msgs' : l.type = "prepared" /\ l.view = v => l.from \notin V
    BY <1>1, <1>5, <2>1, Zenon DEF Collects
  <2> QED
    BY <1>2, <1>4, <2>1, <2>2, Zenon DEF QuorumSilent
<1>6. AskingOK(n)'
  <2>1. ViewInfo(n)' = ViewInfo(n) /\ FailedViewTS(n)' = FailedViewTS(n)
    BY <1>4, Zenon DEF ViewInfo, FailedViewTS, KeepsDisk
  <2> QED
    BY <1>1, <1>4, <1>5, <2>1, ZenonT(30) DEF AskingOK, KeepsDisk, Collects
<1>7. ClusterOK(n)'
  BY <1>1, <1>2, <1>4, <1>6, Zenon DEF ClusterOK, KeepsDisk, Asking, Collects
<1>8. DeliveryOK(n)
  BY <1>2, <1>4, Zenon DEF DeliveryOK, KeepsDisk, Collects
<1> QED
  BY <1>4, <1>7, <1>8, OneNode, Zenon

\* An operator that works on a locked tesseract is locked at its height, so no certificate is
\* one height above its own for that tesseract.
LEMMA NeverPanicsOnLock ==
    ASSUME ViewsInv, NEW n \in Nodes, AtStep(n, Asking), NEW h \in Seq(Qcs), Len(h) = 1,
           LockedTS(h, cluster[n].local) # {}
    PROVE  LockMismatch(n, LockedTS(h, cluster[n].local))
<1>1. TypeOK /\ DiskOK(n) /\ ClusterOK(n)
  BY Zenon DEF ViewsInv
<1>2. /\ cluster[n].local = ViewInfo(n)
      /\ cluster[n].ixns # Fresh => cluster[n].ixns \in FailedViewTS(n)
  BY <1>1, Zenon DEF ClusterOK, AskingOK
<1>3. h[1] \in Qcs
  BY OnlyElement, Zenon
<1>4. PICK t \in Tesseracts : t = h[1].ts
  BY <1>3, QcView, Zenon
<1>5. LockedTS(h, cluster[n].local) = {t} /\ Len(t) - Len(cluster[n].local[1].ts) = 1
  BY <1>4, Zenon DEF LockedTS
<1>6. ASSUME t = cluster[n].ixns PROVE FALSE
  <2>1. t \in proposalInfo[n] /\ Len(t) > Len(committed[n])
    BY <1>2, <1>6, ViewsAssumption, Zenon DEF FailedViewTS
  <2>2. Len(t) \in Nat /\ Len(committed[n]) \in Nat
    BY <1>1, NodeType DEF Tesseracts
  <2>3. Len(t) <= Len(committed[n]) + 1
    BY <1>1, <2>1, Zenon DEF DiskOK, StoreOK
  <2>4. Len(safetyData[n]) = 1 /\ Len(safetyData[n][1].ts) = Len(t)
    BY <1>1, <2>1, <2>2, <2>3 DEF DiskOK, StoreOK
  <2>5. ViewInfo(n) = safetyData[n]
    BY <1>1, <2>4, ViewInfoOne, Zenon
  <2> QED
    BY <1>2, <1>5, <2>2, <2>4, <2>5
<1> QED
  BY <1>5, <1>6, Zenon DEF LockMismatch

LEMMA HandlePreparedInv ==
    ASSUME ViewsInv, NEW n \in Nodes, NEW m \in msgs, HandlePrepared(n, m)
    PROVE  ViewsInv'
<1> TypeOK /\ DiskOK(n) /\ ClusterOK(n) /\ m \in Messages /\ MsgOK(m) /\ AtStep(n, Asking)
  BY Zenon DEF ViewsInv, TypeOK, HandlePrepared, In, AtStep, Running, Asking
<1> DEFINE c == cluster[n]
           h == IF Higher(m.info, c.highest) THEN m.info ELSE c.highest
           d == [c EXCEPT !.highest = h, !.responded = @ \cup {m.from}]
<1>2. /\ m.type = "prepared" /\ m.view = c.view /\ view[n] = c.view
      /\ m.from \in Nodes /\ m.info \in Seq(Qcs) /\ Len(m.info) = 1
      /\ c.step \in {"prepare", "proposing"}
  BY MessageType, Zenon DEF HandlePrepared, MsgOK, In
<1>3. c \in Clusters /\ c.view \in Views /\ c.responded \in SUBSET Nodes
  BY ClusterType, Zenon DEF AtStep
<1>4. h \in Seq(Qcs) /\ Len(h) = 1
  BY <1>2, Zenon DEF ClusterOK, AskingOK
<1>5. /\ cluster' = [cluster EXCEPT ![n] =
            IF c.step = "prepare" /\ Cardinality(d.responded) >= Quorum THEN AfterQuorum(n, d) ELSE d]
      /\ msgs' = msgs \ {m} /\ UNCHANGED <<view, disk, votes, certs, crashed>>
  BY Zenon DEF HandlePrepared
<1> HIDE DEF h
<1>6. /\ d \in Clusters /\ d.view = c.view /\ d.local = c.local /\ d.ixns = c.ixns
      /\ d.highest = h /\ d.responded = c.responded \cup {m.from} /\ d.step = c.step /\ d.ts = c.ts
  BY <1>2, <1>3, <1>4, Zenon DEF Clusters
<1> HIDE DEF d
<1>7. CASE ~ (c.step = "prepare" /\ Cardinality(d.responded) >= Quorum)
  <2>1. cluster' = [cluster EXCEPT ![n] = d]
    BY <1>5, <1>7, Zenon
  <2>2. c.step = "proposing" => d.ts = Append(committed[n], c.view) /\ commitView[n] < c.view
    BY <1>6, Zenon DEF ClusterOK, AtStep
  <2>3. d.step \in Asking
    BY <1>2, <1>6, Zenon DEF Asking
  <2>4. Collects(n, m, d)
    BY <1>2, <1>4, <1>5, <1>6, <2>1, <2>2, <2>3, Zenon DEF Collects
  <2> QED
    BY <1>6, <2>4, AskingInv, Zenon
<1>8. CASE c.step = "prepare" /\ Cardinality(d.responded) >= Quorum
  <2>1. cluster' = [cluster EXCEPT ![n] = AfterQuorum(n, d)]
    BY <1>5, <1>8, Zenon
  <2>2. commitView[n] < c.view
    BY <1>2, <1>6, <1>8, AnsweredLater, Zenon DEF AtStep
  <2> DEFINE L == LockedTS(h, c.local)
             stuck == [d EXCEPT !.step = "stuck"]
             next == [d EXCEPT !.step = "proposing", !.ts = Append(committed[n], c.view)]
  <2>3. AfterQuorum(n, d) = IF MustGiveUp(n, h, c.local) \/ LockMismatch(n, L) THEN stuck
                            ELSE IF L # {} THEN Down
                            ELSE [d EXCEPT !.step = "proposing", !.ts = createProposalTS(n, L)]
    BY <1>6, Zenon DEF AfterQuorum
  <2>4. L # {} => LockMismatch(n, L)
    BY <1>4, NeverPanicsOnLock, Zenon
  <2>5. L = {} => createProposalTS(n, L) = Append(committed[n], c.view)
    BY <1>2, Zenon DEF createProposalTS
  <2> HIDE DEF L
  <2>6. AfterQuorum(n, d) = stuck \/ AfterQuorum(n, d) = next
    BY <2>3, <2>4, <2>5, Zenon
  <2>7. CASE AfterQuorum(n, d) = stuck
    <3>1. /\ stuck \in Clusters /\ stuck.view = d.view /\ stuck.local = d.local /\ stuck.ixns = d.ixns
          /\ stuck.highest = d.highest /\ stuck.step = "stuck" /\ stuck.step \in Asking
      BY <1>6, Zenon DEF Clusters, Asking
    <3> HIDE DEF stuck
    <3>2. cluster' = [cluster EXCEPT ![n] = stuck] /\ stuck.step # "prepare" /\ stuck.step # "proposing"
      BY <2>1, <2>7, <3>1, Zenon
    <3>3. Collects(n, m, stuck)
      BY <1>2, <1>4, <1>5, <1>6, <3>1, <3>2, Zenon DEF Collects
    <3> QED
      BY <3>1, <3>3, AskingInv, Zenon
  <2>8. CASE AfterQuorum(n, d) = next
    <3>1. Append(committed[n], c.view) \in Tesseracts
      <4>1. /\ committed[n] \in Tesseracts /\ commitView[n] \in Nat /\ c.view \in Nat /\ MaxView \in Nat
            /\ c.view \in 1 .. MaxView
        BY <1>3, <2>2, NodeType, OperatorType, ViewsAssumption DEF Views
      <4>2. Len(committed[n]) > 0 => Last(committed[n]) < c.view
        BY <2>2, Zenon DEF DiskOK, ChainOK
      <4> QED
        BY <4>1, <4>2, AppendTesseract, Zenon
    <3>2. /\ next \in Clusters /\ next.view = d.view /\ next.local = d.local /\ next.ixns = d.ixns
          /\ next.highest = d.highest /\ next.step = "proposing" /\ next.step \in Asking
          /\ next.ts = Append(committed[n], c.view)
      BY <1>6, <3>1, Zenon DEF Clusters, Asking
    <3> HIDE DEF next
    <3>3. cluster' = [cluster EXCEPT ![n] = next] /\ next.step # "prepare"
      BY <2>1, <2>8, <3>2, Zenon
    <3>4. Collects(n, m, next)
      BY <1>2, <1>4, <1>5, <1>6, <2>2, <3>2, <3>3, Zenon DEF Collects
    <3> QED
      BY <3>2, <3>4, AskingInv, Zenon
  <2> QED
    BY <2>6, <2>7, <2>8, Zenon
<1> QED
  BY <1>7, <1>8, Zenon

LEMMA NextInv ==
    ASSUME ViewsInv, [Next]_vars
    PROVE  ViewsInv'
<1>1. CASE Next
  <2>1. ASSUME NEW n \in Nodes,
               \/ Tick(n) \/ Propose(n) \/ EnterPreCommit(n) \/ EnterCommit(n) \/ Finalize(n)
               \/ Timeout(n) \/ Crash(n) \/ CrashInUpdate(n)
        PROVE  ViewsInv'
    <3>1. Finalize(n) => ViewsInv'
      BY AddInv, DeleteInv, Zenon DEF Finalize
    <3> QED
      BY <2>1, <3>1, TickInv, ProposeInv, EnterPreCommitInv, EnterCommitInv, TimeoutInv,
         CrashInv, CrashInUpdateInv
  <2>2. ASSUME NEW n \in Nodes, NEW m \in msgs,
               HandlePrepare(n, m) \/ HandlePrepared(n, m) \/ HandleProposal(n, m)
        PROVE  ViewsInv'
    BY <2>2, HandlePrepareInv, HandlePreparedInv, HandleProposalInv, Zenon
  <2>3. ASSUME NEW n \in Nodes, NEW m \in Nodes, Sync(n, m) PROVE ViewsInv'
    BY <2>3, SyncInv, Zenon
  <2> QED
    BY <1>1, <2>1, <2>2, <2>3, Zenon DEF Next
<1>2. CASE UNCHANGED vars
  <2>1. PICK n \in Nodes : n = Operator(0)
    BY OperatorType, Zenon
  <2>2. UNCHANGED <<disk, cluster, votes, certs, crashed>> /\ view' = view /\ msgs' = msgs
    BY <1>2, Zenon DEF vars
  <2>3. view' \in [Nodes -> Views]
    BY <2>2, Zenon DEF ViewsInv, TypeOK
  <2> QED
    BY <2>2, <2>3, SameCluster, Zenon
<1> QED
  BY <1>1, <1>2, Zenon

-----------------------------------------------------------------------------
(* The theorems.                                                           *)

(***************************************************************************)
(* The inductive invariant holds, for every context set, every bound on    *)
(* the skew of the views and any number of crashes.                        *)
(***************************************************************************)
THEOREM ViewsCorrect == Spec => []ViewsInv
<1>1. Init => ViewsInv
  BY InitInv, Zenon
<1>2. ViewsInv /\ [Next]_vars => ViewsInv'
  BY NextInv, Zenon
<1> QED
  BY <1>1, <1>2, PTL DEF Spec

(***************************************************************************)
(* What is on disk, the clusters and the messages always have the types of *)
(* the code: in particular every tesseract that an operator makes is from  *)
(* a later view than its parent.                                           *)
(***************************************************************************)
THEOREM TypeCorrect == Spec => []TypeOK
<1>1. ViewsInv => TypeOK
  BY Zenon DEF ViewsInv
<1> QED
  BY <1>1, ViewsCorrect, PTL

(***************************************************************************)
(* UpdateSafetyInfo (safety.go) never leaves two certificates for an       *)
(* account: handlePrepared may decide by the first what updateHighestVI    *)
(* compared by the last.                                                   *)
(***************************************************************************)
THEOREM OneQcKeptCorrect == Spec => []OneQcKept
<1>1. ViewsInv => OneQcKept
  <2>1. ASSUME ViewsInv, NEW n \in Nodes PROVE Len(safetyData[n]) <= 1
    <3>1. Len(safetyData[n]) \in {0, 1}
      BY <2>1, Zenon DEF ViewsInv, DiskOK, LockOK
    <3>2. \A k \in {0, 1} : k <= 1
      OBVIOUS
    <3> QED
      BY <3>1, <3>2, Zenon
  <2> QED
    BY <2>1, Zenon DEF OneQcKept
<1> QED
  BY <1>1, ViewsCorrect, PTL

(***************************************************************************)
(* A node goes down only by a crash: handlePrepared never starts the BFT   *)
(* without a vote set, since an operator that works on a locked tesseract  *)
(* holds a certificate of its height.                                      *)
(***************************************************************************)
THEOREM PanicFreeCorrect == Spec => []PanicFree
<1>1. ViewsInv => PanicFree
  BY Zenon DEF ViewsInv, ClusterOK, PanicFree
<1> QED
  BY <1>1, ViewsCorrect, PTL

(***************************************************************************)
(* Outside a commit and unless it has crashed, a node has the tesseract of *)
(* the certificate it reports: getTS finds it in the lattice or among the  *)
(* stored proposals.                                                       *)
(***************************************************************************)
THEOREM OwnLockResolvesCorrect == Spec => []OwnLockResolves
<1>1. ASSUME ViewsInv, NEW n \in Nodes \ crashed, ~ In(n, "committing")
      PROVE  HasTS(n, Last(ViewInfo(n)).ts)
  <2>1. TypeOK /\ DiskOK(n) /\ ClusterOK(n) /\ Len(safetyData[n]) \in {0, 1}
    BY <1>1, Zenon DEF ViewsInv, DiskOK, LockOK
  <2>2. Last(ViewInfo(n)) = ViewInfo(n)[1]
    BY <2>1, ViewInfoOne, Zenon
  <2>3. IsPrefix(committed[n], committed[n])
    BY <2>1, NodeType DEF IsPrefix
  <2>4. CASE Len(safetyData[n]) = 0
    <3>1. ViewInfo(n)[1].ts = committed[n]
      BY <2>1, <2>4, ViewInfoOne, Zenon
    <3> QED
      BY <2>2, <2>3, <3>1, Zenon DEF HasTS
  <2>5. CASE Len(safetyData[n]) = 1
    <3>1. ViewInfo(n) = safetyData[n]
      BY <2>1, <2>5, ViewInfoOne, Zenon
    <3>2. CASE safetyData[n][1].ts \in proposalInfo[n]
      BY <2>2, <3>1, <3>2, Zenon DEF HasTS
    <3>3. CASE AtStep(n, {"committing", "added"})
      <4>1. AtStep(n, {"added"})
        BY <1>1, <3>3, Zenon DEF AtStep, Running, In
      <4>2. safetyData[n][1].ts = committed[n]
        BY <2>1, <3>3, <4>1, SMTT(30) DEF AtStep, ClusterOK, Holds, Certificate
      <4> QED
        BY <2>2, <2>3, <3>1, <4>2, Zenon DEF HasTS
    <3> QED
      BY <1>1, <2>1, <2>5, <3>2, <3>3, Zenon DEF DiskOK, StoreOK
  <2> QED
    BY <2>1, <2>4, <2>5, Zenon
<1>2. ViewsInv => OwnLockResolves
  BY <1>1, Zenon DEF OwnLockResolves
<1> QED
  BY <1>2, ViewsCorrect, PTL

\* The view a node reports is that of its certificate, or that of its latest tesseract.
Reported(n) ==
    /\ LastView(ViewInfo(n)) \in Nat
    /\ Len(safetyData[n]) \in {0, 1}
    /\ Len(safetyData[n]) = 1 => LastView(ViewInfo(n)) = safetyData[n][1].view
    /\ Len(safetyData[n]) = 0 => LastView(ViewInfo(n)) = commitView[n]

AllReported == \A n \in Nodes : Reported(n)

LEMMA ReportedView == ViewsInv => AllReported
<1> SUFFICES ASSUME ViewsInv, NEW n \in Nodes PROVE Reported(n)
  BY Zenon DEF AllReported
<1>1. TypeOK /\ Len(safetyData[n]) \in {0, 1}
  BY Zenon DEF ViewsInv, DiskOK, LockOK
<1>2. PICK info \in Seq(Qcs) : info = ViewInfo(n) /\ Len(info) = 1 /\ Last(info) = info[1]
  BY <1>1, ViewInfoOne, Zenon
<1>3. info[1] \in Qcs
  BY <1>2, OnlyElement, Zenon
<1>4. LastView(ViewInfo(n)) = info[1].view /\ info[1].view \in Nat
  BY <1>2, <1>3, QcView, Zenon DEF LastView
<1> QED
  BY <1>1, <1>2, <1>4, ViewInfoOne, Zenon DEF Reported

LEMMA ReportedNext ==
    ASSUME ViewsInv, ViewsInv', NEW n \in Nodes
    PROVE  Reported(n) /\ Reported(n)'
<1>1. ViewsInv' => AllReported'
  BY ReportedView, PTL
<1> QED
  BY <1>1, ReportedView, Zenon DEF AllReported

\* A node that locks reports the view of its cluster, which is not before the one it reported.
LEMMA LockingReport ==
    ASSUME ViewsInv, ViewsInv', NEW n \in Nodes, NEW type \in {"prevote", "precommit"},
           AtStep(n, {"prevoted"}) \/ (AtStep(n, {"precommitted"}) /\ type = "precommit"),
           safetyData' = [safetyData EXCEPT ![n] = UpdateQc(@, Certificate(n, type))]
    PROVE  LastView(ViewInfo(n)) <= LastView(ViewInfo(n)')
<1> TypeOK /\ DiskOK(n) /\ ClusterOK(n) /\ Reported(n) /\ Reported(n)'
  BY ReportedNext, Zenon DEF ViewsInv
<1>1. PICK v \in Nat : v = cluster[n].view
  BY ClusterType, Zenon DEF AtStep
<1>2. LastView(ViewInfo(n)') = v
  <2>1. safetyData'[n] = UpdateQc(safetyData[n], Certificate(n, type))
    BY Zenon DEF TypeOK
  <2>2. Len(safetyData'[n]) = 1 /\ safetyData'[n][1] = Certificate(n, type)
    BY <2>1, LockTaken, Zenon
  <2> QED
    BY <1>1, <2>2, SMTT(30) DEF Certificate, Reported
<1>3. PICK u \in Nat : u = LastView(ViewInfo(n))
  BY Zenon DEF Reported
<1>4. u <= v
  <2>1. CASE Len(safetyData[n]) = 0
    <3>1. u = commitView[n] /\ commitView[n] < v
      BY <1>1, <1>3, <2>1, Zenon DEF ClusterOK, AtStep, Reported
    <3> QED
      BY <3>1, NodeType, SMTT(30)
  <2>2. CASE Len(safetyData[n]) = 1
    <3>1. u = safetyData[n][1].view
      BY <1>3, <2>2, Zenon DEF Reported
    <3>2. CASE AtStep(n, {"prevoted"})
      <4>1. AtStep(n, Asking \cup {"prevoted"})
        BY <3>2, Zenon DEF AtStep
      <4>2. u < v
        BY <1>1, <2>2, <3>1, <4>1, Zenon DEF ClusterOK
      <4> QED
        BY <4>2
    <3>3. CASE AtStep(n, {"precommitted"})
      <4>1. Holds(n, "prevote")
        BY <3>3, Zenon DEF ClusterOK
      <4> QED
        BY <1>1, <2>2, <3>1, <4>1, SMTT(30) DEF Holds, Certificate
    <3> QED
      BY <3>2, <3>3, Zenon
  <2> QED
    BY <2>1, <2>2, Zenon DEF Reported
<1> QED
  BY <1>2, <1>3, <1>4, Zenon

LEMMA ReportGrows ==
    ASSUME ViewsInv, ViewsInv', [Next]_vars, NEW r \in Nodes
    PROVE  LastView(ViewInfo(r)) <= LastView(ViewInfo(r)')
<1> DEFINE Grows == LastView(ViewInfo(r)) <= LastView(ViewInfo(r)')
<1> TypeOK /\ DiskOK(r) /\ ClusterOK(r) /\ Reported(r) /\ Reported(r)'
  BY ReportedNext, Zenon DEF ViewsInv
<1>1. ASSUME UNCHANGED <<committed[r], commitView[r], safetyData[r]>> PROVE Grows
  <2>1. ViewInfo(r)' = ViewInfo(r)
    BY <1>1, Zenon DEF ViewInfo
  <2> QED
    BY <2>1 DEF Reported
<1>2. ASSUME UNCHANGED <<committed, commitView, safetyData>> PROVE Grows
  BY <1>1, <1>2, Zenon
<1>3. ASSUME NEW n \in Nodes, NEW type \in {"prevote", "precommit"},
             AtStep(n, {"prevoted"}) \/ (AtStep(n, {"precommitted"}) /\ type = "precommit"),
             safetyData' = [safetyData EXCEPT ![n] = UpdateQc(@, Certificate(n, type))],
             UNCHANGED <<committed, commitView>>
      PROVE  Grows
  <2>1. CASE n # r
    BY <1>1, <1>3, <2>1, Zenon DEF TypeOK
  <2>2. CASE n = r
    BY <1>3, <2>2, LockingReport, Zenon
  <2> QED
    BY <2>1, <2>2, Zenon
<1>4. ASSUME NEW n \in Nodes, EnterPreCommit(n) \/ CrashInUpdate(n) PROVE Grows
  <2>1. AtStep(n, {"prevoted"}) /\ UNCHANGED <<committed, commitView>>
        /\ safetyData' = [safetyData EXCEPT ![n] = UpdateQc(@, Certificate(n, "prevote"))]
    BY <1>4, Zenon DEF EnterPreCommit, CrashInUpdate, MayCrash, UpdateSafetyInfo, In, AtStep, Running
  <2> QED
    BY <1>3, <2>1, Zenon
<1>5. ASSUME NEW n \in Nodes, EnterCommit(n) PROVE Grows
  <2>1. /\ AtStep(n, {"prevoted"}) \/ AtStep(n, {"precommitted"})
        /\ UNCHANGED <<committed, commitView>>
        /\ safetyData' = [safetyData EXCEPT ![n] = UpdateQc(@, Certificate(n, "precommit"))]
    BY <1>5, Zenon DEF EnterCommit, UpdateSafetyInfo, In, AtStep, Running
  <2> QED
    BY <1>3, <2>1, Zenon
<1>6. ASSUME NEW n \in Nodes, Finalize(n) PROVE Grows
  <2>1. CASE n # r
    BY <1>1, <1>6, <2>1, Zenon DEF Finalize, TypeOK
  <2>2. CASE n = r /\ In(r, "committing") /\ UNCHANGED safetyData
    <3>1. Len(safetyData[r]) = 1
      BY <2>2, Zenon DEF ClusterOK, Holds, In, AtStep, Running
    <3>2. LastView(ViewInfo(r)') = safetyData[r][1].view /\ LastView(ViewInfo(r)) = safetyData[r][1].view
      BY <2>2, <3>1, Zenon DEF Reported
    <3> QED
      BY <3>2, SMTT(20) DEF Reported
  <2>3. CASE /\ n = r /\ In(r, "added") /\ UNCHANGED commitView
             /\ safetyData' = [safetyData EXCEPT ![r] = <<>>]
    <3>1. Len(safetyData[r]) = 1 /\ safetyData[r][1].view = commitView[r]
      BY <2>3, SMTT(30) DEF ClusterOK, Holds, In, AtStep, Running, Certificate
    <3>2. Len(safetyData'[r]) = 0
      BY <2>3, Zenon DEF TypeOK
    <3>3. LastView(ViewInfo(r)') = commitView[r] /\ LastView(ViewInfo(r)) = commitView[r]
      BY <2>3, <3>1, <3>2, Zenon DEF Reported
    <3> QED
      BY <3>3, SMTT(20) DEF Reported
  <2> QED
    BY <1>6, <2>1, <2>2, <2>3, Zenon DEF Finalize
<1>7. ASSUME NEW n \in Nodes, NEW m \in Nodes, Sync(n, m) PROVE Grows
  <2>1. CASE n # r
    BY <1>1, <1>7, <2>1, Zenon DEF Sync, TypeOK
  <2>2. CASE n = r
    <3>1. /\ safetyData'[r] = safetyData[r] /\ commitView'[r] = commitView[m]
          /\ Extends(committed[m], committed[r])
      BY <1>7, <2>2, Zenon DEF Sync, TypeOK
    <3>2. CASE Len(safetyData[r]) = 1
      BY <3>1, <3>2 DEF Reported
    <3>3. CASE Len(safetyData[r]) = 0
      <4>1. LastView(ViewInfo(r)) = commitView[r] /\ LastView(ViewInfo(r)') = commitView[m]
        BY <3>1, <3>3, Zenon DEF Reported
      <4>2. /\ Len(committed[m]) = Len(committed[r]) + 1
            /\ Len(committed[r]) > 0 => Last(committed[r]) < Last(committed[m])
        BY <3>1, ExtendsGrows, Zenon DEF TypeOK
      <4>3. /\ commitView[r] \in Nat /\ commitView[m] \in Nat
            /\ Len(committed[r]) \in Nat /\ Len(committed[m]) \in Nat
        BY NodeType, Zenon
      <4>4. ChainOK(r) /\ ChainOK(m)
        BY Zenon DEF ViewsInv, DiskOK
      <4>5. commitView[r] <= commitView[m]
        BY <4>2, <4>3, <4>4, SMTT(30) DEF ChainOK
      <4> QED
        BY <4>1, <4>5, Zenon
    <3> QED
      BY <3>2, <3>3, Zenon DEF Reported
  <2> QED
    BY <2>1, <2>2, Zenon
<1> HIDE DEF Grows
<1>8. ASSUME NEW n \in Nodes, Tick(n) \/ Propose(n) \/ Timeout(n) \/ Crash(n) PROVE Grows
  BY <1>2, <1>8, Zenon DEF Tick, Propose, Timeout, Crash, MayCrash, disk
<1>9. ASSUME NEW n \in Nodes, NEW m \in msgs,
              HandlePrepare(n, m) \/ HandlePrepared(n, m) \/ HandleProposal(n, m)
       PROVE  Grows
  BY <1>2, <1>9, Zenon DEF HandlePrepare, HandlePrepared, HandleProposal, disk
<1>10. ASSUME UNCHANGED vars PROVE Grows
  BY <1>2, <1>10, Zenon DEF vars, disk
<1>11. Grows
  BY <1>4, <1>5, <1>6, <1>7, <1>8, <1>9, <1>10, Zenon DEF Next
<1> QED
  BY <1>11, Zenon DEF Grows

(***************************************************************************)
(* The view that loadViewInfo reports for the account never goes back: not *)
(* when a lock is replaced, when the safety data is deleted after the      *)
(* tesseract is added, when a tesseract is synced, nor in a crash.         *)
(***************************************************************************)
THEOREM LockMonotoneCorrect == Spec => LockMonotone
<1>1. ViewsInv /\ ViewsInv' /\ [Next]_vars =>
          [\A n \in Nodes : LastView(ViewInfo(n)) <= LastView(ViewInfo(n)')]_vars
  BY ReportGrows, Zenon
<1> QED
  BY <1>1, ViewsCorrect, PTL DEF Spec, LockMonotone

-----------------------------------------------------------------------------
(* Agreement across views.                                                 *)


(***************************************************************************)
(* The code loses agreement across views in two ways: an operator makes a  *)
(* new tesseract although the highest certificate it has seen is a lock    *)
(* (handlePrepared compares the heights of the lock and of its own         *)
(* certificate, which is that lock), and a node answers a PREPARE while a  *)
(* cluster of an earlier view can still lock the account (handlePrepare    *)
(* looks at no cluster).  The rules below forbid these two kinds of steps  *)
(* and nothing else.  What follows shows that agreement then holds: the    *)
(* model has no third way.                                                 *)
(***************************************************************************)

\* An operator makes a new tesseract only when the highest certificate is of a commit.
ProposesUnlocked ==
    \A n \in Nodes : AtStep(n, {"prepare"}) /\ AtStep(n, {"proposing"})' =>
        cluster'[n].highest[1].type = "precommit"

\* A node answers a PREPARE only when no cluster of it can still lock the account.
AnswersUnengaged ==
    \A m \in msgs' \ msgs : m.type = "prepared" => ~ AtStep(m.from, {"proposing", "prevoted"})

\* The operator of view v has made its tesseract of the view, or will make none.
Made(v) ==
    /\ view[Operator(v)] >= v
    /\ AtStep(Operator(v), {"prepare"}) => cluster[Operator(v)].view # v

\* Node r has come to view w and will lock in no earlier one.
Past(r, w) ==
    /\ view[r] >= w
    /\ AtStep(r, {"proposing", "prevoted"}) => cluster[r].view >= w

\* The view that a node reports.
Report(n) == LastView(ViewInfo(n))

\* Node r has precommitted in view v.
Precommits(r, v) == [type |-> "precommit", view |-> v, node |-> r] \in votes

\* A quorum has precommitted in view v.
Precommitted(v) ==
    \E V \in SUBSET Nodes : Cardinality(V) >= Quorum /\ \A r \in V : Precommits(r, v)

\* A quorum is past view v.
QuorumPast(v) ==
    \E V \in SUBSET Nodes : Cardinality(V) >= Quorum /\ \A r \in V : Past(r, v)

\* A quorum has not precommitted in view v and never will.
Refused(v) ==
    \E V \in SUBSET Nodes :
        Cardinality(V) >= Quorum /\ \A r \in V : Past(r, v + 1) /\ ~ Precommits(r, v)

\* Node r has told of its precommits before view w: none is later than view u.
Told(r, w, u) ==
    /\ Past(r, w)
    /\ \A v \in Views : v < w /\ Precommits(r, v) => v <= u

\* The certificate of a tesseract is from the view in which it was made.
ReportOK(q) == q.view > 0 => Len(q.ts) > 0 /\ Last(q.ts) = q.view

\* Node n has the tesseract t or a certificate of it, works on it, or has learnt of it.
SeenBy(n, t) ==
    \/ t = committed[n]
    \/ Len(safetyData[n]) = 1 /\ t = safetyData[n][1].ts
    \/ AtStep(n, {"proposing"} \cup Voting) /\ t = cluster[n].ts
    \/ AtStep(n, {"prepare"}) /\ t = cluster[n].highest[1].ts

\* Message m carries the tesseract t, or a certificate of it.
SeenIn(m, t) ==
    \/ m.type = "proposal" /\ t = m.ts
    \/ m.type = "prepared" /\ t = m.info[1].ts

Seen(t) == (\E n \in Nodes : SeenBy(n, t)) \/ (\E m \in msgs : SeenIn(m, t))

(***************************************************************************)
(* The invariant of agreement.  Whoever makes a tesseract has asked a      *)
(* quorum, which is past its view from then on.  There is one tesseract a  *)
(* view, and of two tesseracts the earlier one is an ancestor of the later *)
(* one, or a quorum has refused to lock in its view, so that it can never  *)
(* be committed.                                                           *)
(***************************************************************************)
SeenOK == \A t \in Tesseracts : Seen(t) /\ Len(t) > 0 => Made(Last(t)) /\ QuorumPast(Last(t))

ChainsOK ==
    \A s, t \in Tesseracts : Seen(s) /\ Seen(t) /\ Len(s) > 0 /\ Len(t) > 0 =>
        /\ Last(s) = Last(t) => s = t
        /\ Last(s) < Last(t) => IsPrefix(s, t) \/ Refused(Last(s))

\* A precommit is covered by the report of its node, a certificate is of a quorum.
LocksOK ==
    /\ \A r \in Nodes, v \in Views : Precommits(r, v) => Made(v) /\ v <= Report(r)
    /\ \A c \in certs : c.type = "precommit" => Precommitted(c.view)

\* What a node has committed was precommitted by a quorum; what it has stored it reports.
StateOK(n) ==
    /\ Len(committed[n]) > 0 => Precommitted(commitView[n])
    /\ AtStep(n, {"committing"}) => Precommitted(cluster[n].view)
    /\ Len(safetyData[n]) = 1 =>
          /\ ReportOK(safetyData[n][1])
          /\ safetyData[n][1].type = "precommit" => safetyData[n][1].ts \notin proposalInfo[n]
    /\ \A t \in proposalInfo[n] : Len(t) > 0 /\ Last(t) <= Report(n)

\* What an operator has collected covers the precommits of all that have answered it.
CollectOK(n) ==
    AtStep(n, {"prepare"}) =>
        /\ cluster[n].highest = ViewInfo(n) \/ cluster[n].highest[1].view > Report(n)
        /\ ReportOK(cluster[n].highest[1])
        /\ \A r \in cluster[n].responded : Told(r, cluster[n].view, cluster[n].highest[1].view)

\* So does an answer, of the node that gave it.
AnswerOK(m) ==
    m.type = "prepared" => ReportOK(m.info[1]) /\ Told(m.from, m.view, m.info[1].view)

AgreeInv ==
    /\ SeenOK /\ ChainsOK /\ LocksOK
    /\ \A n \in Nodes : StateOK(n) /\ CollectOK(n)
    /\ \A m \in msgs : AnswerOK(m)

-----------------------------------------------------------------------------
(* What no step undoes.                                                    *)

\* The steps of a cluster from which it may come to lock the account.
Engaged == {"proposing", "prevoted"}

\* How views, clusters and votes go on in a step.
Advances ==
    /\ \A r \in Nodes : view'[r] >= view[r]
    /\ \A r \in Nodes : AtStep(r, Engaged)' =>
          \/ AtStep(r, Engaged) /\ cluster'[r].view = cluster[r].view
          \/ cluster'[r].view = view[r]
    /\ \A r \in Nodes : AtStep(r, {"prepare"})' =>
          \/ AtStep(r, {"prepare"}) /\ cluster'[r].view = cluster[r].view
          \/ cluster'[r].view > view[r]
    /\ votes \subseteq votes'
    /\ \A r \in Nodes, v \in Views : Precommits(r, v)' =>
          \/ Precommits(r, v)
          \/ AtStep(r, {"prevoted"}) /\ cluster[r].view = v /\ Report(r)' = v

\* No step takes a node back, revives a refused view or makes a second tesseract in a view.
LEMMA PastKept ==
    ASSUME TypeOK, TypeOK', Advances, NEW r \in Nodes, NEW w \in Nat, Past(r, w)
    PROVE  Past(r, w)'
<1>1. view[r] \in Nat /\ view'[r] \in Nat /\ view'[r] >= view[r] /\ view[r] >= w
  BY OperatorType, Zenon DEF TypeOK, Advances, Past
<1>2. view'[r] >= w
  BY <1>1
<1>3. AtStep(r, Engaged)' => cluster'[r].view >= w
  BY <1>1, Zenon DEF Advances, Past, Engaged
<1> QED
  BY <1>2, <1>3, Zenon DEF Past, Engaged

\* A node that is past a view does not precommit in it any more.
LEMMA NoLateVote ==
    ASSUME TypeOK, TypeOK', Advances, NEW r \in Nodes, NEW v \in Views, NEW w \in Nat, v < w,
           Past(r, w), Precommits(r, v)'
    PROVE  Precommits(r, v)
<1>1. v \in Nat
  BY OperatorType, Zenon
<1>2. AtStep(r, {"prevoted"}) => AtStep(r, {"proposing", "prevoted"})
  BY Zenon DEF AtStep
<1>3. AtStep(r, {"prevoted"}) => cluster[r].view >= w
  BY <1>2, Zenon DEF Past
<1>4. ~ (v >= w)
  BY <1>1
<1> QED
  BY <1>3, <1>4, Zenon DEF Advances

LEMMA ToldKept ==
    ASSUME TypeOK, TypeOK', Advances, NEW r \in Nodes, NEW w \in Nat, NEW u, Told(r, w, u)
    PROVE  Told(r, w, u)'
<1>1. Past(r, w)'
  BY PastKept, Zenon DEF Told
<1>2. ASSUME NEW v \in Views, v < w, Precommits(r, v)' PROVE v <= u
  BY <1>2, NoLateVote, Zenon DEF Told
<1> QED
  BY <1>1, <1>2, Zenon DEF Told

LEMMA PrecommittedKept ==
    ASSUME Advances, NEW v, Precommitted(v)
    PROVE  Precommitted(v)'
BY Zenon DEF Advances, Precommitted, Precommits

LEMMA QuorumPastKept ==
    ASSUME TypeOK, TypeOK', Advances, NEW w \in Nat, QuorumPast(w)
    PROVE  QuorumPast(w)'
BY PastKept, Zenon DEF QuorumPast

LEMMA RefusedKept ==
    ASSUME TypeOK, TypeOK', Advances, NEW v \in Views, Refused(v)
    PROVE  Refused(v)'
<1>1. v \in Nat /\ v + 1 \in Nat /\ v < v + 1
  BY OperatorType
<1>2. PICK V \in SUBSET Nodes :
          Cardinality(V) >= Quorum /\ \A r \in V : Past(r, v + 1) /\ ~ Precommits(r, v)
  BY Zenon DEF Refused
<1>3. \A r \in V : Past(r, v + 1)' /\ ~ Precommits(r, v)'
  BY <1>1, <1>2, PastKept, NoLateVote, Zenon
<1> QED
  BY <1>2, <1>3, Zenon DEF Refused

LEMMA MadeKept ==
    ASSUME TypeOK, TypeOK', Advances, NEW v \in Views, Made(v)
    PROVE  Made(v)'
<1> DEFINE o == Operator(v)
<1>1. v \in Nat /\ o \in Nodes
  BY OperatorType, Zenon
<1>2. view[o] >= v /\ (AtStep(o, {"prepare"}) => cluster[o].view # v)
  BY Zenon DEF Made
<1> HIDE DEF o
<1>3. view[o] \in Nat /\ view'[o] \in Nat /\ view'[o] >= view[o]
  BY <1>1, OperatorType, Zenon DEF TypeOK, Advances
<1>4. view'[o] >= v /\ ~ (v > view[o])
  BY <1>1, <1>2, <1>3
<1>5. AtStep(o, {"prepare"})' => cluster'[o].view # v
  BY <1>1, <1>2, <1>4, Zenon DEF Advances
<1> QED
  BY <1>4, <1>5, Zenon DEF Made, o

\* A quorum that has precommitted in a view has not refused it.
LEMMA NotRefused ==
    ASSUME NEW v, Precommitted(v), Refused(v)
    PROVE  FALSE
<1>1. PICK V \in SUBSET Nodes : Cardinality(V) >= Quorum /\ \A r \in V : Precommits(r, v)
  BY Zenon DEF Precommitted
<1>2. PICK W \in SUBSET Nodes : Cardinality(W) >= Quorum /\ \A r \in W : ~ Precommits(r, v)
  BY Zenon DEF Refused
<1> QED
  BY <1>1, <1>2, QuorumsMeet, Zenon

\* The last view of a tesseract is a view.
LEMMA LastIsView ==
    ASSUME NEW t \in Tesseracts, Len(t) > 0
    PROVE  Last(t) \in Views /\ Last(t) \in Nat /\ Last(t) > 0
<1>1. t \in Seq(1 .. MaxView) /\ Len(t) \in 1 .. Len(t)
  BY DEF Tesseracts
<1>2. t[Len(t)] \in 1 .. MaxView
  BY <1>1, ElementType, Zenon
<1> QED
  BY <1>2, ViewsAssumption DEF Last, Views

\* If no tesseract is new, what is known of them stays.
LEMMA SeenKept ==
    ASSUME TypeOK, TypeOK', Advances, SeenOK, ChainsOK, \A t \in Tesseracts : Seen(t)' => Seen(t)
    PROVE  SeenOK' /\ ChainsOK'
<1>1. ASSUME NEW t \in Tesseracts, Seen(t)', Len(t) > 0
      PROVE  Made(Last(t))' /\ QuorumPast(Last(t))'
  <2>1. PICK v \in Views : v = Last(t) /\ v \in Nat
    BY <1>1, LastIsView, Zenon
  <2>2. Made(v) /\ QuorumPast(v)
    BY <1>1, <2>1, Zenon DEF SeenOK
  <2>3. Made(v)' /\ QuorumPast(v)'
    BY <2>1, <2>2, MadeKept, QuorumPastKept, Zenon
  <2> QED
    BY <2>1, <2>3, Zenon
<1>2. ASSUME NEW s \in Tesseracts, NEW t \in Tesseracts, Seen(s)', Seen(t)', Len(s) > 0, Len(t) > 0
      PROVE  /\ Last(s) = Last(t) => s = t
             /\ Last(s) < Last(t) => IsPrefix(s, t) \/ Refused(Last(s))'
  <2>1. PICK v \in Views : v = Last(s)
    BY <1>2, LastIsView, Zenon
  <2>2. /\ Last(s) = Last(t) => s = t
        /\ Last(s) < Last(t) => IsPrefix(s, t) \/ Refused(v)
    BY <1>2, <2>1, Zenon DEF ChainsOK
  <2>3. Refused(v) => Refused(v)'
    BY RefusedKept, Zenon
  <2> QED
    BY <2>1, <2>2, <2>3, Zenon
<1> QED
  BY <1>1, <1>2, Zenon DEF SeenOK, ChainsOK

-----------------------------------------------------------------------------
(* What a step of one node has to do to keep the invariant.                *)

\* The node does not start to commit.
StateParts(r) ==
    AtStep(r, {"committing"})' => AtStep(r, {"committing"}) /\ cluster'[r].view = cluster[r].view

\* A node that writes nothing keeps what is known of its state.
LEMMA StateKept ==
    ASSUME Advances, NEW r \in Nodes, KeepsDisk(r), StateParts(r), StateOK(r)
    PROVE  StateOK(r)'
<1>1. Report(r)' = Report(r)
  BY Zenon DEF KeepsDisk, Report, ViewInfo
<1>2. Len(committed[r]) > 0 => Precommitted(commitView[r])'
  <2>1. PICK v : v = commitView[r]
    BY Zenon
  <2>2. Precommitted(v) => Precommitted(v)'
    BY PrecommittedKept, Zenon
  <2> QED
    BY <2>1, <2>2, Zenon DEF StateOK, KeepsDisk
<1>3. AtStep(r, {"committing"})' => Precommitted(cluster[r].view)'
  <2>1. PICK v : v = cluster[r].view
    BY Zenon
  <2>2. Precommitted(v) => Precommitted(v)'
    BY PrecommittedKept, Zenon
  <2> QED
    BY <2>1, <2>2, Zenon DEF StateOK, StateParts
<1> QED
  BY <1>1, <1>2, <1>3, Zenon DEF StateOK, KeepsDisk, StateParts

\* An operator whose cluster stays as it is keeps what it has collected.
LEMMA CollectKept ==
    ASSUME TypeOK, TypeOK', Advances, NEW r \in Nodes, KeepsDisk(r),
           AtStep(r, {"prepare"})' => cluster'[r] = cluster[r], CollectOK(r)
    PROVE  CollectOK(r)'
<1> SUFFICES ASSUME AtStep(r, {"prepare"})'
             PROVE  /\ cluster'[r].highest = ViewInfo(r)' \/ cluster'[r].highest[1].view > Report(r)'
                    /\ ReportOK(cluster'[r].highest[1])
                    /\ \A q \in cluster'[r].responded :
                          Told(q, cluster[r].view, cluster[r].highest[1].view)'
  BY Zenon DEF CollectOK, ReportOK
<1>1. cluster'[r] = cluster[r] /\ AtStep(r, {"prepare"}) /\ Running(r)
  BY Zenon DEF AtStep, Running
<1>2. ViewInfo(r)' = ViewInfo(r) /\ Report(r)' = Report(r)
  BY Zenon DEF KeepsDisk, Report, ViewInfo
<1>3. PICK w \in Nat : w = cluster[r].view
  BY <1>1, ClusterType, Zenon
<1>6. PICK u : u = cluster[r].highest[1].view
  BY Zenon
<1>4. cluster[r].responded \in SUBSET Nodes
  BY <1>1, ClusterType, Zenon
<1>5. \A q \in cluster[r].responded : Told(q, w, u)'
  BY <1>1, <1>3, <1>4, <1>6, ToldKept, Zenon DEF CollectOK
<1> QED
  BY <1>1, <1>2, <1>3, <1>5, <1>6, Zenon DEF CollectOK

LEMMA AnswerKept ==
    ASSUME TypeOK, TypeOK', Advances, NEW m \in msgs, AnswerOK(m)
    PROVE  AnswerOK(m)'
<1> SUFFICES ASSUME m.type = "prepared"
             PROVE  ReportOK(m.info[1]) /\ Told(m.from, m.view, m.info[1].view)'
  BY Zenon DEF AnswerOK, ReportOK
<1>1. m \in Messages
  BY Zenon DEF TypeOK
<1>2. m.from \in Nodes /\ m.view \in Nat
  BY <1>1, MessageType, Zenon
<1>3. PICK u : u = m.info[1].view
  BY Zenon
<1> QED
  BY <1>2, <1>3, ToldKept, Zenon DEF AnswerOK

\* A step of node n: how it may move, and which votes it may cast.
Moves(n) ==
    /\ \A r \in Nodes \ {n} : Same(r)
    /\ view'[n] \in {view[n], view[n] + 1}
    /\ AtStep(n, Engaged)' =>
          \/ AtStep(n, Engaged) /\ cluster'[n].view = cluster[n].view
          \/ cluster'[n].view = view[n]
    /\ AtStep(n, {"prepare"})' =>
          \/ AtStep(n, {"prepare"}) /\ cluster'[n].view = cluster[n].view
          \/ cluster'[n].view > view[n]
    /\ votes \subseteq votes'
    /\ \A w \in votes' \ votes :
          \/ w.type = "prevote"
          \/ w.node = n /\ AtStep(n, {"prevoted"}) /\ cluster[n].view = w.view /\ Report(n)' = w.view

\* No step of one node goes back.
LEMMA MovesAdvance ==
    ASSUME TypeOK, TypeOK', NEW n \in Nodes, Moves(n)
    PROVE  Advances
<1>1. ASSUME NEW r \in Nodes PROVE view'[r] >= view[r]
  <2>1. view[r] \in Nat /\ view'[r] \in {view[r], view[r] + 1}
    BY OperatorType, Zenon DEF TypeOK, Moves, Same
  <2> QED
    BY <2>1
<1>2. ASSUME NEW r \in Nodes, r # n PROVE cluster'[r] = cluster[r] /\ \A S : AtStep(r, S)' <=> AtStep(r, S)
  BY <1>2, Zenon DEF Moves, Same, AtStep, Running
<1>3. ASSUME NEW r \in Nodes, NEW v \in Views, Precommits(r, v)', ~ Precommits(r, v)
      PROVE  AtStep(r, {"prevoted"}) /\ cluster[r].view = v /\ Report(r)' = v
  <2> DEFINE w == [type |-> "precommit", view |-> v, node |-> r]
  <2>1. w \in votes' \ votes /\ w.type = "precommit" /\ w.view = v /\ w.node = r
    BY <1>3, Zenon DEF Precommits
  <2> HIDE DEF w
  <2>2. w.type # "prevote"
    BY <2>1
  <2> QED
    BY <2>1, <2>2, Zenon DEF Moves
<1> QED
  BY <1>1, <1>2, <1>3, Zenon DEF Moves, Advances

\* So it is enough to look at that node, at what it sends, and at the tesseracts.
LEMMA OneNodeAgrees ==
    ASSUME ViewsInv, ViewsInv', AgreeInv, [Next]_vars, NEW n \in Nodes, Moves(n), Advances,
           StateOK(n)', CollectOK(n)', SeenOK', ChainsOK',
           \A m \in msgs' \ msgs : AnswerOK(m)',
           \A c \in certs' \ certs : c.type = "precommit" => Precommitted(c.view)'
    PROVE  AgreeInv'
<1> TypeOK /\ TypeOK'
  BY Zenon DEF ViewsInv
<1>1. ASSUME NEW r \in Nodes, r # n PROVE StateOK(r)' /\ CollectOK(r)'
  <2>1. KeepsDisk(r) /\ cluster'[r] = cluster[r] /\ StateOK(r) /\ CollectOK(r)
    BY <1>1, Zenon DEF Moves, Same, AgreeInv
  <2>2. StateParts(r)
    BY <2>1, Zenon DEF StateParts, AtStep, Running
  <2> QED
    BY <2>1, <2>2, StateKept, CollectKept, Zenon
<1>2. ASSUME NEW m \in msgs' PROVE AnswerOK(m)'
  BY AnswerKept, Zenon DEF AgreeInv
<1>3. ASSUME NEW r \in Nodes, NEW v \in Views, Precommits(r, v)' PROVE Made(v)' /\ v <= Report(r)'
  <2>1. /\ v \in Nat /\ Report(r) \in Nat /\ Report(r)' \in Nat /\ Report(r) <= Report(r)'
    BY OperatorType, ReportedNext, ReportGrows, Zenon DEF Reported, Report
  <2>2. CASE Precommits(r, v)
    <3>1. Made(v) /\ v <= Report(r)
      BY <2>2, Zenon DEF AgreeInv, LocksOK
    <3>2. Made(v)'
      BY <3>1, MadeKept, Zenon
    <3> QED
      BY <2>1, <3>1, <3>2
  <2>3. CASE ~ Precommits(r, v)
    <3>1. AtStep(r, {"prevoted"}) /\ cluster[r].view = v /\ Report(r)' = v
      BY <1>3, <2>3, Zenon DEF Advances
    <3>2. Proposed(v)
      BY <3>1, Zenon DEF ViewsInv, ClusterOK, AtStep, Voting
    <3>3. Made(v)
      BY <3>2, Zenon DEF Proposed, Made, AtStep, Asking
    <3>4. Made(v)'
      BY <3>3, MadeKept, Zenon
    <3> QED
      BY <2>1, <3>1, <3>4
  <2> QED
    BY <2>2, <2>3, Zenon
<1>4. ASSUME NEW c \in certs', c.type = "precommit" PROVE Precommitted(c.view)'
  <2>1. CASE c \in certs
    <3>1. PICK v : v = c.view
      BY Zenon
    <3>2. Precommitted(v)
      BY <1>4, <2>1, <3>1, Zenon DEF AgreeInv, LocksOK
    <3> QED
      BY <3>1, <3>2, PrecommittedKept, Zenon
  <2> QED
    BY <1>4, <2>1, Zenon
<1>5. LocksOK'
  BY <1>3, <1>4, Zenon DEF LocksOK
<1> QED
  BY <1>1, <1>2, <1>5, Zenon DEF AgreeInv

\* What a node reports is a certificate of a tesseract it has seen.
LEMMA ReportSeen ==
    ASSUME ViewsInv, AgreeInv, NEW n \in Nodes
    PROVE  /\ ViewInfo(n)[1].view = Report(n) /\ Report(n) \in Nat
           /\ Len(ViewInfo(n)) = 1 /\ ViewInfo(n)[1] \in Qcs
           /\ Seen(ViewInfo(n)[1].ts) /\ ReportOK(ViewInfo(n)[1])
<1>1. TypeOK /\ Len(safetyData[n]) \in {0, 1} /\ ChainOK(n) /\ StateOK(n) /\ Reported(n)
  BY ReportedView, Zenon DEF ViewsInv, AgreeInv, DiskOK, LockOK, AllReported
<1>2. /\ ViewInfo(n) \in Seq(Qcs) /\ Len(ViewInfo(n)) = 1
      /\ Last(ViewInfo(n)) = ViewInfo(n)[1]
      /\ Len(safetyData[n]) = 1 => ViewInfo(n) = safetyData[n]
      /\ Len(safetyData[n]) = 0 => /\ ViewInfo(n)[1].view = commitView[n]
                                   /\ ViewInfo(n)[1].ts = committed[n]
  BY <1>1, ViewInfoOne, Zenon
<1>3. PICK info \in Seq(Qcs) : info = ViewInfo(n) /\ Len(info) = 1
  BY <1>2, Zenon
<1>4. info[1] \in Qcs
  BY <1>3, OnlyElement, Zenon
<1>5. info[1].view = Report(n) /\ Report(n) \in Nat
  BY <1>1, <1>2, <1>3, Zenon DEF Report, LastView, Reported
<1>6. CASE Len(safetyData[n]) = 1
  BY <1>1, <1>2, <1>3, <1>4, <1>5, <1>6, Zenon DEF StateOK, Seen, SeenBy
<1>7. CASE Len(safetyData[n]) = 0
  <2>1. Seen(info[1].ts)
    BY <1>2, <1>3, <1>7, Zenon DEF Seen, SeenBy
  <2>2. PICK u \in Nat : u = info[1].view
    BY <1>5, Zenon
  <2>3. u = commitView[n] /\ info[1].ts = committed[n]
    BY <1>2, <1>3, <1>7, <2>2, Zenon
  <2>4. PICK k \in Nat : k = Len(committed[n])
    BY <1>1, NodeType, Zenon
  <2>5. (k = 0 => u = 0) /\ (k > 0 => u = Last(committed[n]))
    BY <1>1, <2>3, <2>4, Zenon DEF ChainOK
  <2>6. u > 0 => k > 0 /\ Last(committed[n]) = u
    BY <2>5
  <2>7. ReportOK(info[1])
    BY <2>2, <2>3, <2>4, <2>6, Zenon DEF ReportOK
  <2> QED
    BY <1>3, <1>4, <1>5, <2>1, <2>7, Zenon
<1> QED
  BY <1>1, <1>6, <1>7, Zenon

\* Nothing is seen after a step of node n that was not seen before.
NewsOK(n) ==
    /\ \A t \in Tesseracts : SeenBy(n, t)' => Seen(t)
    /\ \A m \in msgs' \ msgs, t \in Tesseracts : SeenIn(m, t) => Seen(t)

\* What is seen after a step of node n was seen before, or is seen by it or in a new message.
LEMMA SeenFrom ==
    ASSUME NEW n \in Nodes, \A r \in Nodes \ {n} : Same(r), NEW t \in Tesseracts, Seen(t)'
    PROVE  Seen(t) \/ SeenBy(n, t)' \/ \E m \in msgs' \ msgs : SeenIn(m, t)
<1>1. CASE \E m \in msgs' : SeenIn(m, t)
  BY <1>1, Zenon DEF Seen
<1>2. CASE \E r \in Nodes : SeenBy(r, t)'
  <2>1. PICK r \in Nodes : SeenBy(r, t)'
    BY <1>2, Zenon
  <2>2. CASE r # n
    <3>1. KeepsDisk(r) /\ cluster'[r] = cluster[r]
      BY <2>2, Zenon DEF Same
    <3>2. SeenBy(r, t)
      BY <2>1, <3>1, Zenon DEF SeenBy, KeepsDisk, AtStep, Running
    <3> QED
      BY <3>2, Zenon DEF Seen
  <2> QED
    BY <2>1, <2>2, Zenon
<1> QED
  BY <1>1, <1>2, Zenon DEF Seen, SeenIn

LEMMA NothingNew ==
    ASSUME NEW n \in Nodes, \A r \in Nodes \ {n} : Same(r), NewsOK(n), NEW t \in Tesseracts, Seen(t)'
    PROVE  Seen(t)
BY SeenFrom, Zenon DEF NewsOK

\* A step that writes nothing to the disk, gives the node the cluster e and brings no new tesseract.
LEMMA QuietAgrees ==
    ASSUME ViewsInv, ViewsInv', AgreeInv, [Next]_vars, NEW n \in Nodes, Moves(n), KeepsDisk(n),
           StateParts(n), UNCHANGED certs,
           (AtStep(n, {"prepare"})' => cluster'[n] = cluster[n]) \/ CollectOK(n)',
           \A m \in msgs' \ msgs : AnswerOK(m)', NewsOK(n)
    PROVE  AgreeInv'
<1>1. TypeOK /\ TypeOK' /\ StateOK(n) /\ CollectOK(n) /\ SeenOK /\ ChainsOK
  BY Zenon DEF ViewsInv, AgreeInv
<1>2. Advances
  BY <1>1, MovesAdvance, Zenon
<1>3. StateOK(n)' /\ CollectOK(n)'
  BY <1>1, <1>2, StateKept, CollectKept, Zenon
<1>4. \A t \in Tesseracts : Seen(t)' => Seen(t)
  BY NothingNew, Zenon DEF Moves
<1>5. SeenOK' /\ ChainsOK'
  BY <1>1, <1>2, <1>4, SeenKept, Zenon
<1>6. \A c \in certs' \ certs : c.type = "precommit" => Precommitted(c.view)'
  BY Zenon
<1> QED
  BY <1>2, <1>3, <1>5, <1>6, OneNodeAgrees, Zenon

-----------------------------------------------------------------------------
(* The steps that write nothing to the disk.                               *)

\* A step from a state in which the invariants hold.
StepBase == ViewsInv /\ ViewsInv' /\ AgreeInv /\ [Next]_vars

LEMMA SetCluster ==
    ASSUME TypeOK, NEW n \in Nodes, NEW e, cluster' = [cluster EXCEPT ![n] = e], UNCHANGED disk,
           \A r \in Nodes \ {n} : view'[r] = view[r]
    PROVE  cluster'[n] = e /\ KeepsDisk(n) /\ \A r \in Nodes \ {n} : Same(r)
BY Zenon DEF TypeOK, disk, KeepsDisk, Same

\* A node loses its cluster or keeps it, and says nothing.
LEMMA IdleAgrees ==
    ASSUME StepBase, NEW n \in Nodes, NEW e \in {None, Down, cluster[n]},
           cluster' = [cluster EXCEPT ![n] = e], UNCHANGED <<disk, votes, certs>>, msgs' \subseteq msgs,
           \A r \in Nodes \ {n} : view'[r] = view[r], view'[n] \in {view[n], view[n] + 1}
    PROVE  AgreeInv'
<1> USE DEF StepBase
<1>1. cluster'[n] = e /\ KeepsDisk(n) /\ \A r \in Nodes \ {n} : Same(r)
  BY SetCluster, Zenon DEF ViewsInv
<1>2. \A S : AtStep(n, S)' => AtStep(n, S) /\ cluster'[n] = cluster[n]
  BY <1>1, Zenon DEF AtStep, Running
<1>3. Moves(n) /\ StateParts(n)
  BY <1>1, <1>2, Zenon DEF Moves, StateParts
<1>4. NewsOK(n) /\ \A m \in msgs' \ msgs : AnswerOK(m)'
  <2>1. \A t \in Tesseracts : SeenBy(n, t)' => SeenBy(n, t)
    BY <1>1, <1>2, Zenon DEF SeenBy, KeepsDisk
  <2> QED
    BY <2>1, Zenon DEF NewsOK, Seen
<1> QED
  BY <1>1, <1>2, <1>3, <1>4, QuietAgrees, Zenon

LEMMA TimeoutAgrees ==
    ASSUME StepBase, NEW n \in Nodes, Timeout(n) \/ Crash(n)
    PROVE  AgreeInv'
<1>1. PICK e \in {None, Down} : cluster' = [cluster EXCEPT ![n] = e]
  BY Zenon DEF Timeout, Crash, MayCrash
<1>2. UNCHANGED <<view, disk, msgs, votes, certs>>
  BY Zenon DEF Timeout, Crash, MayCrash, disk
<1> QED
  BY <1>1, <1>2, IdleAgrees, Zenon

LEMMA StutterAgrees ==
    ASSUME StepBase, UNCHANGED vars
    PROVE  AgreeInv'
<1>1. PICK n \in Nodes : n = Operator(0)
  BY OperatorType, Zenon
<1>2. UNCHANGED <<view, disk, msgs, votes, certs>> /\ cluster' = [cluster EXCEPT ![n] = cluster[n]]
  BY Zenon DEF vars, StepBase, ViewsInv, TypeOK
<1> QED
  BY <1>2, IdleAgrees, Zenon

\* The operator's BFT sends the tesseract that it works on.
LEMMA ProposeAgrees ==
    ASSUME StepBase, NEW n \in Nodes, Propose(n)
    PROVE  AgreeInv'
<1> USE DEF StepBase
<1> DEFINE e == [cluster[n] EXCEPT !.step = "prevoted"]
<1>1. AtStep(n, {"proposing"}) /\ AtStep(n, Engaged) /\ Running(n) /\ TypeOK
  BY Zenon DEF Propose, In, AtStep, Running, Engaged, ViewsInv
<1>2. cluster[n] \in Clusters
  BY <1>1, ClusterType, Zenon
<1>3. e \in Clusters /\ e.step = "prevoted" /\ e.view = cluster[n].view /\ e.ts = cluster[n].ts
  BY <1>2, SetStep, Zenon DEF Voting
<1>4. cluster' = [cluster EXCEPT ![n] = e] /\ UNCHANGED <<view, disk, certs>>
  BY Zenon DEF Propose
<1>5. votes' = votes \cup {[type |-> "prevote", view |-> cluster[n].view, node |-> n]}
  BY Zenon DEF Propose
<1>6. ASSUME NEW m \in msgs' \ msgs PROVE m.type = "proposal" /\ m.ts = cluster[n].ts
  <2>1. PICK q \in cluster[n].responded \ {n} :
           m = [type |-> "proposal", view |-> cluster[n].view, ts |-> cluster[n].ts, to |-> q]
    BY <1>6, Zenon DEF Propose
  <2> QED
    BY <2>1
<1> HIDE DEF e
<1>7. cluster'[n] = e /\ KeepsDisk(n) /\ \A r \in Nodes \ {n} : Same(r)
  BY <1>1, <1>4, SetCluster, Zenon
<1>8. ~ AtStep(n, {"prepare"})' /\ ~ AtStep(n, {"committing"})'
  BY <1>3, <1>7, Zenon DEF AtStep
<1>9. Moves(n) /\ StateParts(n)
  <2>1. view'[n] \in {view[n], view[n] + 1}
    BY <1>4, Zenon
  <2>2. \A w \in votes' \ votes : w.type = "prevote"
    BY <1>5
  <2> QED
    BY <1>1, <1>3, <1>5, <1>7, <1>8, <2>1, <2>2, Zenon DEF Moves, StateParts
<1>10. SeenBy(n, cluster[n].ts)
  BY <1>1, Zenon DEF SeenBy, AtStep
<1>11. NewsOK(n) /\ \A m \in msgs' \ msgs : AnswerOK(m)'
  <2>1. ASSUME NEW t \in Tesseracts, SeenBy(n, t)' PROVE Seen(t)
    BY <1>3, <1>7, <1>8, <1>10, <2>1, Zenon DEF SeenBy, KeepsDisk, Seen
  <2>2. ASSUME NEW m \in msgs' \ msgs PROVE m.type # "prepared"
    BY <1>6
  <2>3. ASSUME NEW m \in msgs' \ msgs, NEW t \in Tesseracts, SeenIn(m, t) PROVE Seen(t)
    BY <1>6, <1>10, <2>2, <2>3, Zenon DEF SeenIn, Seen
  <2> QED
    BY <2>1, <2>2, <2>3, Zenon DEF NewsOK, AnswerOK
<1> QED
  BY <1>4, <1>7, <1>8, <1>9, <1>11, QuietAgrees, Zenon

\* A node starts to vote for the tesseract of a proposal, or has a cluster that votes for nothing.
LEMMA HandleProposalAgrees ==
    ASSUME StepBase, NEW n \in Nodes, NEW m \in msgs, HandleProposal(n, m)
    PROVE  AgreeInv'
<1> USE DEF StepBase
<1> TypeOK
  BY Zenon DEF ViewsInv
<1>1. m.type = "proposal" /\ msgs' = msgs \ {m} /\ UNCHANGED <<view, disk, certs>>
  BY Zenon DEF HandleProposal
<1>2. CASE UNCHANGED <<cluster, votes>>
  <2>1. cluster' = [cluster EXCEPT ![n] = cluster[n]]
    BY <1>2, Zenon DEF TypeOK
  <2> QED
    BY <1>1, <1>2, <2>1, IdleAgrees, Zenon
<1>3. CASE Free(n) /\ Valid(n, m.ts)
  <2> DEFINE step == IF m.view = view[n] THEN "prevoted" ELSE "inert"
             e == [view |-> view[n], ixns |-> None, local |-> None, highest |-> None,
                   responded |-> {}, ts |-> m.ts, step |-> step]
             w == [type |-> "prevote", view |-> m.view, node |-> n]
             W == IF m.view = view[n] THEN {w} ELSE {}
  <2>1. cluster' = [cluster EXCEPT ![n] = e] /\ votes' = votes \cup W
    BY <1>3, Zenon DEF HandleProposal
  <2>2. /\ e.step = step /\ e.view = view[n] /\ e.ts = m.ts
        /\ step \notin {"prepare"} /\ step \notin {"committing"}
    BY Zenon
  <2>3. W \subseteq {w} /\ w.type = "prevote"
    BY Zenon
  <2> HIDE DEF e, w, W, step
  <2>4. cluster'[n] = e /\ KeepsDisk(n) /\ \A r \in Nodes \ {n} : Same(r)
    BY <1>1, <2>1, SetCluster, Zenon
  <2>5. ~ AtStep(n, {"prepare"})' /\ ~ AtStep(n, {"committing"})'
    BY <2>2, <2>4, Zenon DEF AtStep
  <2>6. Moves(n) /\ StateParts(n)
    <3>1. view'[n] \in {view[n], view[n] + 1}
      BY <1>1, Zenon
    <3>2. \A x \in votes' \ votes : x.type = "prevote"
      BY <2>1, <2>3, Zenon
    <3> QED
      BY <2>1, <2>2, <2>4, <2>5, <3>1, <3>2, Zenon DEF Moves, StateParts
  <2>7. NewsOK(n) /\ \A l \in msgs' \ msgs : AnswerOK(l)'
    <3>1. ASSUME NEW t \in Tesseracts, SeenBy(n, t)' PROVE Seen(t)
      BY <1>1, <2>2, <2>4, <2>5, <3>1, Zenon DEF SeenBy, KeepsDisk, Seen, SeenIn
    <3> QED
      BY <1>1, <3>1, Zenon DEF NewsOK
  <2> QED
    BY <1>1, <2>4, <2>5, <2>6, <2>7, QuietAgrees, Zenon
<1> QED
  BY <1>2, <1>3, Zenon DEF HandleProposal

\* What a node reports when no cluster of it can still lock the account covers its precommits.
LEMMA ReportTells ==
    ASSUME ViewsInv, AgreeInv, NEW n \in Nodes, NEW w, Past(n, w)
    PROVE  Told(n, w, Report(n))
BY Zenon DEF AgreeInv, LocksOK, Told

\* A node answers a PREPARE.
LEMMA HandlePrepareAgrees ==
    ASSUME StepBase, AnswersUnengaged, NEW n \in Nodes, NEW m \in msgs, HandlePrepare(n, m)
    PROVE  AgreeInv'
<1> USE DEF StepBase
<1> TypeOK
  BY Zenon DEF ViewsInv
<1>0. PICK l : l = [type |-> "prepared", view |-> m.view, from |-> n, info |-> ViewInfo(n)]
  BY Zenon
<1>1. /\ msgs' = (msgs \ {m}) \cup {l} /\ m.view = view[n]
      /\ UNCHANGED <<view, disk, cluster, votes, certs>>
  BY <1>0, Zenon DEF HandlePrepare
<1>2. l.type = "prepared" /\ l.view = m.view /\ l.from = n /\ l.info = ViewInfo(n)
  BY <1>0, Zenon
<1>3. cluster' = [cluster EXCEPT ![n] = cluster[n]]
  BY <1>1, Zenon DEF TypeOK
<1>4. CASE l \in msgs
  <2>1. msgs' \subseteq msgs
    BY <1>1, <1>4, Zenon
  <2> QED
    BY <1>1, <1>3, <2>1, IdleAgrees, Zenon
<1>5. CASE l \notin msgs
  <2>1. cluster'[n] = cluster[n] /\ KeepsDisk(n) /\ \A r \in Nodes \ {n} : Same(r)
    BY <1>1, <1>3, SetCluster, Zenon
  <2>2. \A S : AtStep(n, S)' <=> AtStep(n, S)
    BY <2>1, Zenon DEF AtStep, Running
  <2>3. Moves(n) /\ StateParts(n)
    BY <1>1, <2>1, <2>2, Zenon DEF Moves, StateParts
  <2>4. TypeOK' /\ Advances /\ view[n] \in Nat
    BY <2>3, MovesAdvance, NodeType, Zenon DEF ViewsInv
  <2>5. /\ ViewInfo(n)[1].view = Report(n)
        /\ Seen(ViewInfo(n)[1].ts) /\ ReportOK(ViewInfo(n)[1])
    BY ReportSeen, Zenon
  <2>6. AnswerOK(l)'
    <3>1. ~ AtStep(n, {"proposing", "prevoted"})
      BY <1>1, <1>2, <1>5, Zenon DEF AnswersUnengaged
    <3>2. view[n] >= view[n]
      BY <2>4
    <3>3. Past(n, view[n])
      BY <3>1, <3>2, Zenon DEF Past
    <3>4. PICK u : u = Report(n)
      BY Zenon
    <3>5. PICK v \in Nat : v = view[n]
      BY <2>4, Zenon
    <3>6. Told(n, v, u)'
      BY <2>4, <3>3, <3>4, <3>5, ReportTells, ToldKept, Zenon
    <3> QED
      BY <1>1, <1>2, <2>5, <3>4, <3>5, <3>6, Zenon DEF AnswerOK, ReportOK
  <2>7. NewsOK(n)
    <3>1. ASSUME NEW t \in Tesseracts, SeenBy(n, t)' PROVE Seen(t)
      BY <2>1, <2>2, <3>1, Zenon DEF SeenBy, KeepsDisk, Seen
    <3>2. \A x \in msgs' \ msgs : x = l
      BY <1>1, Zenon
    <3>3. ASSUME NEW t, SeenIn(l, t) PROVE Seen(t)
      BY <1>2, <2>5, <3>3 DEF SeenIn
    <3> QED
      BY <3>1, <3>2, <3>3, Zenon DEF NewsOK
  <2>8. \A x \in msgs' \ msgs : AnswerOK(x)'
    BY <1>1, <2>6, Zenon
  <2> QED
    BY <1>1, <2>1, <2>3, <2>7, <2>8, QuietAgrees, Zenon
<1> QED
  BY <1>4, <1>5, Zenon

\* The operator of a new view starts from its own report.
LEMMA NewICSAgrees ==
    ASSUME StepBase, NEW n \in Nodes, NEW v, NEW ixns, StartICS(n, v, ixns)
    PROVE  AgreeInv'
<1> USE DEF StepBase
<1> TypeOK /\ TypeOK'
  BY Zenon DEF ViewsInv
<1>1. PICK e : /\ cluster' = [cluster EXCEPT ![n] = e] /\ e.step = "prepare" /\ e.view = v
               /\ e.highest = ViewInfo(n) /\ e.responded = {n}
  <2> DEFINE d == NewICS(n, v, ixns)
  <2>1. d.step = "prepare" /\ d.view = v /\ d.highest = ViewInfo(n) /\ d.responded = {n}
    BY Zenon DEF NewICS
  <2>2. cluster' = [cluster EXCEPT ![n] = d]
    BY Zenon DEF StartICS
  <2> HIDE DEF d
  <2> QED
    BY <2>1, <2>2, Zenon
<1>2. /\ view[n] \in Nat /\ v \in Nat /\ v = view[n] + 1 /\ v > view[n] /\ view'[n] = v /\ v >= v
      /\ \A r \in Nodes \ {n} : view'[r] = view[r]
  BY NodeType DEF StartICS, TypeOK
<1>3. UNCHANGED <<disk, votes, certs>> /\ ~ Running(n)
  BY Zenon DEF StartICS, Running
<1>4. cluster'[n] = e /\ KeepsDisk(n) /\ \A r \in Nodes \ {n} : Same(r)
  BY <1>1, <1>2, <1>3, SetCluster, Zenon
<1>5. /\ ~ AtStep(n, {"committing"})' /\ ~ AtStep(n, Engaged)' /\ ~ AtStep(n, {"proposing", "prevoted"})'
      /\ ~ AtStep(n, {"proposing"} \cup Voting)'
  BY <1>1, <1>4, Zenon DEF AtStep, Engaged, Voting
<1>6. Moves(n) /\ StateParts(n) /\ Advances
  <2>1. Moves(n) /\ StateParts(n)
    BY <1>1, <1>2, <1>3, <1>4, <1>5, Zenon DEF Moves, StateParts
  <2> QED
    BY <2>1, MovesAdvance, Zenon
<1>7. /\ ViewInfo(n)[1].view = Report(n)
      /\ Seen(ViewInfo(n)[1].ts) /\ ReportOK(ViewInfo(n)[1])
  BY ReportSeen, Zenon
<1>8. CollectOK(n)'
  <2>1. Past(n, v)'
    BY <1>2, <1>5, Zenon DEF Past
  <2>2. votes' = votes /\ Report(n)' = Report(n) /\ ViewInfo(n)' = ViewInfo(n)
    BY <1>3, <1>4, Zenon DEF KeepsDisk, Report, ViewInfo
  <2>3. PICK u : u = Report(n)
    BY Zenon
  <2>4. Told(n, v, u)'
    BY <2>1, <2>2, <2>3, Zenon DEF Told, AgreeInv, LocksOK, Precommits
  <2> QED
    BY <1>1, <1>4, <1>7, <2>2, <2>3, <2>4, Zenon DEF CollectOK, ReportOK
<1>9. NewsOK(n) /\ \A m \in msgs' \ msgs : AnswerOK(m)'
  <2>1. ASSUME NEW t \in Tesseracts, SeenBy(n, t)' PROVE Seen(t)
    BY <1>1, <1>4, <1>5, <1>7, <2>1, Zenon DEF SeenBy, KeepsDisk, Seen
  <2>2. ASSUME NEW m \in msgs' \ msgs PROVE m.type # "prepared" /\ m.type # "proposal"
    BY <2>2 DEF StartICS
  <2> QED
    BY <2>1, <2>2, Zenon DEF NewsOK, AnswerOK, SeenIn
<1> QED
  BY <1>3, <1>4, <1>6, <1>8, <1>9, QuietAgrees, Zenon

\* A view tick starts a cluster of the operator, or nothing.
LEMMA TickAgrees ==
    ASSUME StepBase, NEW n \in Nodes, Tick(n)
    PROVE  AgreeInv'
<1>1. CASE /\ Operator(view[n] + 1) = n /\ cluster[n] \in {None, Down}
           /\ \E ixns \in Ixns(n, view[n] + 1) :
                cluster' = [cluster EXCEPT ![n] = NewICS(n, view[n] + 1, ixns)]
           /\ msgs' = msgs \cup {[type |-> "prepare", view |-> view[n] + 1, to |-> m] : m \in Nodes \ {n}}
  <2>1. \E ixns : StartICS(n, view[n] + 1, ixns)
    BY <1>1, Zenon DEF Tick, StartICS
  <2> QED
    BY <2>1, NewICSAgrees, Zenon
<1>2. CASE /\ cluster' = [cluster EXCEPT ![n] = IF @ = Down THEN None ELSE @]
           /\ UNCHANGED msgs
  <2>1. PICK e \in {None, Down, cluster[n]} : cluster' = [cluster EXCEPT ![n] = e]
    BY <1>2, Zenon
  <2>2. view' = [view EXCEPT ![n] = view[n] + 1] /\ UNCHANGED <<disk, votes, certs>>
    BY Zenon DEF Tick
  <2>3. view'[n] = view[n] + 1 /\ \A r \in Nodes \ {n} : view'[r] = view[r]
    BY <2>2, Zenon DEF StepBase, ViewsInv, TypeOK
  <2> QED
    BY <1>2, <2>1, <2>2, <2>3, IdleAgrees, Zenon
<1> QED
  BY <1>1, <1>2, Zenon DEF Tick

-----------------------------------------------------------------------------
(* The operator collects reports.                                          *)

\* What an operator knows once it has taken an answer.
LEMMA CollectMore ==
    ASSUME ViewsInv, AgreeInv, NEW n \in Nodes, NEW m \in msgs, AtStep(n, {"prepare"}),
           m.type = "prepared", m.view = cluster[n].view,
           NEW h, h = IF Higher(m.info, cluster[n].highest) THEN m.info ELSE cluster[n].highest
    PROVE  /\ h \in Seq(Qcs) /\ Len(h) = 1 /\ h[1] \in Qcs
           /\ h = ViewInfo(n) \/ h[1].view > Report(n)
           /\ ReportOK(h[1]) /\ Seen(h[1].ts)
           /\ \A r \in cluster[n].responded \cup {m.from} : Told(r, cluster[n].view, h[1].view)
<1> DEFINE c == cluster[n]
<1>1. /\ TypeOK /\ ClusterOK(n) /\ m \in Messages /\ MsgOK(m) /\ AnswerOK(m) /\ CollectOK(n)
      /\ AtStep(n, Asking) /\ AtStep(n, {"prepare"}) /\ Running(n)
  BY Zenon DEF ViewsInv, TypeOK, AgreeInv, AtStep, Asking
<1>2. /\ c.highest \in Seq(Qcs) /\ Len(c.highest) = 1 /\ m.info \in Seq(Qcs) /\ Len(m.info) = 1
      /\ ReportOK(m.info[1]) /\ Told(m.from, c.view, m.info[1].view) /\ ReportOK(c.highest[1])
  BY <1>1, MessageType, Zenon DEF ClusterOK, AskingOK, MsgOK, AnswerOK, CollectOK
<1>3. c.highest[1] \in Qcs /\ m.info[1] \in Qcs
  BY <1>2, OnlyElement, Zenon
<1>4. PICK x \in Nat : x = c.highest[1].view
  BY <1>3, QcView, Zenon
<1>5. PICK y \in Nat : y = m.info[1].view
  BY <1>3, QcView, Zenon
<1>6. PICK g \in Nat : g = Report(n) /\ g = ViewInfo(n)[1].view
  BY ReportSeen, Zenon
<1>7. LastView(m.info) = y /\ LastView(c.highest) = x
  BY <1>2, <1>4, <1>5 DEF LastView, Last
<1>8. /\ c.highest = ViewInfo(n) \/ x > g
      /\ \A r \in c.responded : Told(r, c.view, x)
  BY <1>1, <1>4, <1>6, Zenon DEF CollectOK
<1>9. x >= g
  <2>1. c.highest = ViewInfo(n) => x = g
    BY <1>4, <1>6, Zenon
  <2> QED
    BY <1>8, <2>1
<1>10. Seen(c.highest[1].ts) /\ Seen(m.info[1].ts)
  BY <1>1, Zenon DEF Seen, SeenBy, SeenIn
<1>11. ASSUME NEW r, NEW a \in Nat, NEW b \in Nat, a <= b, Told(r, c.view, a) PROVE Told(r, c.view, b)
  <2>1. ASSUME NEW v \in Views, v <= a PROVE v <= b
    BY <1>11, <2>1, OperatorType
  <2> QED
    BY <1>11, <2>1, Zenon DEF Told
<1>12. CASE y > x
  <2>1. h = m.info /\ y > g /\ x <= y
    BY <1>7, <1>9, <1>12 DEF Higher
  <2>2. \A r \in c.responded \cup {m.from} : Told(r, c.view, y)
    BY <1>2, <1>5, <1>8, <1>11, <2>1, Zenon
  <2> QED
    BY <1>2, <1>3, <1>5, <1>6, <1>10, <2>1, <2>2, Zenon
<1>13. CASE ~ (y > x)
  <2>1. h = c.highest /\ y <= x
    BY <1>7, <1>13 DEF Higher
  <2>2. \A r \in c.responded \cup {m.from} : Told(r, c.view, x)
    BY <1>2, <1>5, <1>8, <1>11, <2>1, Zenon
  <2> QED
    BY <1>2, <1>3, <1>4, <1>6, <1>8, <1>10, <2>1, <2>2, Zenon
<1> QED
  BY <1>12, <1>13, Zenon

\* What an operator makes with a quorum of answers is a tesseract.
LEMMA MadeTS ==
    ASSUME ViewsInv, NEW n \in Nodes, AtStep(n, {"prepare"}), NEW m \in msgs, m.type = "prepared",
           m.view = cluster[n].view, Cardinality(cluster[n].responded \cup {m.from}) >= Quorum
    PROVE  /\ Append(committed[n], cluster[n].view) \in Tesseracts
           /\ Len(Append(committed[n], cluster[n].view)) > 0
           /\ Last(Append(committed[n], cluster[n].view)) = cluster[n].view
<1>1. TypeOK /\ DiskOK(n) /\ ClusterOK(n)
  BY Zenon DEF ViewsInv
<1>2. commitView[n] < cluster[n].view
  BY <1>1, AnsweredLater, Zenon
<1>3. PICK w \in Views : w = cluster[n].view /\ w \in Nat /\ w >= 1
  BY <1>1, ClusterType, Zenon DEF AtStep, ClusterOK
<1>4. w \in 1 .. MaxView
  BY <1>3, ViewsAssumption DEF Views
<1>5. committed[n] \in Tesseracts /\ Len(committed[n]) \in Nat
  BY <1>1, NodeType, Zenon
<1>6. Len(committed[n]) > 0 => Last(committed[n]) < w
  BY <1>1, <1>2, <1>3, Zenon DEF DiskOK, ChainOK
<1>7. /\ Append(committed[n], w) \in Tesseracts /\ Len(Append(committed[n], w)) = Len(committed[n]) + 1
      /\ Last(Append(committed[n], w)) = w
  BY <1>4, <1>5, <1>6, AppendTesseract, Zenon
<1>8. Len(Append(committed[n], w)) > 0
  BY <1>5, <1>7
<1> QED
  BY <1>3, <1>7, <1>8, Zenon

\* What HandlePrepared does with the cluster of the operator.
Answered(n, m, e) ==
    /\ m.type = "prepared" /\ m.view = cluster[n].view /\ view[n] = cluster[n].view
    /\ n = Operator(cluster[n].view) /\ AtStep(n, {"prepare", "proposing"})
    /\ cluster' = [cluster EXCEPT ![n] = e] /\ msgs' = msgs \ {m}
    /\ UNCHANGED <<view, disk, votes, certs>>
    /\ e \in Clusters
    /\ e.view = cluster[n].view /\ e.responded = cluster[n].responded \cup {m.from}
    /\ e.highest = IF Higher(m.info, cluster[n].highest) THEN m.info ELSE cluster[n].highest
    /\ \/ e.step = cluster[n].step /\ e.ts = cluster[n].ts
       \/ e.step = "stuck"
       \/ /\ cluster[n].step = "prepare" /\ Cardinality(e.responded) >= Quorum
          /\ e.step = "proposing" /\ e.ts = Append(committed[n], cluster[n].view)
          /\ ~ MustGiveUp(n, e.highest, cluster[n].local)

LEMMA PreparedAnswered ==
    ASSUME ViewsInv, NEW n \in Nodes, NEW m \in msgs, HandlePrepared(n, m)
    PROVE  \E e : Answered(n, m, e)
<1> TypeOK /\ ClusterOK(n) /\ m \in Messages /\ MsgOK(m) /\ AtStep(n, Asking)
           /\ AtStep(n, {"prepare", "proposing"})
  BY Zenon DEF ViewsInv, TypeOK, HandlePrepared, In, AtStep, Running, Asking
<1> DEFINE c == cluster[n]
           h == IF Higher(m.info, c.highest) THEN m.info ELSE c.highest
           d == [c EXCEPT !.highest = h, !.responded = @ \cup {m.from}]
<1>1. /\ m.type = "prepared" /\ m.view = c.view /\ view[n] = c.view /\ n = Operator(c.view)
      /\ m.from \in Nodes /\ m.info \in Seq(Qcs) /\ Len(m.info) = 1
      /\ c.step \in {"prepare", "proposing"}
  BY MessageType, Zenon DEF HandlePrepared, MsgOK, In
<1>2. c \in Clusters
  BY ClusterType, Zenon DEF AtStep
<1>3. h \in Seq(Qcs) /\ Len(h) = 1
  BY <1>1, Zenon DEF ClusterOK, AskingOK
<1>4. /\ cluster' = [cluster EXCEPT ![n] =
            IF c.step = "prepare" /\ Cardinality(d.responded) >= Quorum THEN AfterQuorum(n, d) ELSE d]
      /\ msgs' = msgs \ {m} /\ UNCHANGED <<view, disk, votes, certs>>
  BY Zenon DEF HandlePrepared
<1>5. h = IF Higher(m.info, cluster[n].highest) THEN m.info ELSE cluster[n].highest
  BY Zenon
<1> HIDE DEF h
<1>6. /\ d \in Clusters /\ d.view = c.view /\ d.local = c.local /\ d.highest = h
      /\ d.responded = c.responded \cup {m.from} /\ d.step = c.step /\ d.ts = c.ts
  BY <1>1, <1>2, <1>3, Zenon DEF Clusters
<1> HIDE DEF d
<1>7. CASE ~ (c.step = "prepare" /\ Cardinality(d.responded) >= Quorum)
  <2>1. cluster' = [cluster EXCEPT ![n] = d]
    BY <1>4, <1>7, Zenon
  <2> QED
    BY <1>1, <1>4, <1>5, <1>6, <2>1, Zenon DEF Answered
<1>8. CASE c.step = "prepare" /\ Cardinality(d.responded) >= Quorum
  <2>1. cluster' = [cluster EXCEPT ![n] = AfterQuorum(n, d)]
    BY <1>4, <1>8, Zenon
  <2> DEFINE L == LockedTS(h, c.local)
             stuck == [d EXCEPT !.step = "stuck"]
             next == [d EXCEPT !.step = "proposing", !.ts = Append(committed[n], c.view)]
  <2>9. Append(committed[n], c.view) \in Tesseracts
    BY <1>1, <1>6, <1>8, MadeTS, Zenon DEF AtStep
  <2>2. /\ stuck \in Clusters /\ next \in Clusters
        /\ stuck.view = c.view /\ stuck.highest = h /\ stuck.responded = d.responded
        /\ stuck.step = "stuck"
        /\ next.view = c.view /\ next.highest = h /\ next.responded = d.responded
        /\ next.step = "proposing" /\ next.ts = Append(committed[n], c.view)
    BY <1>6, <2>9, Zenon DEF Clusters, Asking
  <2>3. AfterQuorum(n, d) = IF MustGiveUp(n, h, c.local) \/ LockMismatch(n, L) THEN stuck
                            ELSE IF L # {} THEN Down
                            ELSE [d EXCEPT !.step = "proposing", !.ts = createProposalTS(n, L)]
    BY <1>6, Zenon DEF AfterQuorum
  <2>4. L # {} => LockMismatch(n, L)
    BY <1>3, NeverPanicsOnLock, Zenon
  <2>5. L = {} => createProposalTS(n, L) = Append(committed[n], c.view)
    BY <1>1, Zenon DEF createProposalTS
  <2> HIDE DEF L
  <2>6. \/ AfterQuorum(n, d) = stuck
        \/ AfterQuorum(n, d) = next /\ ~ MustGiveUp(n, h, c.local)
    BY <2>3, <2>4, <2>5, Zenon
  <2> HIDE DEF stuck, next
  <2>7. CASE AfterQuorum(n, d) = stuck
    BY <1>1, <1>4, <1>5, <1>6, <2>1, <2>2, <2>7, Zenon DEF Answered
  <2>8. CASE AfterQuorum(n, d) = next /\ ~ MustGiveUp(n, h, c.local)
    <3>1. /\ cluster' = [cluster EXCEPT ![n] = next] /\ c.step = "prepare"
          /\ Cardinality(next.responded) >= Quorum /\ ~ MustGiveUp(n, next.highest, c.local)
          /\ next.responded = c.responded \cup {m.from}
      BY <1>6, <1>8, <2>1, <2>2, <2>8, Zenon
    <3>2. Answered(n, m, next)
      BY <1>1, <1>4, <1>5, <2>2, <3>1, Zenon DEF Answered
    <3> QED
      BY <3>2, Zenon
  <2> QED
    BY <2>6, <2>7, <2>8, Zenon
<1> QED
  BY <1>7, <1>8, Zenon

\* A node that is past a view is past every earlier one.
LEMMA PastEarlier ==
    ASSUME TypeOK, NEW r \in Nodes, NEW v \in Nat, NEW w \in Nat, v <= w, Past(r, w)
    PROVE  Past(r, v)
<1>1. view[r] \in Nat /\ view[r] >= w
  BY NodeType, Zenon DEF Past
<1>2. view[r] >= v
  BY <1>1
<1>3. ASSUME AtStep(r, {"proposing", "prevoted"}) PROVE cluster[r].view >= v
  <2>1. cluster[r].view \in Nat /\ cluster[r].view >= w
    BY <1>3, ClusterType, Zenon DEF AtStep, Past
  <2> QED
    BY <2>1
<1> QED
  BY <1>2, <1>3, Zenon DEF Past

\* Ancestry of tesseracts.
LEMMA PrefixOf ==
    ASSUME NEW s \in Tesseracts, NEW t \in Tesseracts, NEW a \in Tesseracts, NEW v
    PROVE  /\ IsPrefix(t, t)
           /\ IsPrefix(s, t) /\ IsPrefix(t, a) => IsPrefix(s, a)
           /\ IsPrefix(s, t) => IsPrefix(s, Append(t, v))
<1>1. s \in Seq(1 .. MaxView) /\ t \in Seq(1 .. MaxView) /\ a \in Seq(1 .. MaxView)
  BY Zenon DEF Tesseracts
<1>2. /\ Len(s) \in Nat /\ Len(t) \in Nat /\ Len(a) \in Nat
      /\ Len(Append(t, v)) = Len(t) + 1 /\ \A i \in 1 .. Len(t) : Append(t, v)[i] = t[i]
  BY <1>1
<1>3. IsPrefix(t, t)
  BY <1>2 DEF IsPrefix
<1>4. IsPrefix(s, t) /\ IsPrefix(t, a) => IsPrefix(s, a)
  BY <1>2 DEF IsPrefix
<1>5. IsPrefix(s, t) => IsPrefix(s, Append(t, v))
  BY <1>2 DEF IsPrefix
<1> QED
  BY <1>3, <1>4, <1>5, Zenon

(***************************************************************************)
(* The heart of the argument.  An operator that is about to make a new     *)
(* tesseract has the reports of a quorum, the highest of which is of a     *)
(* commit.  A tesseract of an earlier view then is an ancestor of its own  *)
(* state, or nobody of the quorum has precommitted in its view, and will   *)
(* not do so any more.                                                     *)
(***************************************************************************)
LEMMA ExtendsOrRefused ==
    ASSUME ViewsInv, AgreeInv, NEW n \in Nodes, NEW w \in Nat, NEW q \in Qcs,
           <<q>> = ViewInfo(n) \/ q.view > Report(n), ReportOK(q), Seen(q.ts),
           q.type = "precommit", HasTS(n, q.ts),
           NEW V \in SUBSET Nodes, Cardinality(V) >= Quorum, \A r \in V : Told(r, w, q.view),
           NEW s \in Tesseracts, Seen(s), Len(s) > 0, Last(s) < w
    PROVE  IsPrefix(s, committed[n]) \/ Refused(Last(s))
<1> TypeOK /\ StateOK(n) /\ ChainsOK
  BY Zenon DEF ViewsInv, AgreeInv
<1>1. PICK v \in Views : v = Last(s) /\ v \in Nat /\ v > 0 /\ v < w /\ v + 1 <= w /\ v + 1 \in Nat
  <2>1. Last(s) \in Views /\ Last(s) \in Nat /\ Last(s) > 0
    BY LastIsView, Zenon
  <2>2. Last(s) + 1 <= w /\ Last(s) + 1 \in Nat
    BY <2>1
  <2> QED
    BY <2>1, <2>2, Zenon
<1>2. CASE \A r \in V : ~ Precommits(r, v)
  <2>1. \A r \in V : Past(r, v + 1)
    BY <1>1, PastEarlier, Zenon DEF Told
  <2> QED
    BY <1>1, <1>2, <2>1, Zenon DEF Refused
<1>3. CASE \E r \in V : Precommits(r, v)
  <2>1. PICK u \in Nat : u = q.view
    BY QcView, Zenon
  <2>2. v <= u
    BY <1>1, <1>3, <2>1, Zenon DEF Told
  <2>3. PICK t \in Tesseracts : t = q.ts
    BY QcView, Zenon
  <2>4. u > 0
    BY <1>1, <2>2
  <2>5. Len(t) > 0 /\ Last(t) = u /\ Seen(t)
    BY <2>1, <2>3, <2>4, Zenon DEF ReportOK
  <2>6. IsPrefix(s, t) \/ Refused(v)
    <3>1. CASE v = u
      BY <1>1, <2>5, <3>1, PrefixOf, Zenon DEF ChainsOK
    <3>2. CASE v < u
      BY <1>1, <2>5, <3>2, Zenon DEF ChainsOK
    <3> QED
      BY <1>1, <2>1, <2>2, <3>1, <3>2
  <2>7. IsPrefix(t, committed[n])
    <3>1. ASSUME t \in proposalInfo[n] PROVE t = committed[n]
      <4>1. u <= Report(n) /\ Report(n) \in Nat
        BY <2>5, <3>1, ReportSeen, Zenon DEF StateOK
      <4>2. ~ (u > Report(n))
        BY <4>1
      <4>3. <<q>> = ViewInfo(n)
        BY <2>1, <4>2, Zenon
      <4>4. <<q>>[1] = q
        OBVIOUS
      <4>5. ViewInfo(n)[1] = q
        BY <4>3, <4>4, Zenon
      <4>6. Len(safetyData[n]) # 1
        <5>1. Len(safetyData[n]) = 1 => safetyData[n][1] = q
          BY <4>5, ViewInfoOne, Zenon DEF ViewsInv, DiskOK, LockOK
        <5> QED
          BY <2>3, <3>1, <5>1, Zenon DEF StateOK
      <4>7. Len(safetyData[n]) \in {0, 1}
        BY Zenon DEF ViewsInv, DiskOK, LockOK
      <4> QED
        BY <2>3, <4>5, <4>6, <4>7, ViewInfoOne, Zenon
    <3>2. committed[n] \in Tesseracts
      BY NodeType, Zenon
    <3> QED
      BY <2>3, <3>1, <3>2, PrefixOf, Zenon DEF HasTS
  <2>8. committed[n] \in Tesseracts
    BY NodeType, Zenon
  <2> QED
    BY <1>1, <2>6, <2>7, <2>8, PrefixOf, Zenon
<1> QED
  BY <1>2, <1>3, Zenon

\* The operator takes an answer and makes no tesseract.
LEMMA CollectsAgrees ==
    ASSUME StepBase, NEW n \in Nodes, NEW m \in msgs, NEW e, Answered(n, m, e),
           (e.step = cluster[n].step /\ e.ts = cluster[n].ts) \/ e.step = "stuck"
    PROVE  AgreeInv'
<1> USE DEF StepBase
<1> TypeOK /\ TypeOK'
  BY Zenon DEF ViewsInv
<1>1. /\ m.type = "prepared" /\ m.view = cluster[n].view
      /\ cluster' = [cluster EXCEPT ![n] = e] /\ msgs' = msgs \ {m}
      /\ UNCHANGED <<view, disk, votes, certs>> /\ AtStep(n, {"prepare", "proposing"})
      /\ e.view = cluster[n].view /\ e.responded = cluster[n].responded \cup {m.from}
  BY Zenon DEF Answered
<1>2. cluster'[n] = e /\ KeepsDisk(n) /\ \A r \in Nodes \ {n} : Same(r)
  BY <1>1, SetCluster, Zenon
<1>3. Running(n) /\ e.step \in {"prepare", "proposing", "stuck"}
  BY <1>1, Zenon DEF AtStep
<1>4. /\ ~ AtStep(n, {"committing"})'
      /\ AtStep(n, Engaged)' => AtStep(n, Engaged)
      /\ AtStep(n, {"prepare"})' => AtStep(n, {"prepare"})
      /\ AtStep(n, {"proposing"} \cup Voting)' => AtStep(n, {"proposing"} \cup Voting) /\ e.ts = cluster[n].ts
  BY <1>2, <1>3, Zenon DEF AtStep, Engaged, Voting
<1>5. Moves(n) /\ StateParts(n)
  BY <1>1, <1>2, <1>4, Zenon DEF Moves, StateParts
<1>6. Advances
  BY <1>5, MovesAdvance, Zenon
<1>7. PICK h : h = e.highest /\ h = IF Higher(m.info, cluster[n].highest) THEN m.info ELSE cluster[n].highest
  BY Zenon DEF Answered
<1>8. AtStep(n, {"prepare"}) =>
          /\ h = ViewInfo(n) \/ h[1].view > Report(n)
          /\ ReportOK(h[1]) /\ Seen(h[1].ts)
          /\ \A r \in cluster[n].responded \cup {m.from} : Told(r, cluster[n].view, h[1].view)
  BY <1>1, <1>7, CollectMore, Zenon
<1>9. CollectOK(n)'
  <2> SUFFICES ASSUME AtStep(n, {"prepare"})' PROVE CollectOK(n)'
    BY Zenon DEF CollectOK
  <2>1. PICK w \in Nat : w = cluster[n].view
    BY <1>3, ClusterType, Zenon
  <2>2. PICK u : u = h[1].view
    BY Zenon
  <2>3. PICK R \in SUBSET Nodes : R = cluster[n].responded \cup {m.from}
    <3>1. cluster[n].responded \in SUBSET Nodes /\ m.from \in Nodes
      BY <1>1, <1>3, ClusterType, MessageType, Zenon DEF TypeOK
    <3> QED
      BY <3>1, Zenon
  <2>4. \A r \in R : Told(r, w, u)'
    BY <1>4, <1>6, <1>8, <2>1, <2>2, <2>3, ToldKept, Zenon
  <2>5. Report(n)' = Report(n) /\ ViewInfo(n)' = ViewInfo(n)
    BY <1>2, Zenon DEF KeepsDisk, Report, ViewInfo
  <2> QED
    BY <1>1, <1>2, <1>4, <1>7, <1>8, <2>1, <2>2, <2>3, <2>4, <2>5, Zenon DEF CollectOK, ReportOK
<1>10. NewsOK(n) /\ \A l \in msgs' \ msgs : AnswerOK(l)'
  <2>1. ASSUME NEW t \in Tesseracts, SeenBy(n, t)' PROVE Seen(t)
    BY <1>2, <1>4, <1>7, <1>8, <2>1, Zenon DEF SeenBy, KeepsDisk, Seen
  <2> QED
    BY <1>1, <2>1, Zenon DEF NewsOK
<1> QED
  BY <1>1, <1>2, <1>5, <1>9, <1>10, QuietAgrees, Zenon

\* The operator makes the tesseract of its view.
LEMMA MakesAgrees ==
    ASSUME StepBase, ProposesUnlocked, NEW n \in Nodes, NEW m \in msgs, NEW e, Answered(n, m, e),
           cluster[n].step = "prepare", Cardinality(e.responded) >= Quorum,
           e.step = "proposing", e.ts = Append(committed[n], cluster[n].view),
           ~ MustGiveUp(n, e.highest, cluster[n].local)
    PROVE  AgreeInv'
<1> USE DEF StepBase
<1> TypeOK /\ TypeOK' /\ DiskOK(n) /\ ClusterOK(n)
  BY Zenon DEF ViewsInv
<1>1. /\ m.type = "prepared" /\ m.view = cluster[n].view /\ n = Operator(cluster[n].view)
      /\ view[n] = cluster[n].view
      /\ cluster' = [cluster EXCEPT ![n] = e] /\ msgs' = msgs \ {m}
      /\ UNCHANGED <<view, disk, votes, certs>> /\ AtStep(n, {"prepare"}) /\ Running(n)
      /\ e.view = cluster[n].view /\ e.responded = cluster[n].responded \cup {m.from}
  BY Zenon DEF Answered, AtStep
<1>2. cluster'[n] = e /\ KeepsDisk(n) /\ \A r \in Nodes \ {n} : Same(r)
  BY <1>1, SetCluster, Zenon
<1>3. AtStep(n, {"proposing"})'
  <2>1. e \notin {None, Down}
    BY ViewsAssumption, Zenon DEF Answered
  <2> QED
    BY <1>2, <2>1, Zenon DEF AtStep, Running
<1>4. /\ ~ AtStep(n, {"committing"})' /\ ~ AtStep(n, {"prepare"})'
      /\ AtStep(n, {"proposing"} \cup Voting)' => cluster'[n].ts = e.ts
  BY <1>2, Zenon DEF AtStep
<1>5. Moves(n) /\ StateParts(n) /\ Advances
  <2>1. Moves(n) /\ StateParts(n)
    BY <1>1, <1>2, <1>4, Zenon DEF Moves, StateParts
  <2> QED
    BY <2>1, MovesAdvance, Zenon
<1>6. PICK h : h = e.highest /\ h = IF Higher(m.info, cluster[n].highest) THEN m.info ELSE cluster[n].highest
  BY Zenon DEF Answered
<1>7. PICK w \in Nat : w = cluster[n].view /\ w \in Views
  BY <1>1, ClusterType, Zenon
<1>8. PICK q \in Qcs :
          /\ q = h[1] /\ (<<q>> = ViewInfo(n) \/ q.view > Report(n))
          /\ ReportOK(q) /\ Seen(q.ts)
          /\ \A r \in e.responded : Told(r, w, q.view)
  <2>1. /\ h \in Seq(Qcs) /\ Len(h) = 1 /\ h[1] \in Qcs
        /\ h = ViewInfo(n) \/ h[1].view > Report(n)
        /\ ReportOK(h[1]) /\ Seen(h[1].ts)
        /\ \A r \in e.responded : Told(r, w, h[1].view)
    BY <1>1, <1>6, <1>7, CollectMore, Zenon
  <2>2. h = <<h[1]>>
    BY <2>1
  <2> QED
    BY <2>1, <2>2, Zenon
<1>9. q.type = "precommit" /\ HasTS(n, q.ts)
  <2>1. cluster'[n].highest[1].type = "precommit"
    BY <1>1, <1>3, Zenon DEF ProposesUnlocked
  <2>2. HasTS(n, e.highest[1].ts)
    BY Zenon DEF MustGiveUp
  <2> QED
    BY <1>2, <1>6, <1>8, <2>1, <2>2, Zenon
<1>10. PICK T \in Tesseracts : T = Append(committed[n], w) /\ Len(T) > 0 /\ Last(T) = w
  BY <1>1, <1>7, MadeTS, Zenon
<1>11. PICK V \in SUBSET Nodes : V = e.responded /\ Cardinality(V) >= Quorum
  BY Zenon DEF Answered, Clusters
<1>12. ASSUME NEW t \in Tesseracts, Seen(t)' PROVE Seen(t) \/ t = T
  <2>1. SeenBy(n, t)' => Seen(t) \/ t = T
    BY <1>2, <1>4, <1>7, <1>10, Zenon DEF SeenBy, KeepsDisk, Seen
  <2> QED
    BY <1>1, <1>2, <1>12, <2>1, SeenFrom, Zenon
<1>13. ~ Made(w)
  BY <1>1, <1>7, Zenon DEF Made
<1>14. Made(w)' /\ QuorumPast(w)'
  <2>1. w >= w
    BY <1>7
  <2>2. Made(w)'
    BY <1>1, <1>4, <1>7, <2>1, Zenon DEF Made
  <2>3. QuorumPast(w)
    BY <1>8, <1>11, Zenon DEF QuorumPast, Told
  <2> QED
    BY <1>5, <2>2, <2>3, QuorumPastKept, Zenon
<1>15. SeenOK'
  <2> SUFFICES ASSUME NEW t \in Tesseracts, Seen(t)', Len(t) > 0
               PROVE  Made(Last(t))' /\ QuorumPast(Last(t))'
    BY Zenon DEF SeenOK
  <2>1. CASE t = T
    BY <1>10, <1>14, <2>1, Zenon
  <2>2. CASE Seen(t)
    <3>1. PICK v \in Views : v = Last(t) /\ v \in Nat
      BY LastIsView, Zenon
    <3>2. Made(v) /\ QuorumPast(v)
      BY <2>2, <3>1, Zenon DEF AgreeInv, SeenOK
    <3> QED
      BY <1>5, <3>1, <3>2, MadeKept, QuorumPastKept, Zenon
  <2> QED
    BY <1>12, <2>1, <2>2, Zenon
<1>16. ASSUME NEW s \in Tesseracts, Seen(s), Len(s) > 0
       PROVE  /\ Last(s) # w
              /\ Last(s) < w => IsPrefix(s, T) \/ Refused(Last(s))
              /\ w < Last(s) => Refused(w)
  <2>1. PICK v \in Nat : v = Last(s)
    BY <1>16, LastIsView, Zenon
  <2>2. Made(v) /\ QuorumPast(v)
    BY <1>16, <2>1, Zenon DEF AgreeInv, SeenOK
  <2>3. v < w => IsPrefix(s, committed[n]) \/ Refused(v)
    BY <1>8, <1>9, <1>11, <1>16, <2>1, ExtendsOrRefused, Zenon
  <2>4. committed[n] \in Tesseracts
    BY NodeType, Zenon
  <2>5. IsPrefix(s, committed[n]) => IsPrefix(s, T)
    BY <1>10, <2>4, PrefixOf, Zenon
  <2>6. ASSUME w < v PROVE Refused(w)
    <3>1. w + 1 \in Nat /\ w + 1 <= v
      BY <2>6
    <3>2. PICK W \in SUBSET Nodes : Cardinality(W) >= Quorum /\ \A r \in W : Past(r, v)
      BY <2>2, Zenon DEF QuorumPast
    <3>3. \A r \in W : Past(r, w + 1)
      BY <3>1, <3>2, PastEarlier, Zenon
    <3>4. \A r \in W : ~ Precommits(r, w)
      BY <1>7, <1>13, Zenon DEF AgreeInv, LocksOK
    <3> QED
      BY <3>2, <3>3, <3>4, Zenon DEF Refused
  <2> QED
    BY <1>13, <2>1, <2>2, <2>3, <2>5, <2>6, Zenon
<1>17. ChainsOK'
  <2> SUFFICES ASSUME NEW s \in Tesseracts, NEW t \in Tesseracts, Seen(s)', Seen(t)', Len(s) > 0, Len(t) > 0
               PROVE  /\ Last(s) = Last(t) => s = t
                      /\ Last(s) < Last(t) => IsPrefix(s, t) \/ Refused(Last(s))'
    BY Zenon DEF ChainsOK
  <2>1. PICK v \in Views : v = Last(s)
    BY LastIsView, Zenon
  <2>2. (Refused(v) => Refused(v)') /\ (Refused(w) => Refused(w)')
    BY <1>5, <1>7, RefusedKept, Zenon
  <2>3. CASE Seen(s) /\ Seen(t)
    <3>1. /\ Last(s) = Last(t) => s = t
          /\ Last(s) < Last(t) => IsPrefix(s, t) \/ Refused(v)
      BY <2>1, <2>3, Zenon DEF AgreeInv, ChainsOK
    <3> QED
      BY <2>1, <2>2, <3>1, Zenon
  <2>4. CASE Seen(s) /\ t = T
    BY <1>10, <1>16, <2>1, <2>2, <2>4, Zenon
  <2>5. CASE s = T /\ Seen(t)
    BY <1>10, <1>16, <2>1, <2>2, <2>5, Zenon
  <2>6. CASE s = T /\ t = T
    <3>1. ~ (w < w)
      BY <1>7
    <3> QED
      BY <1>10, <2>6, <3>1, Zenon
  <2> QED
    BY <1>12, <2>3, <2>4, <2>5, <2>6, Zenon
<1>18. StateOK(n)' /\ CollectOK(n)'
  BY <1>2, <1>4, <1>5, StateKept, Zenon DEF AgreeInv, CollectOK
<1>19. /\ \A l \in msgs' \ msgs : AnswerOK(l)'
       /\ \A c \in certs' \ certs : c.type = "precommit" => Precommitted(c.view)'
  BY <1>1, Zenon
<1> QED
  BY <1>5, <1>15, <1>17, <1>18, <1>19, OneNodeAgrees, Zenon

LEMMA HandlePreparedAgrees ==
    ASSUME StepBase, ProposesUnlocked, NEW n \in Nodes, NEW m \in msgs, HandlePrepared(n, m)
    PROVE  AgreeInv'
<1>1. PICK e : Answered(n, m, e)
  BY PreparedAnswered, Zenon DEF StepBase
<1>2. CASE (e.step = cluster[n].step /\ e.ts = cluster[n].ts) \/ e.step = "stuck"
  BY <1>1, <1>2, CollectsAgrees, Zenon
<1>3. CASE /\ cluster[n].step = "prepare" /\ Cardinality(e.responded) >= Quorum
           /\ e.step = "proposing" /\ e.ts = Append(committed[n], cluster[n].view)
           /\ ~ MustGiveUp(n, e.highest, cluster[n].local)
  BY <1>1, <1>3, MakesAgrees, Zenon
<1> QED
  BY <1>1, <1>2, <1>3, Zenon DEF Answered

-----------------------------------------------------------------------------
(* The steps that write to the disk.                                       *)

\* A step of one node that sends no message, and does not ask for reports.
LEMMA DiskAgrees ==
    ASSUME StepBase, NEW n \in Nodes, Moves(n), StateOK(n)', ~ AtStep(n, {"prepare"})',
           \A t \in Tesseracts : SeenBy(n, t)' => Seen(t), UNCHANGED msgs,
           \A c \in certs' \ certs : c.type = "precommit" => Precommitted(c.view)'
    PROVE  AgreeInv'
<1> USE DEF StepBase
<1>1. TypeOK /\ TypeOK' /\ SeenOK /\ ChainsOK
  BY Zenon DEF ViewsInv, AgreeInv
<1>2. Advances
  BY <1>1, MovesAdvance, Zenon
<1>3. NewsOK(n) /\ \A m \in msgs' \ msgs : AnswerOK(m)'
  BY Zenon DEF NewsOK
<1>4. \A t \in Tesseracts : Seen(t)' => Seen(t)
  BY <1>3, NothingNew, Zenon DEF Moves
<1>5. SeenOK' /\ ChainsOK' /\ CollectOK(n)'
  BY <1>1, <1>2, <1>4, SeenKept, Zenon DEF CollectOK
<1> QED
  BY <1>2, <1>3, <1>5, OneNodeAgrees, Zenon

\* A stored proposal is from no later view than the one its node reports.
LEMMA StoredKept ==
    ASSUME StepBase, NEW n \in Nodes, NEW t \in proposalInfo[n]
    PROVE  Len(t) > 0 /\ Last(t) <= Report(n)'
<1> USE DEF StepBase
<1>1. t \in Tesseracts /\ Len(t) > 0 /\ Last(t) <= Report(n)
  BY Zenon DEF AgreeInv, StateOK, ViewsInv, TypeOK
<1>2. Last(t) \in Nat
  BY <1>1, LastIsView, Zenon
<1>3. Report(n) \in Nat /\ Report(n)' \in Nat /\ Report(n) <= Report(n)'
  BY ReportedNext, ReportGrows, Zenon DEF Reported, Report
<1> QED
  BY <1>1, <1>2, <1>3

\* A PRECOMMIT certificate is of a quorum of precommits.
LEMMA CertPrecommitted ==
    ASSUME ViewsInv, AgreeInv, NEW n \in Nodes, Running(n), HasCert(n, "precommit")
    PROVE  Precommitted(cluster[n].view)
<1>1. PICK v \in Views : v = cluster[n].view
  BY ClusterType, Zenon DEF ViewsInv
<1>2. CASE n = Operator(v)
  <2> DEFINE W == {w \in votes : w.type = "precommit" /\ w.view = v}
             V == {w.node : w \in W}
  <2>1. \A w \in W : /\ w \in [type : {"prevote", "precommit"}, view : Views, node : Nodes]
                     /\ w.type = "precommit" /\ w.view = v /\ w.node \in Nodes
    BY Zenon DEF ViewsInv, TypeOK
  <2>2. W \in SUBSET [type : {"precommit"}, view : {v}, node : Nodes]
    BY <2>1, Zenon
  <2>3. Cardinality(W) >= Quorum
    BY <1>1, <1>2, Zenon DEF HasCert
  <2>4. Cardinality(V) >= Quorum
    BY <2>2, <2>3, VotersCount, Zenon
  <2>5. ASSUME NEW w \in W PROVE w.node \in Nodes /\ Precommits(w.node, v)
    <3>1. w = [type |-> "precommit", view |-> v, node |-> w.node]
      BY <2>1
    <3> QED
      BY <2>1, <3>1, Zenon DEF Precommits
  <2>6. V \in SUBSET Nodes /\ \A r \in V : Precommits(r, v)
    BY <2>5, Zenon
  <2> QED
    BY <1>1, <2>4, <2>6, Zenon DEF Precommitted
<1>3. CASE n # Operator(v)
  <2> DEFINE c == [type |-> "precommit", view |-> v]
  <2>1. c \in certs /\ c.type = "precommit" /\ c.view = v
    BY <1>1, <1>3, Zenon DEF HasCert
  <2> HIDE DEF c
  <2> QED
    BY <1>1, <2>1, Zenon DEF AgreeInv, LocksOK
<1> QED
  BY <1>2, <1>3, Zenon

\* A node stores the certificate of its cluster, which goes on to the step s or is lost.
LEMMA LockingAgrees ==
    ASSUME StepBase, NEW n \in Nodes, NEW type \in {"prevote", "precommit"},
           AtStep(n, {"prevoted"}) \/ (AtStep(n, {"precommitted"}) /\ type = "precommit"),
           type = "precommit" => Precommitted(cluster[n].view),
           NEW e, \/ ~ Running(n)'
                  \/ /\ e.step = "precommitted" \/ (e.step = "committing" /\ type = "precommit")
                     /\ e.view = cluster[n].view /\ e.ts = cluster[n].ts,
           NEW P \in SUBSET (proposalInfo[n] \cup {cluster[n].ts}),
           type = "precommit" => cluster[n].ts \notin P,
           cluster' = [cluster EXCEPT ![n] = e],
           safetyData' = [safetyData EXCEPT ![n] = UpdateQc(safetyData[n], Certificate(n, type))],
           proposalInfo' = [proposalInfo EXCEPT ![n] = P],
           UNCHANGED <<view, committed, commitView, msgs>>,
           votes \subseteq votes',
           \A w \in votes' \ votes : /\ w.node = n /\ w.view = cluster[n].view
                                     /\ AtStep(n, {"prevoted"}),
           \A c \in certs' \ certs : c.type = type /\ c.view = cluster[n].view
    PROVE  AgreeInv'
<1> USE DEF StepBase
<1> /\ TypeOK /\ TypeOK' /\ DiskOK(n) /\ ClusterOK(n) /\ StateOK(n) /\ Running(n)
    /\ AtStep(n, {"proposing", "prevoted", "precommitted", "committing"})
    /\ AtStep(n, {"proposing"} \cup Voting)
  BY Zenon DEF ViewsInv, AtStep, Voting, AgreeInv
<1>1. PICK v \in Views : v = cluster[n].view /\ v \in Nat
  BY ClusterType, Zenon
<1>2. PICK t \in Tesseracts : t = cluster[n].ts /\ Len(t) > 0 /\ Last(t) = v
  <2>1. /\ cluster[n].ts \in Tesseracts /\ Len(cluster[n].ts) = Len(committed[n]) + 1
        /\ Len(committed[n]) \in Nat /\ Last(cluster[n].ts) = v
    BY <1>1, VoteTS, Zenon
  <2>2. Len(cluster[n].ts) > 0
    BY <2>1
  <2> QED
    BY <2>1, <2>2, Zenon
<1>3. /\ cluster'[n] = e /\ proposalInfo'[n] = P
      /\ safetyData'[n] = UpdateQc(safetyData[n], Certificate(n, type))
      /\ \A r \in Nodes \ {n} : Same(r)
  BY Zenon DEF TypeOK, Same, KeepsDisk
<1>4. PICK q : q = Certificate(n, type) /\ q.type = type /\ q.view = v /\ q.ts = t
  <2>1. /\ Certificate(n, type).type = type /\ Certificate(n, type).view = cluster[n].view
        /\ Certificate(n, type).ts = cluster[n].ts
    BY Zenon DEF Certificate
  <2> QED
    BY <1>1, <1>2, <2>1, Zenon
<1>5. Len(safetyData'[n]) = 1 /\ safetyData'[n][1] = q
  BY <1>3, <1>4, LockTaken, Zenon
<1>6. Report(n)' = v
  BY <1>4, <1>5, ReportedNext, Zenon DEF Reported, Report
<1>7. /\ ~ AtStep(n, {"prepare"})' /\ ~ AtStep(n, Engaged)'
      /\ AtStep(n, {"committing"})' => type = "precommit" /\ cluster'[n].view = v
      /\ AtStep(n, {"proposing"} \cup Voting)' => cluster'[n].ts = t
  BY <1>1, <1>2, <1>3, Zenon DEF AtStep, Engaged
<1>8. Moves(n)
  BY <1>1, <1>3, <1>6, <1>7, Zenon DEF Moves
<1>9. Advances
  BY <1>8, MovesAdvance, Zenon
<1>10. type = "precommit" => Precommitted(v)'
  BY <1>1, <1>9, PrecommittedKept, Zenon
<1>11. StateOK(n)'
  <2>1. Len(committed'[n]) > 0 => Precommitted(commitView[n])'
    <3>1. PICK x : x = commitView[n]
      BY Zenon
    <3>2. Len(committed'[n]) > 0 => Precommitted(x)
      BY <3>1, Zenon DEF StateOK
    <3> QED
      BY <1>9, <3>1, <3>2, PrecommittedKept, Zenon
  <2>2. ReportOK(q)
    BY <1>2, <1>4, Zenon DEF ReportOK
  <2>3. \A x \in P : Len(x) > 0 /\ Last(x) <= Report(n)'
    <3>1. v <= v
      BY <1>1
    <3> QED
      BY <1>2, <1>6, <3>1, StoredKept, Zenon
  <2> QED
    BY <1>2, <1>3, <1>4, <1>5, <1>7, <1>10, <2>1, <2>2, <2>3, Zenon DEF StateOK, ReportOK
<1>12. \A x \in Tesseracts : SeenBy(n, x)' => Seen(x)
  BY <1>2, <1>4, <1>5, <1>7, Zenon DEF SeenBy, Seen
<1>13. \A c \in certs' \ certs : c.type = "precommit" => Precommitted(c.view)'
  BY <1>1, <1>10, Zenon
<1> QED
  BY <1>7, <1>8, <1>11, <1>12, <1>13, DiskAgrees, Zenon

\* A node locks the account, and precommits unless it crashes before.
LEMMA EnterPreCommitAgrees ==
    ASSUME StepBase, NEW n \in Nodes, EnterPreCommit(n) \/ CrashInUpdate(n)
    PROVE  AgreeInv'
<1> USE DEF StepBase
<1> TypeOK /\ AtStep(n, {"prevoted"}) /\ Running(n)
  BY Zenon DEF ViewsInv, EnterPreCommit, CrashInUpdate, In, AtStep, Running
<1> "precommit" # "prevote"
  OBVIOUS
<1>1. CASE EnterPreCommit(n)
  <2> DEFINE P == proposalInfo[n] \cup {cluster[n].ts}
             d == [cluster[n] EXCEPT !.step = "precommitted"]
             w == [type |-> "precommit", view |-> cluster[n].view, node |-> n]
             b == [type |-> "prevote", view |-> cluster[n].view]
  <2>1. d.step = "precommitted" /\ d.ts = cluster[n].ts /\ d.view = cluster[n].view
    BY ClusterType, SetStep, Zenon DEF Voting
  <2>2. /\ cluster' = [cluster EXCEPT ![n] = d]
        /\ safetyData' = [safetyData EXCEPT ![n] = UpdateQc(safetyData[n], Certificate(n, "prevote"))]
        /\ proposalInfo' = [proposalInfo EXCEPT ![n] = P]
        /\ votes' = votes \cup {w} /\ certs' \subseteq certs \cup {b}
        /\ UNCHANGED <<view, committed, commitView, msgs>>
    BY <1>1, Zenon DEF EnterPreCommit, UpdateSafetyInfo, proposalsAfter, Certificate, SendCert
  <2>3. w.node = n /\ w.view = cluster[n].view
    BY Zenon
  <2>4. b.type = "prevote" /\ b.view = cluster[n].view
    BY Zenon
  <2>5. P \in SUBSET (proposalInfo[n] \cup {cluster[n].ts})
    BY Zenon
  <2> HIDE DEF P, d, w, b
  <2>6. /\ \A x \in votes' \ votes : x.node = n /\ x.view = cluster[n].view
        /\ \A c \in certs' \ certs : c.type = "prevote" /\ c.view = cluster[n].view
    BY <2>2, <2>3, <2>4, Zenon
  <2> QED
    BY <2>1, <2>2, <2>5, <2>6, LockingAgrees, Zenon
<1>2. CASE CrashInUpdate(n)
  <2>1. /\ cluster' = [cluster EXCEPT ![n] = Down]
        /\ safetyData' = [safetyData EXCEPT ![n] = UpdateQc(safetyData[n], Certificate(n, "prevote"))]
        /\ proposalInfo' = [proposalInfo EXCEPT ![n] = proposalInfo[n]]
        /\ UNCHANGED <<view, committed, commitView, msgs, votes, certs>>
    BY <1>2, Zenon DEF CrashInUpdate, MayCrash, TypeOK
  <2>2. ~ Running(n)'
    BY <2>1, Zenon DEF Running, TypeOK
  <2> QED
    BY <2>1, <2>2, LockingAgrees, Zenon
<1> QED
  BY <1>1, <1>2, Zenon

\* A node stores the certificate of a commit.
LEMMA EnterCommitAgrees ==
    ASSUME StepBase, NEW n \in Nodes, EnterCommit(n)
    PROVE  AgreeInv'
<1> USE DEF StepBase
<1> DEFINE P == proposalInfo[n] \ {cluster[n].ts}
           d == [cluster[n] EXCEPT !.step = "committing"]
           b == [type |-> "precommit", view |-> cluster[n].view]
<1>1. TypeOK /\ (AtStep(n, {"prevoted"}) \/ AtStep(n, {"precommitted"})) /\ Running(n)
  BY Zenon DEF EnterCommit, In, AtStep, Running, ViewsInv
<1>2. Precommitted(cluster[n].view)
  BY <1>1, CertPrecommitted, Zenon DEF EnterCommit
<1>3. d.step = "committing" /\ d.ts = cluster[n].ts /\ d.view = cluster[n].view
  BY <1>1, ClusterType, SetStep, Zenon DEF Voting
<1>4. /\ cluster' = [cluster EXCEPT ![n] = d]
      /\ safetyData' = [safetyData EXCEPT ![n] = UpdateQc(safetyData[n], Certificate(n, "precommit"))]
      /\ proposalInfo' = [proposalInfo EXCEPT ![n] = P]
      /\ certs' \subseteq certs \cup {b}
      /\ UNCHANGED <<view, committed, commitView, msgs, votes>>
  BY Zenon DEF EnterCommit, UpdateSafetyInfo, proposalsAfter, Certificate, SendCert
<1>5. P \in SUBSET (proposalInfo[n] \cup {cluster[n].ts}) /\ cluster[n].ts \notin P
  BY Zenon
<1>6. b.type = "precommit" /\ b.view = cluster[n].view
  BY Zenon
<1> HIDE DEF P, d, b
<1>7. \A c \in certs' \ certs : c.type = "precommit" /\ c.view = cluster[n].view
  BY <1>4, <1>6, Zenon
<1> QED
  BY <1>1, <1>2, <1>3, <1>4, <1>5, <1>7, LockingAgrees, Zenon

\* The tesseract of a commit is added.
LEMMA AddAgrees ==
    ASSUME StepBase, NEW n \in Nodes, In(n, "committing"),
           committed' = [committed EXCEPT ![n] = cluster[n].ts],
           commitView' = [commitView EXCEPT ![n] = cluster[n].view],
           cluster' = [cluster EXCEPT ![n].step = "added"],
           UNCHANGED <<view, safetyData, proposalInfo, msgs, votes, certs>>
    PROVE  AgreeInv'
<1> USE DEF StepBase
<1> /\ TypeOK /\ TypeOK' /\ StateOK(n) /\ AtStep(n, {"committing"}) /\ Running(n)
    /\ AtStep(n, {"proposing"} \cup Voting)
  BY Zenon DEF ViewsInv, In, AtStep, Running, Voting, AgreeInv
<1> DEFINE d == [cluster[n] EXCEPT !.step = "added"]
<1>1. PICK v : v = cluster[n].view
  BY Zenon
<1>2. d.step = "added" /\ d.ts = cluster[n].ts /\ cluster' = [cluster EXCEPT ![n] = d]
  BY ClusterType, SetStep, Zenon DEF Voting
<1> HIDE DEF d
<1>3. /\ cluster'[n] = d /\ committed'[n] = cluster[n].ts /\ commitView'[n] = v
      /\ safetyData'[n] = safetyData[n] /\ proposalInfo'[n] = proposalInfo[n]
      /\ \A r \in Nodes \ {n} : Same(r)
  BY <1>1, <1>2, Zenon DEF TypeOK, Same, KeepsDisk
<1>4. ~ AtStep(n, {"prepare"})' /\ ~ AtStep(n, Engaged)' /\ ~ AtStep(n, {"committing"})'
  BY <1>2, <1>3, Zenon DEF AtStep, Engaged
<1>5. Moves(n)
  BY <1>3, <1>4, Zenon DEF Moves
<1>6. Advances
  BY <1>5, MovesAdvance, Zenon
<1>7. Precommitted(v)'
  BY <1>1, <1>6, PrecommittedKept, Zenon DEF StateOK
<1>8. \A t \in proposalInfo[n] : Len(t) > 0 /\ Last(t) <= Report(n)'
  BY StoredKept, Zenon
<1>9. StateOK(n)'
  BY <1>3, <1>4, <1>7, <1>8, Zenon DEF StateOK, ReportOK
<1>10. \A t \in Tesseracts : SeenBy(n, t)' => Seen(t)
  BY <1>2, <1>3, <1>4, Zenon DEF SeenBy, Seen
<1> QED
  BY <1>4, <1>5, <1>9, <1>10, DiskAgrees, Zenon

\* The safety data is deleted.
LEMMA DeleteAgrees ==
    ASSUME StepBase, NEW n \in Nodes,
           safetyData' = [safetyData EXCEPT ![n] = <<>>],
           cluster' = [cluster EXCEPT ![n] = None],
           UNCHANGED <<view, committed, commitView, proposalInfo, msgs, votes, certs>>
    PROVE  AgreeInv'
<1> USE DEF StepBase
<1> TypeOK /\ TypeOK' /\ StateOK(n)
  BY Zenon DEF ViewsInv, AgreeInv
<1> DEFINE e == <<>>
<1>1. Len(e) # 1 /\ safetyData' = [safetyData EXCEPT ![n] = e]
  OBVIOUS
<1> HIDE DEF e
<1>2. cluster'[n] = None /\ safetyData'[n] = e /\ \A r \in Nodes \ {n} : Same(r)
  BY <1>1, Zenon DEF TypeOK, Same, KeepsDisk
<1>3. \A S : ~ AtStep(n, S)'
  BY <1>2, Zenon DEF Running, AtStep
<1>4. Moves(n)
  BY <1>2, <1>3, Zenon DEF Moves
<1>5. Advances
  BY <1>4, MovesAdvance, Zenon
<1>6. Len(committed[n]) > 0 => Precommitted(commitView[n])'
  <2>1. PICK x : x = commitView[n]
    BY Zenon
  <2> QED
    BY <1>5, <2>1, PrecommittedKept, Zenon DEF StateOK
<1>7. \A t \in proposalInfo[n] : Len(t) > 0 /\ Last(t) <= Report(n)'
  BY StoredKept, Zenon
<1>8. StateOK(n)'
  BY <1>1, <1>2, <1>3, <1>6, <1>7, Zenon DEF StateOK
<1>9. \A t \in Tesseracts : SeenBy(n, t)' => Seen(t)
  BY <1>1, <1>2, <1>3, Zenon DEF SeenBy, Seen
<1> QED
  BY <1>3, <1>4, <1>8, <1>9, DiskAgrees, Zenon

\* A tesseract that another node has committed is added.
LEMMA SyncAgrees ==
    ASSUME StepBase, NEW n \in Nodes, NEW m \in Nodes, Sync(n, m)
    PROVE  AgreeInv'
<1> USE DEF StepBase
<1> TypeOK /\ TypeOK' /\ StateOK(n) /\ StateOK(m)
  BY Zenon DEF ViewsInv, AgreeInv
<1>1. /\ committed'[n] = committed[m] /\ commitView'[n] = commitView[m] /\ cluster'[n] = cluster[n]
      /\ safetyData'[n] = safetyData[n] /\ proposalInfo'[n] = proposalInfo[n]
      /\ \A r \in Nodes \ {n} : Same(r)
      /\ ~ Running(n)' /\ UNCHANGED <<view, msgs, votes, certs>>
  BY Zenon DEF Sync, TypeOK, Same, KeepsDisk, Free, Running
<1>2. \A S : ~ AtStep(n, S)'
  BY <1>1, Zenon DEF AtStep
<1>3. Moves(n)
  BY <1>1, <1>2, Zenon DEF Moves
<1>4. Advances
  BY <1>3, MovesAdvance, Zenon
<1>5. PICK x : x = commitView[m] /\ (Len(committed[m]) > 0 => Precommitted(x)')
  BY <1>4, PrecommittedKept, Zenon DEF StateOK
<1>6. \A t \in proposalInfo[n] : Len(t) > 0 /\ Last(t) <= Report(n)'
  BY StoredKept, Zenon
<1>7. StateOK(n)'
  BY <1>1, <1>2, <1>5, <1>6, Zenon DEF StateOK, ReportOK
<1>8. \A t \in Tesseracts : SeenBy(n, t)' => Seen(t)
  BY <1>1, <1>2, Zenon DEF SeenBy, Seen
<1> QED
  BY <1>1, <1>2, <1>3, <1>7, <1>8, DiskAgrees, Zenon

-----------------------------------------------------------------------------
(* Agreement.                                                              *)

\* Nothing is committed, and no view has begun.
LEMMA InitAgrees == ViewsInv /\ Init => AgreeInv
<1> SUFFICES ASSUME ViewsInv, Init PROVE AgreeInv
  BY Zenon
<1>1. Len(<<>>) = 0
  OBVIOUS
<1>2. /\ votes = {} /\ certs = {} /\ msgs = {}
      /\ \A n \in Nodes : /\ committed[n] = <<>> /\ safetyData[n] = <<>> /\ proposalInfo[n] = {}
                          /\ ~ Running(n)
  BY Zenon DEF Init, Running
<1>3. \A n \in Nodes : Len(committed[n]) = 0 /\ Len(safetyData[n]) = 0
  BY <1>1, <1>2, Zenon
<1>4. \A n \in Nodes : ~ (Len(committed[n]) > 0) /\ Len(safetyData[n]) # 1
  BY <1>3
<1>5. \A n \in Nodes : \A S : ~ AtStep(n, S)
  BY <1>2, Zenon DEF AtStep
<1>6. ASSUME NEW t \in Tesseracts, Seen(t) PROVE ~ (Len(t) > 0)
  BY <1>2, <1>4, <1>5, <1>6, Zenon DEF Seen, SeenBy
<1>7. SeenOK /\ ChainsOK
  BY <1>6, Zenon DEF SeenOK, ChainsOK
<1>8. LocksOK
  BY <1>2, Zenon DEF LocksOK, Precommits
<1>9. \A n \in Nodes : StateOK(n) /\ CollectOK(n)
  BY <1>2, <1>4, <1>5, Zenon DEF StateOK, CollectOK
<1> QED
  BY <1>2, <1>7, <1>8, <1>9, Zenon DEF AgreeInv

\* Under the two rules every step keeps the invariant.
LEMMA NextAgrees ==
    ASSUME StepBase, [ProposesUnlocked /\ AnswersUnengaged]_vars
    PROVE  AgreeInv'
<1>1. CASE UNCHANGED vars
  BY <1>1, StutterAgrees, Zenon
<1>2. CASE Next /\ ProposesUnlocked /\ AnswersUnengaged
  <2>1. ASSUME NEW n \in Nodes, Finalize(n) PROVE AgreeInv'
    BY <2>1, AddAgrees, DeleteAgrees, Zenon DEF Finalize
  <2>2. ASSUME NEW n \in Nodes,
               \/ Tick(n) \/ Propose(n) \/ EnterPreCommit(n) \/ EnterCommit(n) \/ Finalize(n)
               \/ Timeout(n) \/ Crash(n) \/ CrashInUpdate(n)
        PROVE  AgreeInv'
    BY <2>1, <2>2, TickAgrees, ProposeAgrees, EnterPreCommitAgrees, EnterCommitAgrees,
       TimeoutAgrees, Zenon
  <2>3. ASSUME NEW n \in Nodes, NEW m \in msgs,
               HandlePrepare(n, m) \/ HandlePrepared(n, m) \/ HandleProposal(n, m)
        PROVE  AgreeInv'
    BY <1>2, <2>3, HandlePrepareAgrees, HandlePreparedAgrees, HandleProposalAgrees, Zenon
  <2> QED
    BY <1>2, <2>2, <2>3, SyncAgrees, Zenon DEF Next
<1> QED
  BY <1>1, <1>2, Zenon DEF StepBase

\* Of two committed tesseracts the one of the earlier view is an ancestor of the other.
LEMMA Agreement ==
    ASSUME ViewsInv, AgreeInv
    PROVE  AgreementAcrossViews
<1> SUFFICES ASSUME NEW n \in Nodes, NEW m \in Nodes
             PROVE  IsPrefix(committed[n], committed[m]) \/ IsPrefix(committed[m], committed[n])
  BY Zenon DEF AgreementAcrossViews
<1>1. TypeOK
  BY Zenon DEF ViewsInv
<1>2. PICK s \in Tesseracts : s = committed[n] /\ Len(s) \in Nat
  BY <1>1, NodeType, Zenon
<1>3. PICK t \in Tesseracts : t = committed[m] /\ Len(t) \in Nat
  BY <1>1, NodeType, Zenon
<1>4. CASE Len(s) = 0 \/ Len(t) = 0
  BY <1>2, <1>3, <1>4 DEF IsPrefix
<1>5. CASE Len(s) > 0 /\ Len(t) > 0
  <2>1. Seen(s) /\ Seen(t)
    BY <1>2, <1>3, Zenon DEF Seen, SeenBy
  <2>2. Precommitted(Last(s)) /\ Precommitted(Last(t))
    BY <1>2, <1>3, <1>5, Zenon DEF AgreeInv, StateOK, ViewsInv, DiskOK, ChainOK
  <2>3. ~ Refused(Last(s)) /\ ~ Refused(Last(t))
    BY <2>2, NotRefused, Zenon
  <2>4. Last(s) \in Nat /\ Last(t) \in Nat
    BY <1>5, LastIsView, Zenon
  <2>5. CASE Last(s) = Last(t)
    BY <1>2, <1>3, <1>5, <2>1, <2>5, PrefixOf, Zenon DEF AgreeInv, ChainsOK
  <2>6. CASE Last(s) < Last(t)
    BY <1>2, <1>3, <1>5, <2>1, <2>3, <2>6, Zenon DEF AgreeInv, ChainsOK
  <2>7. CASE Last(t) < Last(s)
    BY <1>2, <1>3, <1>5, <2>1, <2>3, <2>7, Zenon DEF AgreeInv, ChainsOK
  <2> QED
    BY <2>4, <2>5, <2>6, <2>7
<1> QED
  BY <1>2, <1>3, <1>4, <1>5

(***************************************************************************)
(* If no operator makes a new tesseract while the highest certificate it   *)
(* has collected is a lock (handlePrepared), and no node answers a PREPARE *)
(* while a cluster of it may still lock the account (handlePrepare), then  *)
(* no two nodes ever commit tesseracts neither of which descends from the  *)
(* other, for every context set, every number of views and any skew and    *)
(* crashes.  So these are the only two ways in which the model loses       *)
(* agreement: the order of the disk writes, a crash between them, deleted  *)
(* safety data, synced tesseracts and late messages add none.              *)
(***************************************************************************)
THEOREM AgreementUnderRules ==
    Spec /\ [][ProposesUnlocked /\ AnswersUnengaged]_vars => []AgreementAcrossViews
<1>1. ViewsInv /\ Init => AgreeInv
  BY InitAgrees, Zenon
<1>2. ViewsInv /\ ViewsInv' /\ AgreeInv /\ [Next]_vars /\ [ProposesUnlocked /\ AnswersUnengaged]_vars
          => AgreeInv'
  BY NextAgrees, Zenon DEF StepBase
<1>3. ViewsInv /\ AgreeInv => AgreementAcrossViews
  BY Agreement, Zenon
<1> QED
  BY <1>1, <1>2, <1>3, ViewsCorrect, PTL DEF Spec
=============================================================================
