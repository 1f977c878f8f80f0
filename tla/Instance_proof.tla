---------------------------- MODULE Instance_proof ----------------------------
(***************************************************************************)
(* First the vote sets of a cluster: they stay bounded and never panic,    *)
(* for any number of peers, any width of a view and any views the votes    *)
(* name.  A view is charged to the peer whose vote added it; the inductive *)
(* invariant says that a charged view has vote sets, so that it is not     *)
(* charged again, and that a peer is charged twice at most.                *)
(*                                                                         *)
(* Then the instance around them: the handler implements HeightVoteSet,    *)
(* whose panic for a view that lies back it never meets, because the step  *)
(* "newHeight" is left once and before any view is set.                    *)
(***************************************************************************)
EXTENDS Instance, FiniteSetTheorems, TLAPS

Charged ==
    \A v \in viewVoteSet \ leaderViews : \E p \in Peers : \E k \in 1 .. Len(catchup[p]) :
        catchup[p][k] = v

ChargedOnce ==
    \A p, q \in Peers : \A j \in 1 .. Len(catchup[p]), k \in 1 .. Len(catchup[q]) :
        catchup[p][j] = catchup[q][k] => p = q /\ j = k

ChargesAreTracked ==
    \A p \in Peers : \A k \in 1 .. Len(catchup[p]) : catchup[p][k] \in viewVoteSet

AtMostTwo == \A p \in Peers : Len(catchup[p]) <= 2

BoundInv ==
    /\ TypeOK
    /\ AtMostTwo
    /\ ChargesAreTracked
    /\ ChargedOnce
    /\ Charged
    /\ ~ panicked

-----------------------------------------------------------------------------
\* NewHeightVoteSet tracks view 0, which nobody is charged for.
LEMMA InitBound == Init => BoundInv
<1> SUFFICES ASSUME Init PROVE BoundInv
  BY Zenon
<1>1. Views \subseteq Nat /\ 0 \in Views
  BY HeightVoteSetAssumption DEF Views
<1>2. \A p \in Peers : catchup[p] = <<>> /\ Len(catchup[p]) = 0
  BY Zenon DEF Init
<1>3. TypeOK
  <2>1. catchup \in [Peers -> Seq(Views)]
    BY DEF Init
  <2>2. view \in Views /\ viewVoteSet \subseteq Views /\ leaderViews \subseteq viewVoteSet
    BY <1>1, Zenon DEF Init
  <2>3. panicked \in BOOLEAN
    BY Zenon DEF Init
  <2> QED
    BY <2>1, <2>2, <2>3, Zenon DEF TypeOK
<1>4. AtMostTwo
  BY <1>2 DEF AtMostTwo
<1>5. ChargesAreTracked /\ ChargedOnce
  BY <1>2 DEF ChargesAreTracked, ChargedOnce
<1>6. Charged /\ ~ panicked
  BY Zenon DEF Init, Charged
<1> QED
  BY <1>3, <1>4, <1>5, <1>6, Zenon DEF BoundInv

\* A vote of peer p for a view v without vote sets: the new entry is the only one for v.
LEMMA AddVoteBound ==
  ASSUME BoundInv, NEW p \in Peers, NEW v \in Views, AddVote(p, v)
  PROVE  BoundInv'
<1> USE DEF BoundInv
<1>1. CASE v \in viewVoteSet
  <2>1. /\ UNCHANGED <<view, catchup, leaderViews, panicked>>
        /\ viewVoteSet' = viewVoteSet
    BY <1>1, Zenon DEF AddVote
  <2> QED
    BY <2>1 DEF TypeOK, AtMostTwo, ChargesAreTracked, ChargedOnce, Charged
<1>2. CASE v \notin viewVoteSet
  <2>1. /\ UNCHANGED <<view, leaderViews, panicked>>
        /\ viewVoteSet' = viewVoteSet \cup {v}
        /\ catchup' = [catchup EXCEPT ![p] = Append(@, v)]
        /\ Len(catchup[p]) < 2
    BY <1>2, Zenon DEF AddVote
  <2>2. /\ catchup[p] \in Seq(Views) /\ Len(catchup[p]) \in Nat
        /\ catchup'[p] = Append(catchup[p], v)
        /\ \A q \in Peers \ {p} : catchup'[q] = catchup[q]
    BY <2>1 DEF TypeOK
  <2>3. /\ Len(catchup'[p]) = Len(catchup[p]) + 1
        /\ catchup'[p][Len(catchup[p]) + 1] = v
        /\ \A k \in 1 .. Len(catchup[p]) : catchup'[p][k] = catchup[p][k]
    BY <2>2
  <2>4. TypeOK'
    BY <2>1, <2>2 DEF TypeOK
  <2>5. AtMostTwo'
    BY <2>1, <2>2, <2>3 DEF AtMostTwo
  <2>6. ASSUME NEW q \in Peers, NEW k \in 1 .. Len(catchup'[q])
        PROVE  \/ q = p /\ k = Len(catchup[p]) + 1 /\ catchup'[q][k] = v
               \/ k \in 1 .. Len(catchup[q]) /\ catchup'[q][k] = catchup[q][k]
    <3>1. CASE q = p
      BY <2>2, <2>3, <3>1, SMTT(60)
    <3>2. CASE q # p
      BY <2>2, <3>2, Zenon
    <3> QED
      BY <3>1, <3>2, Zenon
  <2>7. ChargesAreTracked'
    BY <2>1, <2>6 DEF ChargesAreTracked
  <2>8. ChargedOnce'
    <3> SUFFICES ASSUME NEW q \in Peers, NEW r \in Peers,
                        NEW j \in 1 .. Len(catchup'[q]), NEW k \in 1 .. Len(catchup'[r]),
                        catchup'[q][j] = catchup'[r][k]
                 PROVE  q = r /\ j = k
      BY Zenon DEF ChargedOnce
    <3>1. \A s \in Peers : \A i \in 1 .. Len(catchup[s]) : catchup[s][i] # v
      BY <1>2, Zenon DEF ChargesAreTracked
    <3>2. \/ q = p /\ j = Len(catchup[p]) + 1 /\ catchup'[q][j] = v
          \/ j \in 1 .. Len(catchup[q]) /\ catchup'[q][j] = catchup[q][j]
      BY <2>6, Zenon
    <3>3. \/ r = p /\ k = Len(catchup[p]) + 1 /\ catchup'[r][k] = v
          \/ k \in 1 .. Len(catchup[r]) /\ catchup'[r][k] = catchup[r][k]
      BY <2>6, Zenon
    <3>4. CASE /\ j \in 1 .. Len(catchup[q]) /\ catchup'[q][j] = catchup[q][j]
               /\ k \in 1 .. Len(catchup[r]) /\ catchup'[r][k] = catchup[r][k]
      <4>1. catchup[q][j] = catchup[r][k]
        BY <3>4, Zenon
      <4>2. \A i \in 1 .. Len(catchup[q]), l \in 1 .. Len(catchup[r]) :
               catchup[q][i] = catchup[r][l] => q = r /\ i = l
        BY Zenon DEF ChargedOnce
      <4> QED
        BY <3>4, <4>1, <4>2, Zenon
    <3>5. CASE q = p /\ j = Len(catchup[p]) + 1 /\ catchup'[q][j] = v
      BY <3>1, <3>3, <3>5, Zenon
    <3>6. CASE r = p /\ k = Len(catchup[p]) + 1 /\ catchup'[r][k] = v
      BY <3>1, <3>2, <3>6, Zenon
    <3> QED
      BY <3>2, <3>3, <3>4, <3>5, <3>6, Zenon
  <2>9. Charged'
    <3> SUFFICES ASSUME NEW w \in (viewVoteSet \cup {v}) \ leaderViews
                 PROVE  \E q \in Peers : \E k \in 1 .. Len(catchup'[q]) : catchup'[q][k] = w
      BY <2>1, Zenon DEF Charged
    <3>1. CASE w = v
      BY <2>2, <2>3, <3>1, SMTT(60)
    <3>2. CASE w # v
      <4>1. PICK q \in Peers : \E k \in 1 .. Len(catchup[q]) : catchup[q][k] = w
        BY <3>2, Zenon DEF Charged
      <4>2. PICK k \in 1 .. Len(catchup[q]) : catchup[q][k] = w
        BY <4>1, Zenon
      <4>3. k \in 1 .. Len(catchup'[q]) /\ catchup'[q][k] = w
        <5>1. CASE q = p
          BY <2>2, <2>3, <4>2, <5>1
        <5>2. CASE q # p
          BY <2>2, <4>2, <5>2, Zenon
        <5> QED
          BY <5>1, <5>2, Zenon
      <4> QED
        BY <4>3, Zenon
    <3> QED
      BY <3>1, <3>2, Zenon
  <2> QED
    BY <2>1, <2>4, <2>5, <2>7, <2>8, <2>9, Zenon
<1> QED
  BY <1>1, <1>2, Zenon

\* Certificates and SetView charge nobody.
LEMMA LeaderBound ==
  ASSUME BoundInv, NEW more \in SUBSET Views,
         viewVoteSet' = viewVoteSet \cup more, leaderViews' = leaderViews \cup more,
         view' \in Views, UNCHANGED <<catchup, panicked>>
  PROVE  BoundInv'
BY DEF BoundInv, TypeOK, AtMostTwo, ChargesAreTracked, ChargedOnce, Charged

\* Every step keeps the charge of every view.
LEMMA NextBound == BoundInv /\ [Next]_vars => BoundInv'
<1> SUFFICES ASSUME BoundInv, [Next]_vars PROVE BoundInv'
  BY Zenon
<1>1. ASSUME NEW v \in Views, NEW p \in Peers, AddVote(p, v) PROVE BoundInv'
  BY <1>1, AddVoteBound, Zenon
<1>2. ASSUME NEW v \in Views, AddQC(v) PROVE BoundInv'
  <2>1. view \in Views
    BY Zenon DEF BoundInv, TypeOK
  <2> QED
    BY <1>2, <2>1, LeaderBound, Zenon DEF AddQC
<1>3. ASSUME NEW v \in Views, v > view, SetView(v) PROVE BoundInv'
  <2>1. view \in Nat /\ v \in Nat
    BY HeightVoteSetAssumption DEF BoundInv, TypeOK, Views
  <2>2. ~ (view # 0 /\ v < view - 1)
    BY <1>3, <2>1
  <2>3. asked(v) \in SUBSET Views
    BY Zenon DEF asked
  <2> QED
    BY <1>3, <2>2, <2>3, LeaderBound, Zenon DEF SetView
<1>4. CASE UNCHANGED vars
  BY <1>4 DEF vars, BoundInv, TypeOK, AtMostTwo, ChargesAreTracked, ChargedOnce, Charged
<1> QED
  BY <1>1, <1>2, <1>3, <1>4, Zenon DEF Next

\* A peer has two catch-up entries.
LEMMA PairOfEntries == IsFiniteSet(1 .. 2) /\ Cardinality(1 .. 2) = 2
<1>1. 1 \in Int /\ 2 \in Int /\ ~(1 > 2) /\ 2 - 1 + 1 = 2
  OBVIOUS
<1>2. IsFiniteSet(1 .. 2) /\ Cardinality(1 .. 2) = IF 1 > 2 THEN 0 ELSE 2 - 1 + 1
  BY <1>1, FS_Interval, Zenon
<1> QED
  BY <1>1, <1>2, Zenon

\* A charged view and the entry that it is charged to determine each other, and
\* there are two entries for each peer.
LEMMA ChargesBoundViews == BoundInv => ViewsBounded
<1> SUFFICES ASSUME BoundInv PROVE ViewsBounded
  BY Zenon
<1> USE DEF BoundInv
<1> DEFINE charged == viewVoteSet \ leaderViews
           At(v, e) == e[2] \in 1 .. Len(catchup[e[1]]) /\ catchup[e[1]][e[2]] = v
           entry == [v \in charged |-> CHOOSE e \in Peers \X (1 .. 2) : At(v, e)]
<1>1. ASSUME NEW v \in charged
      PROVE  \E e \in Peers \X (1 .. 2) : At(v, e)
  <2>1. PICK p \in Peers : \E k \in 1 .. Len(catchup[p]) : catchup[p][k] = v
    BY Zenon DEF Charged
  <2>2. PICK k \in 1 .. Len(catchup[p]) : catchup[p][k] = v
    BY <2>1, Zenon
  <2>3. Len(catchup[p]) \in Nat /\ Len(catchup[p]) <= 2
    BY DEF TypeOK, AtMostTwo
  <2>4. <<p, k>> \in Peers \X (1 .. 2) /\ At(v, <<p, k>>)
    BY <2>2, <2>3, SMTT(30)
  <2> QED
    BY <2>4, Zenon
<1>2. \A v \in charged : entry[v] \in Peers \X (1 .. 2) /\ At(v, entry[v])
  BY <1>1, Zenon
<1>3. entry \in Injection(charged, Peers \X (1 .. 2))
  <2>1. entry \in [charged -> Peers \X (1 .. 2)]
    BY <1>2, Zenon
  <2>2. ASSUME NEW v \in charged, NEW w \in charged, entry[v] = entry[w] PROVE v = w
    BY <1>2, <2>2, Zenon
  <2>3. DOMAIN entry = charged
    BY Zenon
  <2> HIDE DEF entry, charged
  <2>4. IsInjective(entry)
    BY <2>2, <2>3, Zenon DEF IsInjective
  <2> QED
    BY <2>1, <2>4, Zenon DEF Injection
<1>4. /\ IsFiniteSet(Peers \X (1 .. 2))
      /\ Cardinality(Peers \X (1 .. 2)) = Cardinality(Peers) * 2
  BY PairOfEntries, FS_Product, HeightVoteSetAssumption, Zenon
<1>5. Cardinality(Peers) \in Nat
  BY FS_CardinalityType, HeightVoteSetAssumption, Zenon
<1>6. Cardinality(charged) <= 2 * Cardinality(Peers)
  <2>1. Cardinality(charged) <= Cardinality(Peers \X (1 .. 2))
    BY <1>3, <1>4, FS_Injection, Zenon
  <2> HIDE DEF charged
  <2> QED
    BY <2>1, <1>4, <1>5
<1> QED
  BY <1>6, Zenon DEF ViewsBounded, Charged, ChargedOnce

-----------------------------------------------------------------------------
\* The inductive invariant holds in every reachable state.
THEOREM BoundCorrect == Spec => []BoundInv
BY InitBound, NextBound, PTL DEF Spec

\* Views and catch-up rounds keep their types, and what the leader asked for has vote sets.
THEOREM TypeCorrect == Spec => []TypeOK
<1>1. BoundInv => TypeOK
  BY Zenon DEF BoundInv
<1> QED
  BY <1>1, BoundCorrect, PTL

\* The views a node tracks for others stay within twice the number of its peers,
\* whatever views the votes it receives name.
THEOREM ViewsBoundedCorrect == Spec => []ViewsBounded
BY BoundCorrect, ChargesBoundViews, PTL

\* addView and SetView never panic, however votes and certificates run ahead.
THEOREM NeverPanicsCorrect == Spec => []NeverPanics
<1>1. BoundInv => NeverPanics
  BY Zenon DEF BoundInv, NeverPanics
<1> QED
  BY <1>1, BoundCorrect, PTL

-----------------------------------------------------------------------------
\* The handler leaves "newHeight" before it has set a view or a proposal, and a
\* peer that votes in the instance's view alone is charged for no other.
InstanceInv ==
    /\ BoundInv
    /\ step = "newHeight" => ~ proposal /\ view = 0
    /\ \A p \in Honest : \A k \in 1 .. Len(catchup[p]) : catchup[p][k] = View

\* A new instance has neither a proposal nor a charge.
LEMMA InitInstanceInv == InitInstance => InstanceInv
<1> SUFFICES ASSUME InitInstance PROVE InstanceInv
  BY Zenon
<1>1. Init /\ view = 0 /\ ~ proposal
  BY Zenon DEF InitInstance, Init
<1>2. \A p \in Honest : Len(catchup[p]) = 0
  BY <1>1, InstanceAssumption, Zenon DEF Init
<1> QED
  BY <1>1, <1>2, InitBound DEF InstanceInv

\* A vote charges a peer that stays in the instance's view for that view only.
LEMMA VoteInstanceInv ==
  ASSUME InstanceInv, NEW p \in Peers, NEW v \in Views, AddVote(p, v), p \in Honest => v = View,
         UNCHANGED <<step, proposal>>
  PROVE  InstanceInv'
<1>1. BoundInv'
  BY AddVoteBound, Zenon DEF InstanceInv
<1>2. view' = view
  BY Zenon DEF AddVote
<1>3. ASSUME NEW q \in Honest, NEW k \in 1 .. Len(catchup'[q]) PROVE catchup'[q][k] = View
  <2>1. catchup[q] \in Seq(Views) /\ catchup \in [Peers -> Seq(Views)] /\ q \in Peers
    BY InstanceAssumption, Zenon DEF InstanceInv, BoundInv, TypeOK
  <2>2. CASE catchup'[q] = catchup[q]
    BY <2>2, <1>3, Zenon DEF InstanceInv
  <2>3. CASE catchup'[q] # catchup[q]
    <3>1. q = p /\ catchup'[q] = Append(catchup[q], v)
      BY <2>1, <2>3, Zenon DEF AddVote
    <3>2. v = View /\ Len(catchup[q]) \in Nat
      BY <2>1, <3>1
    <3>3. \A j \in 1 .. Len(catchup[q]) : catchup[q][j] = View
      BY Zenon DEF InstanceInv
    <3> QED
      BY <1>3, <2>1, <3>1, <3>2, <3>3
  <2> QED
    BY <2>2, <2>3, Zenon
<1> QED
  BY <1>1, <1>2, <1>3, Zenon DEF InstanceInv

\* The only view the handler sets lies ahead of the vote sets.
LEMMA NewViewGrows ==
  ASSUME InstanceInv, step = "newHeight", enterNewView
  PROVE  /\ View + 1 \in Views /\ View + 1 > view
         /\ SetView(View + 1)
         /\ UNCHANGED <<catchup, panicked>>
         /\ step' # "newHeight"
<1>1. view = 0 /\ View \in Nat /\ View + 1 \in Views
  BY HeightVoteSetAssumption, InstanceAssumption DEF InstanceInv, Views
<1>2. SetView(View + 1) /\ step' = "propose"
  BY Zenon DEF enterNewView
<1>3. UNCHANGED <<catchup, panicked>>
  BY <1>1, <1>2, Zenon DEF SetView
<1> QED
  BY <1>1, <1>2, <1>3

\* A step of the instance that touches the vote sets is one HeightVoteSet allows.
LEMMA InstanceStep ==
  ASSUME InstanceInv, [NextInstance]_allVars
  PROVE  InstanceInv' /\ [Next]_vars /\ (proposal => proposal')
<1> USE DEF InstanceInv
<1>0. ~ panicked
  BY Zenon DEF BoundInv
<1>1. ASSUME UNCHANGED <<vars, step, proposal>>
      PROVE  InstanceInv' /\ [Next]_vars /\ (proposal => proposal')
  <2>1. BoundInv'
    BY <1>1, NextBound, Zenon
  <2> QED
    BY <1>1, <2>1, Zenon DEF vars
<1>2. CASE Expire \/ SendTime \/ Schedule \/ Tock \/ Quit \/ Return \/ UNCHANGED allVars
  <2>1. UNCHANGED <<vars, step, proposal>>
    BY <1>2, Zenon DEF Expire, SendTime, Schedule, Tock, Quit, Return, allVars, handler
  <2> QED
    BY <1>1, <2>1, Zenon
<1>3. CASE Timeouts
  <2>1. PICK i \in {View, None} : HandleTimeout(i)
    BY <1>3, Zenon DEF Timeouts
  <2>2. CASE i = View /\ step = "newHeight"
    <3>1. enterNewView
      BY <2>1, <2>2, Zenon DEF HandleTimeout
    <3>2. /\ View + 1 \in Views /\ View + 1 > view /\ SetView(View + 1)
          /\ UNCHANGED <<catchup, panicked>> /\ step' # "newHeight"
      BY <2>2, <3>1, NewViewGrows, Zenon
    <3>3. Next
      BY <1>0, <3>2, Zenon DEF Next
    <3>4. BoundInv'
      BY <3>3, NextBound, Zenon
    <3> QED
      BY <2>2, <3>2, <3>3, <3>4, Zenon
  <2>3. CASE ~ (i = View /\ step = "newHeight")
    BY <1>1, <2>1, <2>3, Zenon DEF HandleTimeout
  <2> QED
    BY <2>2, <2>3, Zenon
<1>4. CASE SetProposal
  <2>1. UNCHANGED vars /\ proposal' = TRUE /\ step' # "newHeight"
    BY <1>4, Zenon DEF SetProposal
  <2>2. BoundInv'
    BY <2>1, NextBound, Zenon
  <2> QED
    BY <2>1, <2>2, Zenon DEF vars
<1>5. CASE HandleVote
  <2>1. UNCHANGED <<step, proposal>>
    BY <1>5, Zenon DEF HandleVote, handler
  <2>2. ASSUME NEW p \in Peers, NEW v \in Views, AddVote(p, v), p \in Honest => v = View
        PROVE  InstanceInv' /\ Next
    BY <1>0, <2>1, <2>2, VoteInstanceInv, Zenon DEF Next
  <2>3. ASSUME NEW v \in Views, AddQC(v) PROVE InstanceInv' /\ Next
    <3>1. Next
      BY <1>0, <2>3, Zenon DEF Next
    <3>2. BoundInv' /\ UNCHANGED <<view, catchup>>
      BY <2>3, <3>1, NextBound, Zenon DEF AddQC
    <3> QED
      BY <2>1, <3>1, <3>2, Zenon
  <2>4. View \in Views /\ Honest \subseteq Peers
    BY InstanceAssumption, Zenon
  <2>5. InstanceInv' /\ Next
    BY <1>5, <2>2, <2>3, <2>4, Zenon DEF HandleVote
  <2> QED
    BY <2>1, <2>5, Zenon
<1> QED
  BY <1>2, <1>3, <1>4, <1>5, Zenon DEF NextInstance

-----------------------------------------------------------------------------
\* The invariant of the instance holds in every reachable state.
THEOREM InstanceCorrect == InstanceSpec => []InstanceInv
BY InitInstanceInv, InstanceStep, PTL DEF InstanceSpec

\* KBFT.handler, its timeouts and a stale tick included, uses its vote sets as
\* HeightVoteSet takes for granted: the instance implements that specification.
THEOREM InstanceUsesVoteSets == InstanceSpec => UsesVoteSets
<1>1. InitInstance => Init
  BY Zenon DEF InitInstance
<1>2. InstanceInv /\ [NextInstance]_allVars => [Next]_vars
  BY InstanceStep, Zenon
<1> QED
  BY <1>1, <1>2, InstanceCorrect, PTL DEF InstanceSpec, UsesVoteSets, Spec

\* The memory bound and the absence of panics hold of the vote sets of the instance.
THEOREM InstanceBounded == InstanceSpec => [](ViewsBounded /\ NeverPanics)
<1>1. InstanceInv => ViewsBounded /\ NeverPanics
  BY ChargesBoundViews, Zenon DEF InstanceInv, BoundInv, NeverPanics
<1> QED
  BY <1>1, InstanceCorrect, PTL

\* enterNewView never clears a proposal that setProposal has kept.
THEOREM ProposalKeptCorrect == InstanceSpec => ProposalKept
<1>1. InstanceInv /\ [NextInstance]_allVars => [proposal => proposal']_allVars
  BY InstanceStep, Zenon
<1> QED
  BY <1>1, InstanceCorrect, PTL DEF InstanceSpec, ProposalKept

\* The guard of AddVote for a vote of a peer that stays in the instance's view.
OwnViewHasRoom == \A p \in Honest : View \in viewVoteSet \/ Len(catchup[p]) < 2

\* A vote of a peer that stays in the instance's view always finds or adds its vote sets.
THEOREM OwnViewHasRoomCorrect == InstanceSpec => []OwnViewHasRoom
<1>1. InstanceInv => OwnViewHasRoom
  <2> SUFFICES ASSUME InstanceInv, NEW p \in Honest, View \notin viewVoteSet
               PROVE  Len(catchup[p]) < 2
    BY Zenon DEF OwnViewHasRoom
  <2>1. p \in Peers /\ Len(catchup[p]) \in Nat
    BY InstanceAssumption DEF InstanceInv, BoundInv, TypeOK
  <2>2. ASSUME Len(catchup[p]) >= 2 PROVE FALSE
    <3>1. 1 \in 1 .. Len(catchup[p])
      BY <2>1, <2>2
    <3> QED
      BY <2>1, <3>1, Zenon DEF InstanceInv, BoundInv, ChargesAreTracked
  <2> QED
    BY <2>1, <2>2
<1> QED
  BY <1>1, InstanceCorrect, PTL
=============================================================================
