--------------------------- MODULE Committee_proof ---------------------------
(***************************************************************************)
(* The committee, for all node sets: its indices are finite and ordered, a *)
(* node's first index names it, and the quorum of the prepare phase is     *)
(* enough to decide.                                                       *)
(***************************************************************************)
EXTENDS Committee, FiniteSetTheorems, WellFoundedInduction, TLAPS

\* A non-empty set of natural numbers has a least element.
LEMMA NatMin ==
    ASSUME NEW T, T \subseteq Nat, T # {}
    PROVE  \E x \in T : \A y \in T : x <= y
<1> DEFINE R == OpToRel(<, Nat)
<1>1. IsWellFoundedOn(R, Nat)
  BY NatLessThanWellFounded, Zenon
<1>2. \A x, y \in Nat : x < y => <<x, y>> \in R
  BY Zenon DEF OpToRel
<1> HIDE DEF R
<1>3. PICK x \in T : \A y \in T : ~(<<y, x>> \in R)
  BY <1>1, WFMin, Zenon
<1>4. \A y \in T : ~(y < x)
  BY <1>2, <1>3, Zenon
<1>5. \A y \in T : x <= y
  BY <1>4
<1> QED
  BY <1>5, Zenon

\* An index is a pair of positive numbers, and the committee names a node there.
LEMMA IndexType ==
    ASSUME NEW i \in Indices
    PROVE  i[1] \in Nat /\ i[2] \in Nat /\ i[1] \in Positions /\ KramaID(i) \in Nodes
<1>1. PICK p \in Positions : \E k \in DOMAIN Sets[p] : i = <<p, k>>
  BY Zenon DEF Indices
<1>2. PICK k \in DOMAIN Sets[p] : i = <<p, k>>
  BY <1>1, Zenon
<1>3. p \in Nat /\ Sets[p] \in Seq(Nodes)
  BY CommitteeAssumption DEF Positions
<1>4. k \in Nat /\ Sets[p][k] \in Nodes
  BY <1>2, <1>3
<1> QED
  BY <1>2, <1>3, <1>4, Zenon DEF KramaID

\* A non-empty set of indices has a first one.
LEMMA FirstOf ==
    ASSUME NEW S, S \subseteq Indices, S # {}
    PROVE  \E i \in S : \A j \in S : ~Before(j, i)
<1>1. PICK p \in {i[1] : i \in S} : \A q \in {i[1] : i \in S} : p <= q
  <2>1. {i[1] : i \in S} \subseteq Nat /\ {i[1] : i \in S} # {}
    BY IndexType, Zenon
  <2> QED
    BY <2>1, NatMin, Zenon
<1> DEFINE P == {i \in S : i[1] = p}
<1>2. PICK k \in {i[2] : i \in P} : \A l \in {i[2] : i \in P} : k <= l
  <2>1. {i[2] : i \in P} \subseteq Nat /\ {i[2] : i \in P} # {}
    BY IndexType, Zenon
  <2> QED
    BY <2>1, NatMin, Zenon
<1>3. PICK i \in P : i[2] = k
  BY <1>2, Zenon
<1>4. ASSUME NEW j \in S PROVE ~Before(j, i)
  <2>1. i[1] = p /\ i[2] = k /\ p <= j[1]
    BY <1>1, <1>3, Zenon
  <2>2. j[1] = p => k <= j[2]
    BY <1>2, Zenon
  <2>3. j[1] \in Nat /\ j[2] \in Nat /\ p \in Nat /\ k \in Nat
    BY <2>1, <1>3, IndexType, Zenon
  <2> QED
    BY <2>1, <2>2, <2>3 DEF Before
<1> QED
  BY <1>3, <1>4, Zenon

\* HasKramaID: a member of the committee has a first index, and it is the member's.
LEMMA FirstIndex ==
    ASSUME NEW n \in {KramaID(i) : i \in Indices}
    PROVE  IndexOf(n) \in Indices /\ IsFirstIndex(n, IndexOf(n))
<1> DEFINE S == {i \in Indices : KramaID(i) = n}
<1>1. S # {}
  BY Zenon
<1>2. PICK i \in S : \A j \in S : ~Before(j, i)
  BY <1>1, FirstOf, Zenon
<1>3. IsFirstIndex(n, i)
  BY <1>2, Zenon DEF IsFirstIndex
<1> QED
  BY <1>3, Zenon DEF IndexOf

\* The committee has finitely many indices.
LEMMA IndicesFinite == IsFiniteSet(Indices)
<1> DEFINE at(p) == {<<p, k>> : k \in DOMAIN Sets[p]}
<1>1. ASSUME NEW p \in Positions PROVE IsFiniteSet(at(p))
  <2>1. Sets[p] \in Seq(Nodes)
    BY CommitteeAssumption DEF Positions
  <2>2. IsFiniteSet(DOMAIN Sets[p])
    <3>1. DOMAIN Sets[p] = 1 .. Len(Sets[p]) /\ Len(Sets[p]) \in Int
      BY <2>1
    <3> QED
      BY <3>1, FS_Interval
  <2> DEFINE f == [k \in DOMAIN Sets[p] |-> <<p, k>>]
  <2>3. f \in Surjection(DOMAIN Sets[p], at(p))
    BY Zenon DEF Surjection
  <2> QED
    BY <2>2, <2>3, FS_Surjection, Zenon
<1> DEFINE parts == {at(p) : p \in Positions}
           g == [p \in Positions |-> at(p)]
<1>2. IsFiniteSet(Positions)
  <2>1. Positions = 1 .. Len(Sets) /\ Len(Sets) \in Int
    BY CommitteeAssumption DEF Positions
  <2> QED
    BY <2>1, FS_Interval
<1> HIDE DEF at
<1>3. g \in Surjection(Positions, parts)
  BY Zenon DEF Surjection
<1>4. IsFiniteSet(parts)
  BY <1>2, <1>3, FS_Surjection, Zenon
<1>5. \A T \in parts : IsFiniteSet(T)
  BY <1>1, Zenon
<1>6. IsFiniteSet(UNION parts)
  BY <1>4, <1>5, FS_UNION, Zenon
<1> QED
  BY <1>6, Zenon DEF Indices, at

\* Every quorum is a natural number.
LEMMA QuorumType == \A p \in Positions : Quorum(p) \in Nat
BY CommitteeAssumption DEF Quorum

(***************************************************************************)
(* The quorum of the prepare phase is enough to decide.  PREPARED messages *)
(* are counted in every set of a node (UpdateNodePreparedMsg), a vote with *)
(* the node's first index counts by GetKramaID.  If the answers complete   *)
(* the quorum of every set, so do the votes of those who answered,         *)
(* provided that no node is twice in a set and that the context nodes are  *)
(* exempted from the stochastic set, as in sendPrepare.                    *)
(***************************************************************************)
THEOREM AnswersSuffice ==
    ASSUME NEW R, R \subseteq {KramaID(i) : i \in Indices},
           \A i, j \in Indices : i[1] = j[1] /\ KramaID(i) = KramaID(j) => i = j,
           \A i, j \in Indices : KramaID(i) = KramaID(j) /\ i[1] = StochasticSetPosition =>
                                     j[1] = StochasticSetPosition,
           \A p \in Positions :
               Cardinality({i \in Indices : i[1] = p /\ KramaID(i) \in R}) >= Quorum(p)
    PROVE  HasQuorum({IndexOf(n) : n \in R})
<1> SUFFICES ASSUME NEW p \in Positions PROVE Weight(p, {IndexOf(n) : n \in R}) >= Quorum(p)
  BY Zenon DEF HasQuorum
<1> DEFINE A == {i \in Indices : i[1] = p /\ KramaID(i) \in R}
           B == {v \in {IndexOf(n) : n \in R} : p \in SlotsOf(v)}
           f == [i \in A |-> IndexOf(KramaID(i))]
<1>1. ASSUME NEW i \in A PROVE /\ f[i] \in B
                               /\ KramaID(f[i]) = KramaID(i)
  <2> DEFINE n == KramaID(i)
             v == IndexOf(n)
  <2>1. v \in Indices /\ KramaID(v) = n /\ ~Before(i, v)
    BY FirstIndex, Zenon DEF IsFirstIndex
  <2>2. /\ i[1] = p /\ i[2] \in Nat /\ p \in Nat /\ v[1] \in Nat
        /\ p <= Len(Sets) /\ Len(Sets) \in Nat
    BY <2>1, IndexType, CommitteeAssumption, SMTT(30) DEF Positions
  <2>3. v[1] <= p
    BY <2>1, <2>2 DEF Before
  <2>4. CASE v[1] = p
    BY <2>1, <2>4, Zenon DEF SlotsOf
  <2>5. CASE v[1] # p
    <3>1. p # Len(Sets)
      BY <2>1, <2>2, <2>5, Zenon DEF StochasticSetPosition
    <3>2. n \in Members(p)
      <4>1. i = <<i[1], i[2]>> /\ i[2] \in DOMAIN Sets[p]
        BY <2>2 DEF Indices
      <4> QED
        BY <2>2, <4>1, Zenon DEF Members, KramaID
    <3>3. p \in (v[1] + 1) .. (Len(Sets) - 1)
      BY <2>2, <2>3, <2>5, <3>1
    <3> QED
      BY <2>1, <3>2, <3>3, Zenon DEF SlotsOf
  <2> QED
    BY <2>1, <2>4, <2>5, Zenon
<1>2. f \in Injection(A, B)
  <2>1. f \in [A -> B]
    BY <1>1, Zenon
  <2>2. \A i, j \in A : f[i] = f[j] => i = j
    <3> SUFFICES ASSUME NEW i \in A, NEW j \in A, f[i] = f[j] PROVE i = j
      BY Zenon
    <3>1. KramaID(i) = KramaID(j)
      BY <1>1, Zenon
    <3> QED
      BY <3>1, Zenon
  <2> HIDE DEF A, B, f
  <2> QED
    BY <2>1, <2>2, Zenon DEF Injection, IsInjective
<1>3. IsFiniteSet(B)
  <2>1. B \subseteq Indices
    BY FirstIndex, Zenon
  <2> QED
    BY <2>1, IndicesFinite, FS_Subset, Zenon
<1>4. Cardinality(A) <= Cardinality(B)
  BY <1>2, <1>3, FS_Injection, Zenon
<1>5. Cardinality(A) \in Nat /\ Cardinality(B) \in Nat
  <2>1. IsFiniteSet(A)
    BY IndicesFinite, FS_Subset, Zenon
  <2> QED
    BY <1>3, <2>1, FS_CardinalityType, Zenon
<1>6. Cardinality(A) >= Quorum(p) /\ Weight(p, {IndexOf(n) : n \in R}) = Cardinality(B)
  BY Zenon DEF Weight
<1>7. Quorum(p) \in Nat
  BY QuorumType, Zenon
<1> HIDE DEF A, B, f
<1> QED
  BY <1>4, <1>5, <1>6, <1>7
=============================================================================
