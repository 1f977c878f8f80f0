--------------------------- MODULE Prepare_proof ---------------------------
(***************************************************************************)
(* The preparation of a proposal, for every committee, every view and any  *)
(* number of failures.  First the flat indices of a committee: the walk    *)
(* that UpdateValidatorResponse makes over the sizes of the node sets      *)
(* undoes GetVoteset.  Then the inductive invariant PrepareInv, which      *)
(* holds the counters of every node against its bits, and the QC against   *)
(* what the operator had counted when it made it.                          *)
(***************************************************************************)
EXTENDS Prepare, Committee_proof

(***************************************************************************)
(* Flat indices.  The provers cannot instantiate an induction principle    *)
(* with an operator; the least element of a set of counterexamples serves  *)
(* instead.                                                                *)
(***************************************************************************)

\* The equation of offset, up to position k.
OffsetsUpTo(f, k) == [p \in 0 .. k |-> IF p = 0 THEN 0 ELSE f[p - 1] + Len(Sets[p])]

\* A position names a set, of finite length.
LEMMA SetType ==
    /\ Len(Sets) \in Nat /\ Len(Sets) >= 1 /\ Positions = 1 .. Len(Sets)
    /\ \A p \in Positions : Len(Sets[p]) \in Nat /\ DOMAIN Sets[p] = 1 .. Len(Sets[p])
BY CommitteeAssumption DEF Positions

\* The stochastic set is the last one.
LEMMA StochasticPosition == StochasticSetPosition \in Positions
BY SetType DEF StochasticSetPosition

\* The equation has a solution.
LEMMA OffsetExists == \E f : f = OffsetsUpTo(f, Len(Sets))
<1> DEFINE Bad == {k \in 0 .. Len(Sets) : ~ \E f : f = OffsetsUpTo(f, k)}
<1> SUFFICES ASSUME Bad # {} PROVE FALSE
  BY SetType
<1>1. PICK k \in Bad : \A l \in Bad : k <= l
  <2>1. Bad \subseteq Nat
    BY SetType
  <2> HIDE DEF Bad
  <2> QED
    BY <2>1, NatMin, Zenon
<1>2. k \in 0 .. Len(Sets) /\ ~ \E f : f = OffsetsUpTo(f, k)
  BY Zenon
<1>3. CASE k = 0
  <2>1. [p \in 0 .. 0 |-> 0] = OffsetsUpTo([p \in 0 .. 0 |-> 0], 0)
    BY DEF OffsetsUpTo
  <2> QED
    BY <1>2, <1>3, <2>1, Zenon
<1>4. CASE k # 0
  <2>1. k - 1 \in 0 .. Len(Sets) /\ ~ (k <= k - 1)
    BY <1>2, <1>4, SetType
  <2>2. k - 1 \notin Bad
    BY <1>1, <2>1, Zenon
  <2>3. PICK f : f = OffsetsUpTo(f, k - 1)
    BY <2>1, <2>2, Zenon
  <2> DEFINE g == [p \in 0 .. k |-> IF p = k THEN f[k - 1] + Len(Sets[k]) ELSE f[p]]
  <2>4. ASSUME NEW p \in 0 .. k
        PROVE  g[p] = IF p = 0 THEN 0 ELSE g[p - 1] + Len(Sets[p])
    <3>1. CASE p = k
      BY <1>2, <1>4, <3>1
    <3>2. CASE p # k
      <4>1. p \in 0 .. k - 1 /\ (p # 0 => p - 1 \in 0 .. k - 1)
        BY <1>2, <3>2
      <4>2. f[p] = IF p = 0 THEN 0 ELSE f[p - 1] + Len(Sets[p])
        BY <2>3, <4>1, Zenon DEF OffsetsUpTo
      <4>3. g[p] = f[p] /\ (p # 0 => g[p - 1] = f[p - 1])
        BY <1>2, <3>2, <4>1
      <4> QED
        BY <4>2, <4>3, Zenon
    <3> QED
      BY <3>1, <3>2, Zenon
  <2>5. g = OffsetsUpTo(g, k)
    BY <2>4, Zenon DEF OffsetsUpTo
  <2> QED
    BY <1>2, <2>5, Zenon
<1> QED
  BY <1>3, <1>4, Zenon

\* So offset is one.
LEMMA OffsetEquation == offset = OffsetsUpTo(offset, Len(Sets))
BY OffsetExists, Zenon DEF offset, OffsetsUpTo

\* A set begins where the one before it ends.
LEMMA OffsetStep ==
    /\ offset[0] = 0
    /\ \A p \in Positions : offset[p] = offset[p - 1] + Len(Sets[p])
<1>1. \A p \in 0 .. Len(Sets) : offset[p] = IF p = 0 THEN 0 ELSE offset[p - 1] + Len(Sets[p])
  BY OffsetEquation, Zenon DEF OffsetsUpTo
<1> QED
  BY <1>1, SetType

\* Offsets are natural numbers.
LEMMA OffsetType == \A p \in 0 .. Len(Sets) : offset[p] \in Nat
<1> DEFINE Bad == {p \in 0 .. Len(Sets) : offset[p] \notin Nat}
<1> SUFFICES ASSUME Bad # {} PROVE FALSE
  BY Zenon
<1>1. PICK k \in Bad : \A l \in Bad : k <= l
  <2>1. Bad \subseteq Nat
    BY SetType
  <2> HIDE DEF Bad
  <2> QED
    BY <2>1, NatMin, Zenon
<1>2. k \in Positions /\ k - 1 \in 0 .. Len(Sets) /\ ~ (k <= k - 1)
  BY OffsetStep, SetType
<1>3. offset[k - 1] \in Nat
  BY <1>1, <1>2, Zenon
<1>4. offset[k] = offset[k - 1] + Len(Sets[k]) /\ Len(Sets[k]) \in Nat
  BY <1>2, OffsetStep, SetType, Zenon
<1> QED
  BY <1>3, <1>4

\* A set that comes later has no smaller offset.
LEMMA OffsetGrows ==
    ASSUME NEW p \in 0 .. Len(Sets), NEW q \in 0 .. Len(Sets), p <= q
    PROVE  offset[p] <= offset[q]
<1> DEFINE Bad == {r \in 0 .. Len(Sets) : p <= r /\ ~ (offset[p] <= offset[r])}
<1> SUFFICES ASSUME Bad # {} PROVE FALSE
  BY Zenon
<1>1. PICK k \in Bad : \A l \in Bad : k <= l
  <2>1. Bad \subseteq Nat
    BY SetType
  <2> HIDE DEF Bad
  <2> QED
    BY <2>1, NatMin, Zenon
<1>2. /\ k \in 0 .. Len(Sets) /\ p <= k /\ ~ (offset[p] <= offset[k])
      /\ offset[p] \in Nat /\ offset[k] \in Nat
  BY OffsetType, Zenon
<1>3. p # k
  BY <1>2
<1>4. k \in Positions /\ k - 1 \in 0 .. Len(Sets) /\ p <= k - 1 /\ ~ (k <= k - 1)
  BY <1>2, <1>3, SetType
<1>5. offset[p] <= offset[k - 1]
  BY <1>1, <1>4, Zenon
<1>6. /\ offset[k] = offset[k - 1] + Len(Sets[k]) /\ Len(Sets[k]) \in Nat
      /\ offset[k - 1] \in Nat
  BY <1>4, OffsetStep, OffsetType, SetType, Zenon
<1> QED
  BY <1>2, <1>5, <1>6, SMTT(30)

\* What is left of a flat index when the walk of UpdateValidatorResponse reaches a set.
RestOf(f) == [p \in Positions |-> f - offset[p - 1]]

\* The walk computes it.
LEMMA RestUnique ==
    ASSUME NEW f \in Nat, NEW rest,
           rest = [p \in Positions |-> IF p = 1 THEN f ELSE rest[p - 1] - Len(Sets[p - 1])]
    PROVE  rest = RestOf(f)
<1> DEFINE Bad == {p \in Positions : rest[p] # f - offset[p - 1]}
<1> SUFFICES ASSUME Bad # {} PROVE FALSE
  BY Zenon DEF RestOf
<1>1. PICK k \in Bad : \A l \in Bad : k <= l
  <2>1. Bad \subseteq Nat
    BY SetType
  <2> HIDE DEF Bad
  <2> QED
    BY <2>1, NatMin, Zenon
<1>2. k \in Positions /\ rest[k] # f - offset[k - 1]
  BY Zenon
<1>3. rest[k] = IF k = 1 THEN f ELSE rest[k - 1] - Len(Sets[k - 1])
  BY <1>2, Zenon
<1>4. CASE k = 1
  BY <1>2, <1>3, <1>4, OffsetStep
<1>5. CASE k # 1
  <2>1. k - 1 \in Positions /\ ~ (k <= k - 1) /\ k - 1 - 1 \in 0 .. Len(Sets) /\ k - 1 \in 0 .. Len(Sets)
    BY <1>2, <1>5, SetType
  <2>2. rest[k - 1] = f - offset[k - 1 - 1]
    BY <1>1, <2>1, Zenon
  <2>3. offset[k - 1] = offset[k - 1 - 1] + Len(Sets[k - 1]) /\ Len(Sets[k - 1]) \in Nat
    BY <2>1, OffsetStep, SetType, Zenon
  <2>4. offset[k - 1] \in Nat /\ offset[k - 1 - 1] \in Nat
    BY <2>1, OffsetType, Zenon
  <2>5. rest[k] = rest[k - 1] - Len(Sets[k - 1])
    BY <1>3, <1>5, Zenon
  <2> QED
    BY <1>2, <2>2, <2>3, <2>4, <2>5
<1> QED
  BY <1>4, <1>5, Zenon

\* So rest, in lookup, is the flat index less the offset of the set.
LEMMA RestEquation ==
    ASSUME NEW f \in Nat
    PROVE  RestOf(f) = [p \in Positions |->
               IF p = 1 THEN f ELSE RestOf(f)[p - 1] - Len(Sets[p - 1])]
<1>1. ASSUME NEW p \in Positions
      PROVE  f - offset[p - 1] = IF p = 1 THEN f ELSE RestOf(f)[p - 1] - Len(Sets[p - 1])
  <2>1. CASE p = 1
    BY <2>1, OffsetStep
  <2>2. CASE p # 1
    <3>1. p - 1 \in Positions /\ p - 1 - 1 \in 0 .. Len(Sets) /\ p - 1 \in 0 .. Len(Sets)
      BY <2>2, SetType
    <3>2. RestOf(f)[p - 1] = f - offset[p - 1 - 1]
      BY <3>1, Zenon DEF RestOf
    <3>3. offset[p - 1] = offset[p - 1 - 1] + Len(Sets[p - 1]) /\ Len(Sets[p - 1]) \in Nat
      BY <3>1, OffsetStep, SetType, Zenon
    <3>4. offset[p - 1] \in Nat /\ offset[p - 1 - 1] \in Nat
      BY <3>1, OffsetType, Zenon
    <3> QED
      BY <2>2, <3>2, <3>3, <3>4
  <2> QED
    BY <2>1, <2>2, Zenon
<1> QED
  BY <1>1, Zenon DEF RestOf

\* The set that a flat index is looked up in.
Found(f) == {p \in Positions : RestOf(f)[p] < Len(Sets[p])}

\* lookup finds an index in the set where it was made flat.
LEMMA LookupAt ==
    ASSUME NEW f \in Nat, NEW p \in Found(f), \A q \in Found(f) : p <= q
    PROVE  lookup(f) = <<p, f - offset[p - 1] + 1>>
<1> DEFINE rest == CHOOSE r : r = [q \in Positions |->
                       IF q = 1 THEN f ELSE r[q - 1] - Len(Sets[q - 1])]
           first == CHOOSE q \in Found(f) : \A r \in Found(f) : q <= r
<1>1. rest = RestOf(f)
  <2>1. rest = [q \in Positions |-> IF q = 1 THEN f ELSE rest[q - 1] - Len(Sets[q - 1])]
    BY RestEquation, Zenon
  <2> HIDE DEF rest
  <2> QED
    BY <2>1, RestUnique, Zenon
<1>2. lookup(f) = <<first, rest[first] + 1>>
  BY <1>1, Zenon DEF lookup, Found
<1>3. first \in Found(f) /\ \A q \in Found(f) : first <= q
  BY Zenon
<1> HIDE DEF first, rest
<1>4. first = p
  <2>1. first <= p /\ p <= first /\ first \in Nat /\ p \in Nat
    BY <1>3, SetType DEF Found
  <2> QED
    BY <2>1
<1> QED
  BY <1>1, <1>2, <1>4, Zenon DEF Found, RestOf

(***************************************************************************)
(* GetKramaID and UpdateValidatorResponse find the index that HasKramaID   *)
(* and GetVoteset have made flat, whatever the sizes of the node sets.     *)
(***************************************************************************)
THEOREM LookupInverse ==
    ASSUME NEW i \in Indices
    PROVE  valIndex(i) \in 0 .. totalNodes - 1 /\ lookup(valIndex(i)) = i
<1>0. PICK p \in Positions : \E k \in DOMAIN Sets[p] : i = <<p, k>>
  BY Zenon DEF Indices
<1>1. PICK k \in DOMAIN Sets[p] : i = <<p, k>>
  BY <1>0, Zenon
<1>2. /\ p \in Nat /\ p >= 1 /\ p <= Len(Sets) /\ Len(Sets) \in Nat /\ Len(Sets[p]) \in Nat
      /\ k \in Nat /\ k >= 1 /\ k <= Len(Sets[p])
      /\ p \in 0 .. Len(Sets) /\ p - 1 \in 0 .. Len(Sets) /\ Len(Sets) \in 0 .. Len(Sets)
  BY <1>1, SetType
<1> DEFINE f == valIndex(i)
<1>3. f = offset[p - 1] + k - 1
  BY <1>1, Zenon DEF valIndex
<1>4. /\ offset[p] = offset[p - 1] + Len(Sets[p]) /\ offset[p] <= offset[Len(Sets)]
      /\ offset[p] \in Nat /\ offset[p - 1] \in Nat /\ offset[Len(Sets)] \in Nat
  BY <1>1, <1>2, OffsetStep, OffsetType, OffsetGrows, Zenon
<1> HIDE DEF f
<1>5. f \in Nat /\ f \in 0 .. totalNodes - 1 /\ offset[p - 1] <= f /\ f < offset[p]
  <2>1. \A a, b, c, l \in Nat : b = a + l /\ b <= c /\ k <= l =>
            /\ a + k - 1 \in Nat /\ a + k - 1 \in 0 .. c - 1
            /\ a <= a + k - 1 /\ a + k - 1 < b
    BY <1>2
  <2> QED
    BY <1>2, <1>3, <1>4, <2>1, Zenon DEF totalNodes
<1>6. p \in Found(f)
  <2>1. RestOf(f)[p] = f - offset[p - 1]
    BY <1>1, Zenon DEF RestOf
  <2>2. RestOf(f)[p] < Len(Sets[p])
    BY <1>2, <1>3, <1>4, <2>1, SMTT(30)
  <2> QED
    BY <1>1, <2>2, Zenon DEF Found
<1>7. ASSUME NEW q \in Found(f) PROVE p <= q
  <2>1. q \in Positions /\ RestOf(f)[q] < Len(Sets[q])
    BY Zenon DEF Found
  <2>2. q \in Nat /\ q \in 0 .. Len(Sets) /\ q - 1 \in 0 .. Len(Sets) /\ Len(Sets[q]) \in Nat
    BY <2>1, SetType
  <2>3. /\ RestOf(f)[q] = f - offset[q - 1] /\ offset[q] = offset[q - 1] + Len(Sets[q])
        /\ offset[q] \in Nat /\ offset[q - 1] \in Nat
    BY <2>1, <2>2, OffsetStep, OffsetType, Zenon DEF RestOf
  <2>4. f < offset[q]
    BY <1>5, <2>1, <2>2, <2>3, SMTT(30)
  <2>5. ASSUME q <= p - 1 PROVE FALSE
    <3>1. offset[q] <= offset[p - 1]
      BY <1>2, <2>2, <2>5, OffsetGrows, Zenon
    <3> QED
      BY <1>4, <1>5, <2>3, <2>4, <3>1
  <2> QED
    BY <1>2, <2>2, <2>5
<1>8. lookup(f) = <<p, f - offset[p - 1] + 1>>
  BY <1>5, <1>6, <1>7, LookupAt, Zenon
<1>9. f - offset[p - 1] + 1 = k
  BY <1>2, <1>3, <1>4, SMTT(30)
<1> QED
  BY <1>1, <1>5, <1>8, <1>9, Zenon DEF f

\* A set of bits survives the journey.
LEMMA LookupBits ==
    ASSUME NEW bits \in SUBSET Indices
    PROVE  /\ GetVoteset(bits) \subseteq 0 .. totalNodes - 1
           /\ {lookup(f) : f \in GetVoteset(bits)} = bits
           /\ {lookup(f) : f \in {valIndex(i) : i \in bits}} = bits
<1>1. GetVoteset(bits) = {valIndex(i) : i \in bits}
  BY Zenon DEF GetVoteset, valIndex
<1>2. \A i \in bits : valIndex(i) \in 0 .. totalNodes - 1 /\ lookup(valIndex(i)) = i
  BY LookupInverse, Zenon
<1>3. {lookup(f) : f \in {valIndex(i) : i \in bits}} = {lookup(valIndex(i)) : i \in bits}
  BY Zenon
<1>4. {lookup(valIndex(i)) : i \in bits} = bits
  BY <1>2, Zenon
<1> QED
  BY <1>1, <1>2, <1>3, <1>4, Zenon

-----------------------------------------------------------------------------
(* The invariant.                                                          *)

\* The stages of the operator, and the nodes besides it.
Stages == {"none", "preparing", "executing", "proposed", "broadcast", "gaveUp", "closed"}
Others == CommitteeNodes \ {Operator}

\* The types of the variables.
TypeOK ==
    /\ view \in [Nodes -> Nat] /\ clusterView \in Nat /\ stage \in Stages
    /\ responses \in [Nodes -> SUBSET Indices]
    /\ respCount \in [Nodes -> [Positions -> Nat]]
    /\ validator \in [Nodes -> {"none", "refused", "otherView", "voting", "watching", "failed"}]
    /\ prepare \subseteq Others /\ futureMsg \subseteq Others /\ prepared \subseteq Others
    /\ received \subseteq Others

\* The number of bits of every set.
Count(bits) == [p \in Positions |-> Cardinality({i \in bits : i[1] = p})]

\* The bits of a node are set in all of its sets or in none.
Whole(bits) == \A i \in bits : IndicesOf(KramaID(i)) \subseteq bits

\* The quorums that the operator waits for, and handleProposal asks of the QC.
Decides(count) == IsContextQuorum(count) /\ IsRandomQuorum(count)

\* The operator's count.
OperatorInv ==
    /\ Whole(responses[Operator])
    /\ stage = "none" => responses[Operator] = {}
    /\ stage \in {"executing", "proposed", "broadcast", "gaveUp"} => Decides(respCount[Operator])

\* The QC holds what the operator had counted when it made it.
QcInv ==
    /\ (qc # None) <=> stage \in {"proposed", "broadcast"}
    /\ qc # None =>
          /\ qc.view = clusterView /\ qc.signers = GetVoteset(qc.sig)
          /\ qc.sig \subseteq responses[Operator] /\ Whole(qc.sig) /\ Decides(Count(qc.sig))
          /\ proposalTS.context = getContextNodes(qc.sig)

\* A validator starts without bits, and votes for what it found in the QC.
ValidatorInv(n) ==
    /\ validator[n] # "none" => n \in received
    /\ n # Operator /\ validator[n] = "none" => responses[n] = {}
    /\ n \in received => stage = "broadcast" /\ IndexOf(n) \in responses[Operator]
    /\ validator[n] # "refused"
    /\ validator[n] \in {"voting", "watching"} =>
          (validator[n] = "voting" <=> IndexOf(n) \in qc.sig)

\* The inductive invariant.
PrepareInv ==
    /\ TypeOK /\ CountsMatchBits /\ OperatorInv /\ QcInv
    /\ \A n \in Nodes : ValidatorInv(n)

-----------------------------------------------------------------------------
(* Bits and counts.                                                        *)

\* The committee consists of nodes, the operator among them.
LEMMA CommitteeType ==
    /\ CommitteeNodes \subseteq Nodes
    /\ Operator \in CommitteeNodes /\ Operator \in Nodes
BY IndexType, PrepareAssumption, Zenon DEF CommitteeNodes

\* The bits of a node, its first index among them.
LEMMA NodeBits ==
    ASSUME NEW n \in CommitteeNodes
    PROVE  /\ IndexOf(n) \in IndicesOf(n) /\ IndicesOf(n) \subseteq Indices
           /\ \A i \in IndicesOf(n) : KramaID(i) = n
BY FirstIndex, Zenon DEF CommitteeNodes, IndicesOf, IsFirstIndex

\* A node whose first bit is not set has no bit set.
LEMMA NoBits ==
    ASSUME NEW bits, bits \subseteq Indices, Whole(bits), NEW n \in CommitteeNodes,
           IndexOf(n) \notin bits
    PROVE  bits \cap IndicesOf(n) = {}
BY NodeBits, Zenon DEF Whole

\* Setting all bits of a node keeps the sets of bits whole.
LEMMA WholeMore ==
    ASSUME NEW bits, Whole(bits), NEW n \in CommitteeNodes
    PROVE  Whole(bits \cup IndicesOf(n))
BY NodeBits, Zenon DEF Whole

\* The bits of one set are finitely many.
LEMMA CountType ==
    ASSUME NEW bits, bits \subseteq Indices
    PROVE  /\ Count(bits) \in [Positions -> Nat]
           /\ \A p \in Positions : IsFiniteSet({i \in bits : i[1] = p})
<1>1. ASSUME NEW p \in Positions
      PROVE  IsFiniteSet({i \in bits : i[1] = p}) /\ Cardinality({i \in bits : i[1] = p}) \in Nat
  <2>1. {i \in bits : i[1] = p} \in SUBSET Indices
    BY Zenon
  <2>2. IsFiniteSet({i \in bits : i[1] = p})
    BY <2>1, IndicesFinite, FS_Subset, Zenon
  <2> QED
    BY <2>2, FS_CardinalityType, Zenon
<1> QED
  BY <1>1, Zenon DEF Count

\* New bits are counted one by one.
LEMMA CountAdd ==
    ASSUME NEW bits \in SUBSET Indices, NEW new \in SUBSET Indices, bits \cap new = {},
           NEW p \in Positions
    PROVE  Count(bits \cup new)[p] = Count(bits)[p] + Cardinality({i \in new : i[1] = p})
<1> DEFINE S == {i \in bits : i[1] = p}
           T == {i \in new : i[1] = p}
<1>1. {i \in bits \cup new : i[1] = p} = S \cup T /\ S \cap T = {}
  BY Zenon
<1>2. IsFiniteSet(S) /\ IsFiniteSet(T)
  BY CountType, Zenon
<1>3. Count(bits \cup new)[p] = Cardinality(S \cup T) /\ Count(bits)[p] = Cardinality(S)
  BY <1>1, Zenon DEF Count
<1> HIDE DEF S, T
<1>4. /\ Cardinality(S \cup T) = Cardinality(S) + Cardinality(T) - Cardinality(S \cap T)
      /\ Cardinality(S) \in Nat /\ Cardinality(T) \in Nat
  BY <1>2, FS_Union, FS_CardinalityType, Zenon
<1>5. Cardinality(S \cap T) = 0
  BY <1>1, FS_EmptySet, Zenon
<1>6. Cardinality(S \cup T) = Cardinality(S) + Cardinality(T)
  BY <1>4, <1>5
<1> QED
  BY <1>3, <1>6, Zenon DEF T

\* With more bits a quorum stays one.
LEMMA DecidesMore ==
    ASSUME NEW bits, NEW more, bits \subseteq more, more \subseteq Indices, Decides(Count(bits))
    PROVE  Decides(Count(more))
<1>1. ASSUME NEW p \in Positions
      PROVE  /\ Count(bits)[p] \in Nat /\ Count(more)[p] \in Nat /\ Count(bits)[p] <= Count(more)[p]
             /\ (SetSizeWithOutDelta[p] * 2) \div 3 + 1 \in Nat
  <2>1. {i \in bits : i[1] = p} \in SUBSET {i \in more : i[1] = p}
    BY Zenon
  <2>2. /\ IsFiniteSet({i \in more : i[1] = p})
        /\ Count(bits)[p] \in Nat /\ Count(more)[p] \in Nat
    BY CountType, Zenon
  <2>3. Count(bits)[p] <= Count(more)[p]
    BY <2>1, <2>2, FS_Subset, Zenon DEF Count
  <2>4. SetSizeWithOutDelta[p] \in Nat
    BY CommitteeAssumption, Zenon
  <2>5. (SetSizeWithOutDelta[p] * 2) \div 3 + 1 \in Nat
    BY <2>4
  <2> QED
    BY <2>2, <2>3, <2>5, Zenon
<1>2. ASSUME NEW p \in Positions, Count(bits)[p] >= (SetSizeWithOutDelta[p] * 2) \div 3 + 1
      PROVE  Count(more)[p] >= (SetSizeWithOutDelta[p] * 2) \div 3 + 1
  <2>1. \A a, b, c \in Nat : a <= b /\ a >= c => b >= c
    OBVIOUS
  <2> QED
    BY <1>1, <1>2, <2>1, Zenon
<1>3. StochasticSetPosition \in Positions
  BY StochasticPosition
<1> QED
  BY <1>2, <1>3, Zenon DEF Decides, IsContextQuorum, IsRandomQuorum

\* UpdateResponse with bits that are not set yet.
LEMMA UpdateResponseInv ==
    ASSUME TypeOK, CountsMatchBits, NEW n \in Nodes, NEW bits, bits \subseteq Indices,
           responses[n] \cap bits = {}, UpdateResponse(n, bits)
    PROVE  /\ responses' \in [Nodes -> SUBSET Indices] /\ respCount' \in [Nodes -> [Positions -> Nat]]
           /\ responses'[n] = responses[n] \cup bits /\ respCount'[n] = Count(responses'[n])
           /\ counted(n, bits) = Count(responses'[n])
           /\ \A m \in Nodes \ {n} : responses'[m] = responses[m] /\ respCount'[m] = respCount[m]
           /\ CountsMatchBits'
<1>1. responses[n] \subseteq Indices /\ responses[n] \cup bits \subseteq Indices
  BY Zenon DEF TypeOK
<1>2. /\ responses'[n] = responses[n] \cup bits /\ respCount'[n] = counted(n, bits)
      /\ \A m \in Nodes \ {n} : responses'[m] = responses[m] /\ respCount'[m] = respCount[m]
      /\ responses' \in [Nodes -> SUBSET Indices]
  BY <1>1, Zenon DEF TypeOK, UpdateResponse
<1>3. \A p \in Positions : respCount[n][p] = Count(responses[n])[p]
  BY Zenon DEF CountsMatchBits, Count
<1>4. counted(n, bits) = Count(responses[n] \cup bits)
  <2>1. ASSUME NEW p \in Positions
        PROVE  respCount[n][p] + Cardinality({i \in bits : i[1] = p})
                   = Count(responses[n] \cup bits)[p]
    <3> DEFINE old == responses[n]
    <3>1. old \in SUBSET Indices /\ bits \in SUBSET Indices /\ old \cap bits = {}
      BY <1>1, Zenon
    <3> HIDE DEF old
    <3>2. Count(old \cup bits)[p] = Count(old)[p] + Cardinality({i \in bits : i[1] = p})
      BY <3>1, CountAdd, Zenon
    <3> QED
      BY <1>3, <3>2, Zenon DEF old
  <2>2. Count(responses[n] \cup bits) = [p \in Positions |-> Count(responses[n] \cup bits)[p]]
    BY <1>1, CountType, Zenon
  <2> QED
    BY <2>1, <2>2, Zenon DEF counted
<1>5. respCount' \in [Nodes -> [Positions -> Nat]]
  <2>1. counted(n, bits) \in [Positions -> Nat]
    BY <1>1, <1>4, CountType, Zenon
  <2> QED
    BY <2>1, Zenon DEF TypeOK, UpdateResponse
<1>6. CountsMatchBits'
  <2> SUFFICES ASSUME NEW m \in Nodes, NEW p \in Positions
               PROVE  respCount'[m][p] = Cardinality({i \in responses'[m] : i[1] = p})
    BY Zenon DEF CountsMatchBits
  <2>1. CASE m = n
    BY <1>2, <1>4, <2>1, Zenon DEF Count
  <2>2. CASE m # n
    BY <1>2, <2>2, Zenon DEF CountsMatchBits
  <2> QED
    BY <2>1, <2>2, Zenon
<1> QED
  BY <1>2, <1>4, <1>5, <1>6, Zenon

\* A count that is right has an entry for every set.
LEMMA CountOf ==
    ASSUME TypeOK, CountsMatchBits, NEW n \in Nodes
    PROVE  respCount[n] = Count(responses[n])
<1>1. respCount[n] \in [Positions -> Nat]
  BY Zenon DEF TypeOK
<1>2. \A p \in Positions : respCount[n][p] = Cardinality({i \in responses[n] : i[1] = p})
  BY Zenon DEF CountsMatchBits
<1> QED
  BY <1>1, <1>2, Zenon DEF Count

-----------------------------------------------------------------------------
(* Every step keeps the invariant.                                         *)

\* At first there are no bits, no counts and no QC.
LEMMA InitInv == Init => PrepareInv
<1> SUFFICES ASSUME Init PROVE PrepareInv
  BY Zenon
<1>1. TypeOK
  BY Zenon DEF Init, TypeOK, Stages
<1>2. CountsMatchBits
  <2>1. \A p \in Positions : {i \in {} : i[1] = p} = {}
    BY Zenon
  <2>2. Cardinality({}) = 0
    BY FS_EmptySet, Zenon
  <2> QED
    BY <2>1, <2>2, Zenon DEF Init, CountsMatchBits
<1>3. OperatorInv /\ QcInv
  BY CommitteeType, Zenon DEF Init, OperatorInv, QcInv, Whole
<1>4. \A n \in Nodes : ValidatorInv(n)
  BY Zenon DEF Init, ValidatorInv
<1> QED
  BY <1>1, <1>2, <1>3, <1>4, Zenon DEF PrepareInv

\* A step that concerns the clocks and the PREPARE only.
LEMMA QuietInv ==
    ASSUME PrepareInv, TypeOK',
           UNCHANGED <<clusterView, stage, responses, respCount, qc, proposalTS, received, validator>>
    PROVE  PrepareInv'
<1>1. CountsMatchBits'
  BY Zenon DEF PrepareInv, CountsMatchBits
<1>2. OperatorInv'
  BY Zenon DEF PrepareInv, OperatorInv, Whole, Decides, IsContextQuorum, IsRandomQuorum
<1>3. QcInv'
  BY Zenon DEF PrepareInv, QcInv, Whole
<1>4. \A n \in Nodes : ValidatorInv(n)'
  BY Zenon DEF PrepareInv, ValidatorInv
<1> QED
  BY <1>1, <1>2, <1>3, <1>4, Zenon DEF PrepareInv

\* A view timer concerns the clock only.
LEMMA ViewTickInv == ASSUME PrepareInv, NEW n \in Nodes, ViewTick(n) PROVE PrepareInv'
<1>1. TypeOK'
  BY DEF PrepareInv, TypeOK, ViewTick
<1> QED
  BY <1>1, QuietInv, Zenon DEF ViewTick

\* handlePrepare answers, or keeps the message for a later view.
LEMMA HandlePrepareInv == ASSUME PrepareInv, NEW n \in Nodes, HandlePrepare(n) PROVE PrepareInv'
<1>1. TypeOK'
  BY Zenon DEF PrepareInv, TypeOK, HandlePrepare
<1> QED
  BY <1>1, QuietInv, Zenon DEF HandlePrepare

\* A stage that ends without a proposal.
LEMMA EndInv == ASSUME PrepareInv, Timeout \/ GiveUp PROVE PrepareInv'
<1>1. /\ UNCHANGED <<view, clusterView, prepare, futureMsg, prepared, responses, respCount, qc,
                     proposalTS, received, validator>>
      /\ \/ stage = "preparing" /\ stage' = "closed"
         \/ stage = "executing" /\ stage' = "gaveUp"
  BY Zenon DEF Timeout, GiveUp
<1>2. TypeOK' /\ CountsMatchBits'
  BY <1>1, Zenon DEF PrepareInv, TypeOK, CountsMatchBits, Stages
<1>3. OperatorInv'
  BY <1>1, Zenon DEF PrepareInv, OperatorInv, Whole, Decides, IsContextQuorum, IsRandomQuorum
<1>4. QcInv'
  BY <1>1, Zenon DEF PrepareInv, QcInv
<1>5. \A n \in Nodes : ValidatorInv(n)'
  BY <1>1, Zenon DEF PrepareInv, ValidatorInv
<1> QED
  BY <1>2, <1>3, <1>4, <1>5, Zenon DEF PrepareInv

\* The operator counts an answer, its own or that of another node.
LEMMA AnswerInv ==
    ASSUME PrepareInv, NEW n \in CommitteeNodes, IndexOf(n) \notin responses[Operator],
           UpdateResponse(Operator, IndicesOf(n)), prepare' \subseteq Others, clusterView' \in Nat,
           UNCHANGED <<view, futureMsg, prepared, qc, proposalTS, received, validator>>,
           stage \in {"proposed", "broadcast"} => clusterView' = clusterView,
           stage' \in Stages \ {"none"},
           \A s \in {"proposed", "broadcast"} : stage = s <=> stage' = s,
           stage' \in {"executing", "gaveUp"} =>
               \/ stage \in {"executing", "gaveUp"}
               \/ Decides(counted(Operator, IndicesOf(n)))
    PROVE  PrepareInv'
<1> DEFINE bits == IndicesOf(n)
<1>1. /\ TypeOK /\ CountsMatchBits /\ OperatorInv /\ QcInv /\ Operator \in Nodes
      /\ bits \subseteq Indices /\ responses[Operator] \subseteq Indices
  BY CommitteeType, NodeBits, Zenon DEF PrepareInv, TypeOK
<1>2. responses[Operator] \cap bits = {}
  BY <1>1, NoBits, Zenon DEF OperatorInv
<1>3. /\ responses' \in [Nodes -> SUBSET Indices] /\ respCount' \in [Nodes -> [Positions -> Nat]]
      /\ responses'[Operator] = responses[Operator] \cup bits
      /\ respCount'[Operator] = Count(responses'[Operator])
      /\ counted(Operator, bits) = Count(responses'[Operator])
      /\ \A m \in Nodes \ {Operator} : responses'[m] = responses[m]
      /\ CountsMatchBits'
  BY <1>1, <1>2, UpdateResponseInv, Zenon
<1>4. TypeOK'
  BY <1>1, <1>3, Zenon DEF TypeOK
<1>5. OperatorInv'
  <2>1. Whole(responses'[Operator])
    <3> DEFINE old == responses[Operator]
    <3>1. Whole(old) /\ responses'[Operator] = old \cup IndicesOf(n)
      BY <1>1, <1>3, Zenon DEF OperatorInv
    <3> HIDE DEF old
    <3>2. Whole(old \cup IndicesOf(n))
      BY <3>1, WholeMore, Zenon
    <3> QED
      BY <3>1, <3>2, Zenon
  <2>2. ASSUME stage' \in {"executing", "proposed", "broadcast", "gaveUp"}
        PROVE  Decides(Count(responses'[Operator]))
    <3>1. CASE stage \in {"executing", "proposed", "broadcast", "gaveUp"}
      <4>1. Decides(Count(responses[Operator]))
        BY <1>1, <3>1, CountOf, Zenon DEF OperatorInv
      <4> QED
        BY <1>1, <1>3, <4>1, DecidesMore, Zenon
    <3>2. CASE stage \notin {"executing", "proposed", "broadcast", "gaveUp"}
      BY <1>3, <2>2, <3>2, Zenon
    <3> QED
      BY <3>1, <3>2, Zenon
  <2>3. /\ Whole(responses[Operator])' /\ stage' # "none"
        /\ stage' \in {"executing", "proposed", "broadcast", "gaveUp"} => Decides(respCount[Operator])'
    BY <1>3, <2>1, <2>2, Zenon DEF Decides, IsContextQuorum, IsRandomQuorum, Whole
  <2> QED
    BY <2>3, Zenon DEF OperatorInv
<1>6. QcInv'
  BY <1>1, <1>3, Zenon DEF QcInv, Whole
<1>7. ASSUME NEW m \in Nodes PROVE ValidatorInv(m)'
  BY <1>3, Zenon DEF PrepareInv, ValidatorInv
<1> QED
  BY <1>3, <1>4, <1>5, <1>6, <1>7, Zenon DEF PrepareInv

\* sendPrepare counts the answer of the operator itself.
LEMMA SendPrepareInv == ASSUME PrepareInv, SendPrepare PROVE PrepareInv'
<1>1. /\ UpdateResponse(Operator, IndicesOf(Operator)) /\ stage = "none" /\ stage' = "preparing"
      /\ UNCHANGED <<view, futureMsg, prepared, qc, proposalTS, received, validator>>
      /\ prepare' \subseteq Others
  BY Zenon DEF SendPrepare, Others
<1>2. IndexOf(Operator) \notin responses[Operator] /\ clusterView' \in Nat /\ Operator \in CommitteeNodes
  BY CommitteeType, Zenon DEF SendPrepare, PrepareInv, OperatorInv, TypeOK
<1> QED
  BY <1>1, <1>2, AnswerInv, Zenon DEF Stages

\* handlePrepared counts an answer of a node that had not been counted.
LEMMA HandlePreparedInv == ASSUME PrepareInv, NEW n \in Nodes, HandlePrepared(n) PROVE PrepareInv'
<1>1. /\ UpdateResponse(Operator, IndicesOf(n)) /\ IndexOf(n) \notin responses[Operator]
      /\ UNCHANGED <<view, clusterView, prepare, futureMsg, prepared, qc, proposalTS, received, validator>>
      /\ n \in prepared /\ stage \in {"preparing", "proposed", "broadcast", "gaveUp"}
      /\ stage' = IF stage = "preparing" /\ Decides(counted(Operator, IndicesOf(n)))
                  THEN "executing" ELSE stage
  BY Zenon DEF HandlePrepared, Decides
<1>2. n \in CommitteeNodes /\ prepare' \subseteq Others /\ clusterView' \in Nat
  BY <1>1, Zenon DEF PrepareInv, TypeOK, Others
<1>3. /\ stage' \in Stages \ {"none"}
      /\ \A s \in {"proposed", "broadcast"} : stage = s <=> stage' = s
      /\ stage' \in {"executing", "gaveUp"} =>
               \/ stage \in {"executing", "gaveUp"}
               \/ Decides(counted(Operator, IndicesOf(n)))
  BY <1>1, Zenon DEF Stages
<1> QED
  BY <1>1, <1>2, <1>3, AnswerInv, Zenon

\* createProposalTesseract makes the QC from the bits and the counters of the operator.
LEMMA CreateProposalInv == ASSUME PrepareInv, CreateProposal PROVE PrepareInv'
<1> DEFINE bits == responses[Operator]
<1>1. /\ stage = "executing" /\ stage' = "proposed"
      /\ proposalTS' = [view |-> view[Operator], context |-> getContextNodes(bits)]
      /\ qc' = [view |-> clusterView, signers |-> GetVoteset(bits), sig |-> bits]
      /\ UNCHANGED <<view, clusterView, prepare, futureMsg, prepared, responses, respCount,
                     received, validator>>
  BY Zenon DEF CreateProposal
<1>2. TypeOK /\ CountsMatchBits /\ OperatorInv /\ QcInv /\ Operator \in Nodes
  BY CommitteeType, Zenon DEF PrepareInv
<1>3. TypeOK' /\ CountsMatchBits'
  BY <1>1, <1>2, Zenon DEF TypeOK, CountsMatchBits, Stages
<1>4. OperatorInv'
  BY <1>1, <1>2, Zenon DEF OperatorInv, Whole, Decides, IsContextQuorum, IsRandomQuorum
<1>5. QcInv'
  <2>1. Whole(bits) /\ Decides(Count(bits))
    BY <1>1, <1>2, CountOf, Zenon DEF OperatorInv
  <2>2. /\ qc'.view = clusterView /\ qc'.signers = GetVoteset(qc'.sig) /\ qc'.sig = bits
        /\ proposalTS'.context = getContextNodes(qc'.sig)
    BY <1>1, Zenon
  <2>3. qc' # None
    <3>1. bits \in SUBSET Indices /\ clusterView \in Nat
      BY <1>2, Zenon DEF TypeOK
    <3>2. GetVoteset(bits) \subseteq 0 .. totalNodes - 1
      BY <3>1, LookupBits, Zenon
    <3>3. \A f \in GetVoteset(bits) : f \in Nat
      BY <3>2
    <3>4. qc' \in [view : Nat, signers : SUBSET Nat, sig : SUBSET Indices]
      BY <1>1, <3>1, <3>3, Zenon
    <3> QED
      BY <3>4, PrepareAssumption, Zenon
  <2> QED
    BY <1>1, <2>1, <2>2, <2>3, Zenon DEF QcInv, Whole
<1>6. ASSUME NEW n \in Nodes PROVE ValidatorInv(n)'
  <2>1. n \notin received
    BY <1>1, <1>2, Zenon DEF PrepareInv, ValidatorInv, QcInv
  <2> QED
    BY <1>1, <2>1, Zenon DEF PrepareInv, ValidatorInv
<1> QED
  BY <1>3, <1>4, <1>5, <1>6, Zenon DEF PrepareInv

\* The proposal is sent once, so no validator has one yet.
LEMMA BroadcastInv == ASSUME PrepareInv, Broadcast PROVE PrepareInv'
<1>1. /\ stage = "proposed" /\ stage' = "broadcast" /\ received' = RespondedNodes \ {Operator}
      /\ UNCHANGED <<view, clusterView, prepare, futureMsg, prepared, responses, respCount, qc,
                     proposalTS, validator>>
  BY Zenon DEF Broadcast
<1>2. /\ TypeOK /\ CountsMatchBits /\ OperatorInv /\ QcInv
      /\ responses[Operator] \subseteq Indices
  BY CommitteeType, Zenon DEF PrepareInv, TypeOK
<1>3. ASSUME NEW n \in received'
      PROVE  n \in Others /\ IndexOf(n) \in responses[Operator]
  <2>1. PICK i \in responses[Operator] : n = KramaID(i)
    BY <1>1, Zenon DEF RespondedNodes
  <2>2. n \in Others /\ n \in CommitteeNodes
    BY <1>1, <1>2, <2>1, Zenon DEF Others, CommitteeNodes
  <2>3. IndexOf(n) \in responses[Operator]
    BY <1>2, <2>1, <2>2, NodeBits, Zenon DEF OperatorInv, Whole
  <2> QED
    BY <2>2, <2>3, Zenon
<1>4. TypeOK' /\ CountsMatchBits'
  BY <1>1, <1>2, <1>3, Zenon DEF TypeOK, CountsMatchBits, Stages
<1>5. OperatorInv' /\ QcInv'
  BY <1>1, <1>2, Zenon DEF OperatorInv, QcInv, Whole, Decides, IsContextQuorum, IsRandomQuorum
<1>6. ASSUME NEW n \in Nodes PROVE ValidatorInv(n)'
  <2>1. qc # None
    BY <1>1, <1>2, Zenon DEF QcInv
  <2>2. validator[n] = "none"
    BY <1>1, <1>2, Zenon DEF PrepareInv, ValidatorInv, QcInv
  <2> QED
    BY <1>1, <1>3, <2>1, <2>2, Zenon DEF PrepareInv, ValidatorInv
<1> QED
  BY <1>4, <1>5, <1>6, Zenon DEF PrepareInv

\* A validator finds in the QC the bits that the operator put there.
LEMMA HandleProposalInv == ASSUME PrepareInv, NEW n \in Nodes, HandleProposal(n) PROVE PrepareInv'
<1> DEFINE bits == {lookup(f) : f \in qc.signers}
<1>1. /\ n \in received /\ validator[n] = "none" /\ UpdateResponse(n, bits)
      /\ validator' = [validator EXCEPT ![n] = Verdict(n, bits)]
      /\ UNCHANGED <<view, clusterView, stage, prepare, futureMsg, prepared, qc, proposalTS, received>>
  BY Zenon DEF HandleProposal
<1>2. /\ TypeOK /\ CountsMatchBits /\ OperatorInv /\ QcInv /\ ValidatorInv(n) /\ Operator \in Nodes
      /\ responses[Operator] \subseteq Indices
  BY CommitteeType, Zenon DEF PrepareInv, TypeOK
<1>3. /\ n # Operator /\ responses[n] = {} /\ qc # None /\ IndexOf(n) \in responses[Operator]
      /\ qc.signers = GetVoteset(qc.sig) /\ qc.sig \subseteq responses[Operator]
      /\ Decides(Count(qc.sig))
  BY <1>1, <1>2, Zenon DEF TypeOK, Others, ValidatorInv, QcInv
<1>4. bits = qc.sig /\ qc.signers \subseteq 0 .. totalNodes - 1 /\ bits \subseteq Indices
  <2>1. qc.sig \in SUBSET Indices
    BY <1>2, <1>3, Zenon
  <2> QED
    BY <1>3, <2>1, LookupBits, ZenonT(30)
<1> HIDE DEF bits
<1>5. /\ responses' \in [Nodes -> SUBSET Indices] /\ respCount' \in [Nodes -> [Positions -> Nat]]
      /\ responses'[n] = responses[n] \cup bits /\ counted(n, bits) = Count(responses'[n])
      /\ \A m \in Nodes \ {n} : responses'[m] = responses[m] /\ respCount'[m] = respCount[m]
      /\ CountsMatchBits'
  BY <1>1, <1>2, <1>3, <1>4, UpdateResponseInv, Zenon
<1>6. Decides(counted(n, bits))
  <2>1. responses'[n] = qc.sig
    BY <1>3, <1>4, <1>5, Zenon
  <2> QED
    BY <1>3, <1>5, <2>1, Zenon
<1>7. /\ Verdict(n, bits) \in {"otherView", "voting", "watching"}
      /\ Verdict(n, bits) \in {"voting", "watching"} =>
            (Verdict(n, bits) = "voting" <=> IndexOf(n) \in qc.sig)
  BY <1>4, <1>6, Zenon DEF Verdict, Decides
<1> DEFINE verdict == Verdict(n, bits)
<1> HIDE DEF verdict
<1>8. validator'[n] = verdict /\ \A m \in Nodes \ {n} : validator'[m] = validator[m]
  BY <1>1, <1>2, Zenon DEF TypeOK, verdict
<1>9. TypeOK'
  BY <1>1, <1>2, <1>5, <1>7, Zenon DEF TypeOK, verdict
<1>10. responses'[Operator] = responses[Operator] /\ respCount'[Operator] = respCount[Operator]
  BY <1>2, <1>3, <1>5, Zenon
<1>11. OperatorInv' /\ QcInv'
  BY <1>1, <1>2, <1>10, Zenon DEF OperatorInv, QcInv, Whole, Decides, IsContextQuorum, IsRandomQuorum
<1>12. ASSUME NEW m \in Nodes PROVE ValidatorInv(m)'
  <2>1. CASE m = n
    BY <1>1, <1>2, <1>3, <1>7, <1>8, <1>10, <2>1, Zenon DEF ValidatorInv, verdict
  <2>2. CASE m # n
    BY <1>1, <1>5, <1>8, <1>10, <2>2, Zenon DEF PrepareInv, ValidatorInv
  <2> QED
    BY <2>1, <2>2, Zenon
<1> QED
  BY <1>5, <1>9, <1>11, <1>12, Zenon DEF PrepareInv

\* A validator that cannot take the proposal leaves its bits alone.
LEMMA ProposalFailsInv == ASSUME PrepareInv, NEW n \in Nodes, ProposalFails(n) PROVE PrepareInv'
<1>1. /\ n \in received /\ validator' = [validator EXCEPT ![n] = "failed"]
      /\ UNCHANGED <<view, clusterView, stage, prepare, futureMsg, prepared, responses, respCount, qc,
                     proposalTS, received>>
  BY Zenon DEF ProposalFails
<1>2. /\ TypeOK' /\ CountsMatchBits'
      /\ validator'[n] = "failed" /\ \A m \in Nodes \ {n} : validator'[m] = validator[m]
  BY <1>1, Zenon DEF PrepareInv, TypeOK, CountsMatchBits
<1>3. OperatorInv' /\ QcInv'
  BY <1>1, Zenon DEF PrepareInv, OperatorInv, QcInv, Whole, Decides, IsContextQuorum, IsRandomQuorum
<1>4. ASSUME NEW m \in Nodes PROVE ValidatorInv(m)'
  <2>1. CASE m = n
    BY <1>1, <1>2, <2>1, Zenon DEF PrepareInv, ValidatorInv
  <2>2. CASE m # n
    BY <1>1, <1>2, <2>2, Zenon DEF PrepareInv, ValidatorInv
  <2> QED
    BY <2>1, <2>2, Zenon
<1> QED
  BY <1>2, <1>3, <1>4, Zenon DEF PrepareInv

\* Every step, and every stuttering step, keeps the invariant.
LEMMA NextInv == PrepareInv /\ [Next]_vars => PrepareInv'
<1> SUFFICES ASSUME PrepareInv, [Next]_vars PROVE PrepareInv'
  BY Zenon
<1>1. CASE UNCHANGED vars
  <2>1. /\ UNCHANGED <<view, clusterView, stage, prepare, futureMsg, prepared, responses, respCount,
                       qc, proposalTS, received, validator>>
        /\ TypeOK'
    BY <1>1, Zenon DEF vars, PrepareInv, TypeOK
  <2> QED
    BY <2>1, QuietInv, Zenon
<1>2. CASE Next
  BY <1>2, SendPrepareInv, EndInv, CreateProposalInv, BroadcastInv, ViewTickInv, HandlePrepareInv,
     HandlePreparedInv, HandleProposalInv, ProposalFailsInv, Zenon DEF Next
<1> QED
  BY <1>1, <1>2, Zenon

\* The invariant holds in every reachable state.
LEMMA PrepareInvariant == Spec => []PrepareInv
BY InitInv, NextInv, PTL DEF Spec

-----------------------------------------------------------------------------
(* What it implies.                                                        *)

(***************************************************************************)
(* At every node the count of a set is the number of its bits: neither a   *)
(* PREPARED message that arrives again (handlePrepared) nor the load of    *)
(* the QC (UpdateValidatorResponse) counts a bit twice.                    *)
(***************************************************************************)
THEOREM CountsMatchBitsCorrect == Spec => []CountsMatchBits
<1>1. PrepareInv => CountsMatchBits
  BY Zenon DEF PrepareInv
<1> QED
  BY <1>1, PrepareInvariant, PTL

(***************************************************************************)
(* No validator refuses the QC of an operator that follows the code: the   *)
(* flat indices lead back to the bits whose signatures were aggregated,    *)
(* and these have the quorums that handleProposal asks for.                *)
(***************************************************************************)
THEOREM QcAcceptedCorrect == Spec => []QcAccepted
<1>1. PrepareInv => QcAccepted
  BY Zenon DEF PrepareInv, ValidatorInv, QcAccepted
<1> QED
  BY <1>1, PrepareInvariant, PTL

(***************************************************************************)
(* A validator votes exactly if it is in the QC, and then the operator has *)
(* its bit and accepts the vote (sendVote, handleProposal).                *)
(***************************************************************************)
THEOREM VotersAreSignersCorrect == Spec => []VotersAreSigners
<1>1. PrepareInv => VotersAreSigners
  BY Zenon DEF PrepareInv, ValidatorInv, VotersAreSigners
<1> QED
  BY <1>1, PrepareInvariant, PTL

\* A quorum of answers, in every set, is what GetQuorum asks of the votes.
LEMMA DecidesQuorum ==
    ASSUME NEW bits \in SUBSET Indices, Whole(bits), Decides(Count(bits))
    PROVE  HasQuorum({IndexOf(KramaID(i)) : i \in bits})
<1> DEFINE R == {KramaID(i) : i \in bits}
<1>1. R \subseteq {KramaID(i) : i \in Indices}
  BY Zenon
<1>2. \A i, j \in Indices : i[1] = j[1] /\ KramaID(i) = KramaID(j) => i = j
  BY PrepareAssumption, Zenon
<1>3. ASSUME NEW i \in Indices, NEW j \in Indices, KramaID(i) = KramaID(j),
             i[1] = StochasticSetPosition
      PROVE  j[1] = StochasticSetPosition
  <2>1. \A l \in Indices : l[1] \in Positions /\ KramaID(l) \in Members(l[1])
    <3> SUFFICES ASSUME NEW l \in Indices PROVE l[1] \in Positions /\ KramaID(l) \in Members(l[1])
      BY Zenon
    <3>1. PICK p \in Positions : \E k \in DOMAIN Sets[p] : l = <<p, k>>
      BY Zenon DEF Indices
    <3>2. PICK k \in DOMAIN Sets[p] : l = <<p, k>>
      BY <3>1, Zenon
    <3> QED
      BY <3>2, Zenon DEF KramaID, Members
  <2> QED
    BY <1>3, <2>1, PrepareAssumption, Zenon DEF RandomSet
<1>4. ASSUME NEW p \in Positions
      PROVE  Cardinality({i \in Indices : i[1] = p /\ KramaID(i) \in R}) >= Quorum(p)
  <2>1. {i \in Indices : i[1] = p /\ KramaID(i) \in R} = {i \in bits : i[1] = p}
    BY Zenon DEF Whole, IndicesOf
  <2>2. Count(bits)[p] \in Nat /\ Count(bits)[p] = Cardinality({i \in bits : i[1] = p})
    BY CountType, Zenon DEF Count
  <2>3. Count(bits)[p] >= Quorum(p)
    <3>1. SetSizeWithOutDelta[p] \in Nat
      BY CommitteeAssumption, Zenon
    <3>2. CASE p = StochasticSetPosition
      BY <3>2, Zenon DEF Decides, IsRandomQuorum, Quorum
    <3>3. CASE p # StochasticSetPosition /\ (p \in ExcludedSets \/ SetSizeWithOutDelta[p] = 0)
      BY <2>2, <3>3 DEF Quorum
    <3>4. CASE p # StochasticSetPosition /\ p \notin ExcludedSets /\ SetSizeWithOutDelta[p] # 0
      <4>1. SetSizeWithOutDelta[p] > 0
        BY <3>1, <3>4
      <4> QED
        BY <3>4, <4>1, Zenon DEF Decides, IsContextQuorum, Quorum
    <3> QED
      BY <3>2, <3>3, <3>4, Zenon
  <2> QED
    BY <2>1, <2>2, <2>3, Zenon
<1>5. {IndexOf(n) : n \in R} = {IndexOf(KramaID(i)) : i \in bits}
  BY Zenon
<1> HIDE DEF R
<1>6. HasQuorum({IndexOf(n) : n \in R})
  BY <1>1, <1>2, <1>3, <1>4, AnswersSuffice, Zenon
<1> QED
  BY <1>5, <1>6, Zenon

(***************************************************************************)
(* When the operator proposes, the votes of those in the QC, each with its *)
(* one index, complete the quorum of every set, although PREPARED messages *)
(* are counted in all the sets of a node (UpdateNodePreparedMsg) and votes *)
(* by the slots of the first index (GetKramaID).                           *)
(***************************************************************************)
THEOREM ProposalCanBeDecidedCorrect == Spec => []ProposalCanBeDecided
<1>1. ASSUME PrepareInv PROVE ProposalCanBeDecided
  <2> SUFFICES ASSUME qc # None PROVE HasQuorum({IndexOf(KramaID(i)) : i \in qc.sig})
    BY Zenon DEF ProposalCanBeDecided
  <2>1. qc.sig \in SUBSET Indices /\ Whole(qc.sig) /\ Decides(Count(qc.sig))
    BY <1>1, CommitteeType, Zenon DEF PrepareInv, TypeOK, QcInv
  <2> QED
    BY <2>1, DecidesQuorum, Zenon
<1> QED
  BY <1>1, PrepareInvariant, PTL

(***************************************************************************)
(* A new account gets a context, of nodes that are in the QC: the random   *)
(* quorum leaves getContextNodes somebody to choose.                       *)
(***************************************************************************)
THEOREM NewAccountHasContextCorrect == Spec => []NewAccountHasContext
<1>1. ASSUME PrepareInv PROVE NewAccountHasContext
  <2> SUFFICES ASSUME qc # None
               PROVE  /\ proposalTS.context # {}
                      /\ proposalTS.context \subseteq {KramaID(i) : i \in qc.sig}
    BY Zenon DEF NewAccountHasContext
  <2> DEFINE answered == {i \in qc.sig : i[1] = StochasticSetPosition}
  <2>1. /\ qc.sig \in SUBSET Indices /\ Decides(Count(qc.sig))
        /\ proposalTS.context = getContextNodes(qc.sig)
    BY <1>1, CommitteeType, Zenon DEF PrepareInv, TypeOK, QcInv
  <2>2. answered # {}
    <3>1. /\ StochasticSetPosition \in Positions
          /\ SetSizeWithOutDelta[StochasticSetPosition] \in Nat
      BY StochasticPosition, CommitteeAssumption, Zenon
    <3>2. Cardinality(answered) = Count(qc.sig)[StochasticSetPosition]
      BY <3>1, Zenon DEF Count
    <3>3. /\ Count(qc.sig)[StochasticSetPosition] \in Nat
          /\ Count(qc.sig)[StochasticSetPosition]
                 >= (SetSizeWithOutDelta[StochasticSetPosition] * 2) \div 3 + 1
      BY <2>1, <3>1, CountType, Zenon DEF Decides, IsRandomQuorum
    <3>4. Cardinality(answered) # 0
      BY <3>1, <3>2, <3>3
    <3> QED
      BY <3>4, FS_EmptySet, Zenon
  <2>3. PICK j \in answered : \A l \in answered : ~ Before(l, j)
    BY <2>1, <2>2, FirstOf, Zenon
  <2>4. Cardinality({l \in answered : Before(l, j)}) < BehaviouralContextSize
    <3>1. {l \in answered : Before(l, j)} = {}
      BY <2>3, Zenon
    <3>2. Cardinality({l \in answered : Before(l, j)}) = 0
      BY <3>1, FS_EmptySet, Zenon
    <3> HIDE DEF answered
    <3> QED
      BY <3>2, PrepareAssumption
  <2> QED
    BY <2>1, <2>4, Zenon DEF getContextNodes
<1> QED
  BY <1>1, PrepareInvariant, PTL

(***************************************************************************)
(* A quorum of votes is accepted by nodes outside the cluster (verifyQc),  *)
(* unless the operator's view changed while it executed the interactions.  *)
(***************************************************************************)
THEOREM CommitVerifiesCorrect == Spec => []CommitVerifies
<1>1. ASSUME PrepareInv PROVE CommitVerifies
  <2> SUFFICES ASSUME qc # None, proposalTS.view = qc.view, HasQuorum(Voters)
               PROVE  verifyQc({valIndex(i) : i \in Voters}, Voters)
    BY Zenon DEF CommitVerifies
  <2> DEFINE signers == {valIndex(i) : i \in Voters}
  <2>1. qc.view = clusterView
    BY <1>1, Zenon DEF PrepareInv, QcInv
  <2>2. Voters \in SUBSET Indices
    <3>1. ASSUME NEW m \in Nodes, validator[m] = "voting" PROVE m \in CommitteeNodes
      <4>1. m \in received
        BY <1>1, <3>1, Zenon DEF PrepareInv, ValidatorInv
      <4> QED
        BY <1>1, <4>1, Zenon DEF PrepareInv, TypeOK, Others
    <3>2. \A m \in CommitteeNodes : IndexOf(m) \in Indices
      BY NodeBits, Zenon
    <3> QED
      BY <3>1, <3>2, CommitteeType, Zenon DEF Voters
  <2>3. {lookup(f) : f \in signers} = Voters
    BY <2>2, LookupBits, Zenon
  <2>4. ASSUME NEW p \in Positions \ (ExcludedSets \ {StochasticSetPosition})
        PROVE  Cardinality({i \in Voters : p \in SlotsOf(i)}) >=
                   IF SetSizeWithOutDelta[p] = 0 THEN 0
                   ELSE (SetSizeWithOutDelta[p] * 2) \div 3 + 1
    <3> DEFINE weight == Cardinality({i \in Voters : p \in SlotsOf(i)})
    <3>1. weight >= Quorum(p)
      BY Zenon DEF HasQuorum, Weight
    <3>2. weight \in Nat
      <4>1. {i \in Voters : p \in SlotsOf(i)} \in SUBSET Indices
        BY <2>2, Zenon
      <4> QED
        BY <4>1, IndicesFinite, FS_Subset, FS_CardinalityType, Zenon
    <3> HIDE DEF weight
    <3>3. CASE SetSizeWithOutDelta[p] = 0
      BY <3>2, <3>3 DEF weight
    <3>4. CASE SetSizeWithOutDelta[p] # 0
      BY <3>1, <3>4, Zenon DEF Quorum, weight
    <3> QED
      BY <3>3, <3>4, Zenon
  <2> HIDE DEF signers
  <2>5. verifyQc(signers, Voters)
    BY <2>1, <2>3, <2>4, Zenon DEF verifyQc
  <2> QED
    BY <2>5, Zenon DEF signers
<1> QED
  BY <1>1, PrepareInvariant, PTL
=============================================================================
