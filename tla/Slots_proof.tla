---------------------------- MODULE Slots_proof ----------------------------
(* Proofs about the lock table and the slot counters, for any set of       *)
(* clusters and accounts and any capacity.                                 *)
EXTENDS Slots, FiniteSetTheorems, TLAPS

(***************************************************************************)
(* Appending the locks of a cluster keeps the table well typed             *)
(* (addActiveAccount).                                                     *)
(***************************************************************************)
LEMMA AddType ==
    ASSUME TypeOK, NEW S \in SUBSET Addrs, NEW locks \in [S -> LockTypes],
           NEW c \in Clusters \cup SyncIDs
    PROVE  addActiveAccounts(locks, c) \in [Addrs -> Seq(LockInfos)]
<1>1. ASSUME NEW a \in S
      PROVE  Append(activeAccounts[a], [lockType |-> locks[a], clusterID |-> c]) \in Seq(LockInfos)
  <2>1. [lockType |-> locks[a], clusterID |-> c] \in LockInfos
    BY Zenon DEF LockInfos
  <2>2. activeAccounts[a] \in Seq(LockInfos)
    BY Zenon DEF TypeOK
  <2> QED BY <2>1, <2>2
<1>2. DOMAIN locks = S
  BY Zenon
<1> QED BY <1>1, <1>2, Zenon DEF TypeOK, addActiveAccounts

(***************************************************************************)
(* The in-place removal of ClearActiveAccount reads only inside the list.  *)
(***************************************************************************)
LEMMA ClearType ==
    ASSUME NEW infos \in Seq(LockInfos), NEW c
    PROVE  clearInPlace(infos, c) \in Seq(LockInfos)
<1> DEFINE matches(i) == {j \in 1 .. i - 1 : infos[j].clusterID = c}
           lenAt(i) == Len(infos) - Cardinality(matches(i))
<1>1. ASSUME NEW i \in 1 .. Len(infos), i <= lenAt(i)
      PROVE  infos[lenAt(i)] \in LockInfos
  <2>1. IsFiniteSet(1 .. i - 1)
    BY FS_Interval
  <2>2. IsFiniteSet(matches(i))
    BY <2>1, FS_Subset, Zenon
  <2>3. Cardinality(matches(i)) \in Nat
    BY <2>2, FS_CardinalityType, Zenon
  <2>4. lenAt(i) \in 1 .. Len(infos)
    BY <2>3, <1>1
  <2> QED BY <2>4
<1>2. clearInPlace(infos, c) =
        [i \in 1 .. Len(infos) |->
            IF infos[i].clusterID = c /\ i <= lenAt(i) THEN infos[lenAt(i)] ELSE infos[i]]
  BY Zenon DEF clearInPlace
<1> HIDE DEF lenAt
<1>3. [i \in 1 .. Len(infos) |->
            IF infos[i].clusterID = c /\ i <= lenAt(i) THEN infos[lenAt(i)] ELSE infos[i]]
        \in [1 .. Len(infos) -> LockInfos]
  BY <1>1
<1> QED BY <1>2, <1>3

(***************************************************************************)
(* Every reachable state is well typed, and a live slot is the one its     *)
(* cluster asked for.                                                      *)
(***************************************************************************)
LEMMA InitType == Init => TypeOK
  BY CapacityAssumption DEF Init, TypeOK, Requests, LockInfos

\* The slot that a cluster asked for has a type and locks.
LEMMA RequestLocks ==
    ASSUME TypeOK, NEW c \in Clusters
    PROVE  /\ request[c].slotType \in SlotTypes
           /\ request[c].locks \in LockMaps
           /\ \E S \in SUBSET Addrs : request[c].locks \in [S -> LockTypes]
           /\ request[c] = NewSlot(request[c].slotType, request[c].locks)
<1>1. request[c] \in [slotType : SlotTypes, locks : LockMaps]
  BY Zenon DEF TypeOK, Requests
<1>2. request[c].slotType \in SlotTypes /\ request[c].locks \in LockMaps
  BY <1>1, Zenon
<1>3. request[c] = NewSlot(request[c].slotType, request[c].locks)
  BY <1>1, Zenon DEF NewSlot
<1>4. request[c].locks \in UNION {[S -> LockTypes] : S \in SUBSET Addrs}
  BY <1>2, Zenon DEF LockMaps
<1>5. \E S \in SUBSET Addrs : request[c].locks \in [S -> LockTypes]
  BY <1>4, Zenon
<1> QED BY <1>2, <1>3, <1>5, Zenon

\* Every step keeps the types.
LEMMA NextType ==
    ASSUME TypeOK, [Next]_vars
    PROVE  TypeOK'
<1> USE DEF TypeOK
<1>1. ASSUME NEW c \in Clusters, CreateSlotAndLockAccounts(c)
      PROVE  TypeOK'
  <2>1. activeAccounts' \in [Addrs -> Seq(LockInfos)]
    <3>1. PICK S \in SUBSET Addrs : request[c].locks \in [S -> LockTypes]
      BY RequestLocks, Zenon
    <3> QED BY <1>1, <3>1, AddType, Zenon DEF CreateSlotAndLockAccounts
  <2>2. DOMAIN slots' = DOMAIN slots \cup {c}
    BY <1>1, Zenon DEF CreateSlotAndLockAccounts
  <2>3. \A d \in DOMAIN slots' : slots'[d] = request'[d]
    BY <1>1, RequestLocks, Zenon DEF CreateSlotAndLockAccounts
  <2>4. slots' = [d \in DOMAIN slots' |-> slots'[d]]
    BY <1>1, Zenon DEF CreateSlotAndLockAccounts
  <2>5. availableOperatorSlots' \in Int /\ availableValidatorSlots' \in Int
    BY <1>1 DEF CreateSlotAndLockAccounts, addToSlots
  <2>6. UNCHANGED <<request, syncLocks>>
    BY <1>1, Zenon DEF CreateSlotAndLockAccounts
  <2> QED BY <2>1, <2>2, <2>3, <2>4, <2>5, <2>6, Zenon
<1>2. ASSUME NEW c \in Clusters, CleanupSlot(c)
      PROVE  TypeOK'
  <2>1. activeAccounts' \in [Addrs -> Seq(LockInfos)]
    BY <1>2 DEF CleanupSlot
  <2>2. DOMAIN slots' = DOMAIN slots \ {c}
    BY <1>2, Zenon DEF CleanupSlot
  <2>3. \A d \in DOMAIN slots' : slots'[d] = request'[d]
    BY <1>2, Zenon DEF CleanupSlot
  <2>4. slots' = [d \in DOMAIN slots' |-> slots'[d]]
    BY <1>2, Zenon DEF CleanupSlot
  <2> QED BY <1>2, <2>1, <2>2, <2>3, <2>4 DEF CleanupSlot, addToSlots
<1>3. ASSUME NEW a \in Addrs, NEW lockType \in LockTypes, NEW c \in SyncIDs,
             AddActiveAccount(a, lockType, c)
      PROVE  TypeOK'
  <2>1. [x \in {a} |-> lockType] \in [{a} -> LockTypes]
    BY Zenon
  <2>2. activeAccounts' \in [Addrs -> Seq(LockInfos)]
    BY <1>3, <2>1, AddType, ZenonT(30) DEF AddActiveAccount
  <2>3. UNCHANGED <<slots, request, availableOperatorSlots, availableValidatorSlots>>
    BY <1>3, Zenon DEF AddActiveAccount
  <2>4. syncLocks' \subseteq [addr : Addrs, lockType : LockTypes, clusterID : SyncIDs]
    BY <1>3 DEF AddActiveAccount
  <2> QED BY <2>2, <2>3, <2>4, Zenon
<1>4. ASSUME NEW held \in syncLocks, ClearActiveAccount(held)
      PROVE  TypeOK'
  <2>1. held.addr \in Addrs
    BY Zenon
  <2>2. activeAccounts[held.addr] \in Seq(LockInfos)
    BY <2>1, Zenon
  <2>3. clearInPlace(activeAccounts[held.addr], held.clusterID) \in Seq(LockInfos)
    BY <2>2, ClearType, Zenon
  <2>4. activeAccounts' \in [Addrs -> Seq(LockInfos)]
    BY <1>4, <2>3 DEF ClearActiveAccount
  <2> QED BY <1>4, <2>4, Zenon DEF ClearActiveAccount
<1>5. CASE UNCHANGED vars
  BY <1>5, Zenon DEF vars, slotVars
<1> QED BY <1>1, <1>2, <1>3, <1>4, <1>5, Zenon DEF Next

\* The lock table, the slots and the counters keep their types.
THEOREM TypeCorrect == Spec => []TypeOK
  BY InitType, NextType, PTL DEF Spec
-----------------------------------------------------------------------------
(***************************************************************************)
(* The lock table and its holders.                                         *)
(***************************************************************************)

\* One account's clause of TableNamesTheHolder.
NamesHolder(a) ==
    \/ /\ SlotHolders(a) = {} /\ SyncHolders(a) = {}
       /\ activeAccounts[a] = <<>>
    \/ \E c \in Clusters :
          /\ SlotHolders(a) = {c} /\ SyncHolders(a) = {}
          /\ activeAccounts[a] = <<[lockType |-> "mutate", clusterID |-> c]>>
    \/ \E h \in syncLocks :
          /\ SlotHolders(a) = {} /\ SyncHolders(a) = {h}
          /\ activeAccounts[a] = <<[lockType |-> "mutate", clusterID |-> h.clusterID]>>

(***************************************************************************)
(* areAccountsActive lets a request through only if nobody holds any of    *)
(* its unshared accounts.                                                  *)
(***************************************************************************)
LEMMA GrantedAccountIsFree ==
    ASSUME NEW locks, NEW a \in DOMAIN locks, NamesHolder(a), ~areAccountsActive(locks)
    PROVE  SlotHolders(a) = {} /\ SyncHolders(a) = {} /\ activeAccounts[a] = <<>>
<1>1. activeAccounts[a] = <<>> \/ activeAccounts[a][1].lockType # "mutate"
  BY Zenon DEF areAccountsActive
<1>2. ASSUME NEW c, activeAccounts[a] = <<[lockType |-> "mutate", clusterID |-> c]>>
      PROVE  FALSE
  <2>1. activeAccounts[a][1] = [lockType |-> "mutate", clusterID |-> c]
    BY <1>2
  <2>2. activeAccounts[a] # <<>>
    BY <1>2
  <2> QED BY <1>1, <2>1, <2>2
<1> QED BY <1>2, Zenon DEF NamesHolder

\* A cluster whose slot is live is never granted a second one.
LEMMA CreatedSlotIsNew ==
    ASSUME TypeOK, TableNamesTheHolder, NEW c \in Clusters, CreateSlotAndLockAccounts(c)
    PROVE  c \notin DOMAIN slots
<1>1. PICK a \in DOMAIN request[c].locks : a \notin SharedAddrs
  BY RequestLocks, Zenon DEF LockMaps
<1>2. a \in Addrs
  BY RequestLocks, Zenon
<1>3. NamesHolder(a)
  BY <1>1, <1>2, Zenon DEF TableNamesTheHolder, NamesHolder
<1>4. SlotHolders(a) = {}
  BY <1>3, GrantedAccountIsFree, Zenon DEF CreateSlotAndLockAccounts
<1> QED BY <1>4, Zenon DEF TypeOK, SlotHolders

\* Every step keeps the lock table in line with the slots.
LEMMA NextNamesHolder ==
    ASSUME TypeOK, TableNamesTheHolder, [Next]_vars, NEW a \in Addrs \ SharedAddrs
    PROVE  NamesHolder(a)'
<1>0. NamesHolder(a)
  BY Zenon DEF TableNamesTheHolder, NamesHolder
<1>1. ASSUME NEW c \in Clusters, CreateSlotAndLockAccounts(c)
      PROVE  NamesHolder(a)'
  <2>1. c \notin DOMAIN slots
    BY <1>1, CreatedSlotIsNew, Zenon
  <2>2. UNCHANGED syncLocks /\ SyncHolders(a)' = SyncHolders(a)
    BY <1>1, Zenon DEF CreateSlotAndLockAccounts, SyncHolders
  <2>3. DOMAIN slots' = DOMAIN slots \cup {c}
        /\ slots'[c].locks = request[c].locks
        /\ \A d \in DOMAIN slots : slots'[d] = slots[d]
    BY <1>1, <2>1, Zenon DEF CreateSlotAndLockAccounts, NewSlot
  <2>4. CASE a \in DOMAIN request[c].locks
    <3>1. SlotHolders(a) = {} /\ SyncHolders(a) = {} /\ activeAccounts[a] = <<>>
      BY <1>0, <1>1, <2>4, GrantedAccountIsFree, Zenon DEF CreateSlotAndLockAccounts
    <3>2. request[c].locks[a] = "mutate"
      BY <2>4, RequestLocks, Zenon DEF LockMaps, LockTypes
    <3>3. activeAccounts'[a] = <<[lockType |-> "mutate", clusterID |-> c]>>
      <4>1. activeAccounts'[a] =
              Append(activeAccounts[a], [lockType |-> request[c].locks[a], clusterID |-> c])
        BY <1>1, <2>4, Zenon DEF CreateSlotAndLockAccounts, addActiveAccounts
      <4> QED BY <3>1, <3>2, <4>1
    <3>4. SlotHolders(a)' = {c}
      BY <2>3, <2>4, <3>1, Zenon DEF SlotHolders
    <3> QED BY <2>2, <3>1, <3>3, <3>4, Zenon DEF NamesHolder
  <2>5. CASE a \notin DOMAIN request[c].locks
    <3>1. SlotHolders(a)' = SlotHolders(a)
      BY <2>3, <2>5, Zenon DEF SlotHolders
    <3>2. activeAccounts'[a] = activeAccounts[a]
      BY <1>1, <2>5, Zenon DEF CreateSlotAndLockAccounts, addActiveAccounts
    <3> QED BY <1>0, <2>2, <3>1, <3>2, Zenon DEF NamesHolder
  <2> QED BY <2>4, <2>5, Zenon
<1>2. ASSUME NEW c \in Clusters, CleanupSlot(c)
      PROVE  NamesHolder(a)'
  <2>1. UNCHANGED syncLocks /\ SyncHolders(a)' = SyncHolders(a)
    BY <1>2, Zenon DEF CleanupSlot, SyncHolders
  <2>2. SlotHolders(a)' = SlotHolders(a) \ {c}
    BY <1>2, Zenon DEF CleanupSlot, SlotHolders
  <2>3. CASE a \in DOMAIN slots[c].locks
    <3>1. activeAccounts'[a] = <<>>
      BY <1>2, <2>3, Zenon DEF CleanupSlot
    <3>2. c \in SlotHolders(a)
      BY <1>2, <2>3, Zenon DEF CleanupSlot, SlotHolders
    <3>3. SlotHolders(a)' = {} /\ SyncHolders(a) = {}
      BY <1>0, <2>2, <3>2, Zenon DEF NamesHolder
    <3> QED BY <2>1, <3>1, <3>3, Zenon DEF NamesHolder
  <2>4. CASE a \notin DOMAIN slots[c].locks
    <3>1. activeAccounts'[a] = activeAccounts[a]
      BY <1>2, <2>4, Zenon DEF CleanupSlot
    <3>2. SlotHolders(a)' = SlotHolders(a)
      BY <2>2, <2>4, Zenon DEF SlotHolders
    <3> QED BY <1>0, <2>1, <3>1, <3>2, Zenon DEF NamesHolder
  <2> QED BY <2>3, <2>4, Zenon
<1>3. ASSUME NEW b \in Addrs, NEW lockType \in LockTypes, NEW c \in SyncIDs,
             AddActiveAccount(b, lockType, c)
      PROVE  NamesHolder(a)'
  <2> DEFINE h == [addr |-> b, lockType |-> lockType, clusterID |-> c]
  <2>1. syncLocks' = syncLocks \cup {h} /\ SlotHolders(a)' = SlotHolders(a)
    BY <1>3, Zenon DEF AddActiveAccount, SlotHolders
  <2>2. CASE b = a
    <3>1. SlotHolders(a) = {} /\ SyncHolders(a) = {} /\ activeAccounts[a] = <<>>
      BY <1>0, <1>3, <2>2, GrantedAccountIsFree, Zenon DEF AddActiveAccount
    <3>2. lockType = "mutate"
      BY <1>3, <2>2, Zenon DEF AddActiveAccount, LockTypes
    <3>3. activeAccounts'[a] = <<[lockType |-> "mutate", clusterID |-> c]>>
      <4>1. activeAccounts'[a] =
              Append(activeAccounts[a], [lockType |-> lockType, clusterID |-> c])
        BY <1>3, <2>2, Zenon DEF AddActiveAccount, addActiveAccounts
      <4> QED BY <3>1, <3>2, <4>1
    <3>4. SyncHolders(a)' = {h}
      BY <2>1, <2>2, <3>1 DEF SyncHolders
    <3> QED BY <2>1, <3>1, <3>3, <3>4, Zenon DEF NamesHolder
  <2>3. CASE b # a
    <3>1. SyncHolders(a)' = SyncHolders(a)
      BY <2>1, <2>3 DEF SyncHolders
    <3>2. activeAccounts'[a] = activeAccounts[a]
      BY <1>3, <2>3, Zenon DEF AddActiveAccount, addActiveAccounts
    <3> QED BY <1>0, <2>1, <3>1, <3>2, Zenon DEF NamesHolder
  <2> QED BY <2>2, <2>3, Zenon
<1>4. ASSUME NEW held \in syncLocks, ClearActiveAccount(held)
      PROVE  NamesHolder(a)'
  <2>1. syncLocks' = syncLocks \ {held} /\ SlotHolders(a)' = SlotHolders(a)
    BY <1>4, Zenon DEF ClearActiveAccount, SlotHolders
  <2>2. SyncHolders(a)' = SyncHolders(a) \ {held}
    BY <2>1, Zenon DEF SyncHolders
  <2>3. CASE held.addr = a
    <3>1. SyncHolders(a) = {held} /\ SlotHolders(a) = {}
          /\ activeAccounts[a] = <<[lockType |-> "mutate", clusterID |-> held.clusterID]>>
      BY <1>0, <2>3, Zenon DEF NamesHolder, SyncHolders
    <3>2. activeAccounts'[a] = <<>>
      BY <1>4, <2>3, <3>1 DEF ClearActiveAccount, TypeOK
    <3> QED BY <2>1, <2>2, <3>1, <3>2, Zenon DEF NamesHolder
  <2>4. CASE held.addr # a
    <3>1. SyncHolders(a)' = SyncHolders(a)
      BY <2>2, <2>4 DEF SyncHolders
    <3>2. activeAccounts'[a] = activeAccounts[a]
      BY <1>4, <2>4, Zenon DEF ClearActiveAccount, TypeOK
    <3>3. \A h \in SyncHolders(a) : h \in syncLocks'
      BY <2>1, <2>4, Zenon DEF SyncHolders
    <3> QED BY <1>0, <2>1, <3>1, <3>2, <3>3, Zenon DEF NamesHolder
  <2> QED BY <2>3, <2>4, Zenon
<1>5. CASE UNCHANGED vars
  BY <1>0, <1>5, Zenon DEF vars, slotVars, NamesHolder, SlotHolders, SyncHolders
<1> QED BY <1>1, <1>2, <1>3, <1>4, <1>5, Zenon DEF Next

(***************************************************************************)
(* For every account that is only ever mutate-locked the table is empty    *)
(* when nobody holds the account and names its single holder otherwise, so *)
(* two live clusters never share one.                                      *)
(***************************************************************************)
THEOREM LockTableCorrect == Spec => []TableNamesTheHolder
<1>1. Init => TableNamesTheHolder
  BY Zenon DEF Init, TableNamesTheHolder, SlotHolders, SyncHolders
<1>2. TypeOK /\ TableNamesTheHolder /\ [Next]_vars => TableNamesTheHolder'
  BY NextNamesHolder, Zenon DEF NamesHolder, TableNamesTheHolder
<1> QED BY <1>1, <1>2, TypeCorrect, PTL DEF Spec
-----------------------------------------------------------------------------
(***************************************************************************)
(* The counters.  Only finitely many slots are live, since each step       *)
(* creates at most one.                                                    *)
(***************************************************************************)
AccountingInv == IsFiniteSet(DOMAIN slots) /\ SlotAccounting

\* Every step keeps the counters in line with the slots.
LEMMA NextAccounting ==
    ASSUME TypeOK, TableNamesTheHolder, AccountingInv, [Next]_vars
    PROVE  AccountingInv'
<1>0. /\ IsFiniteSet(SlotsOfType("operator")) /\ Cardinality(SlotsOfType("operator")) \in Nat
      /\ IsFiniteSet(SlotsOfType("validator")) /\ Cardinality(SlotsOfType("validator")) \in Nat
  <2>1. SlotsOfType("operator") \subseteq DOMAIN slots
        /\ SlotsOfType("validator") \subseteq DOMAIN slots
    BY Zenon DEF SlotsOfType
  <2> QED BY <2>1, FS_Subset, FS_CardinalityType, Zenon DEF AccountingInv
<1>1. ASSUME NEW c \in Clusters, CreateSlotAndLockAccounts(c)
      PROVE  AccountingInv'
  <2>1. c \notin DOMAIN slots
    BY <1>1, CreatedSlotIsNew, Zenon
  <2>2. DOMAIN slots' = DOMAIN slots \cup {c}
        /\ slots'[c].slotType = request[c].slotType
        /\ \A d \in DOMAIN slots : slots'[d] = slots[d]
    BY <1>1, <2>1, Zenon DEF CreateSlotAndLockAccounts, NewSlot
  <2>3. IsFiniteSet(DOMAIN slots')
    BY <2>2, FS_AddElement, Zenon DEF AccountingInv
  <2>4. CASE request[c].slotType = "operator"
    <3>1. SlotsOfType("operator")' = SlotsOfType("operator") \cup {c}
          /\ SlotsOfType("validator")' = SlotsOfType("validator")
      BY <2>2, <2>4, Zenon DEF SlotsOfType
    <3>2. Cardinality(SlotsOfType("operator")') = Cardinality(SlotsOfType("operator")) + 1
      BY <1>0, <2>1, <3>1, FS_AddElement, Zenon DEF SlotsOfType
    <3>3. availableOperatorSlots' = availableOperatorSlots - 1
          /\ availableValidatorSlots' = availableValidatorSlots
      BY <1>1, <2>4 DEF CreateSlotAndLockAccounts, addToSlots, TypeOK
    <3> QED BY <1>0, <2>3, <3>1, <3>2, <3>3, CapacityAssumption DEF AccountingInv, SlotAccounting
  <2>5. CASE request[c].slotType = "validator"
    <3>1. SlotsOfType("validator")' = SlotsOfType("validator") \cup {c}
          /\ SlotsOfType("operator")' = SlotsOfType("operator")
      BY <2>2, <2>5, Zenon DEF SlotsOfType
    <3>2. Cardinality(SlotsOfType("validator")') = Cardinality(SlotsOfType("validator")) + 1
      BY <1>0, <2>1, <3>1, FS_AddElement, Zenon DEF SlotsOfType
    <3>3. availableValidatorSlots' = availableValidatorSlots - 1
          /\ availableOperatorSlots' = availableOperatorSlots
      BY <1>1, <2>5 DEF CreateSlotAndLockAccounts, addToSlots, TypeOK
    <3> QED BY <1>0, <2>3, <3>1, <3>2, <3>3, CapacityAssumption DEF AccountingInv, SlotAccounting
  <2> QED BY <2>4, <2>5, RequestLocks, Zenon DEF SlotTypes
<1>2. ASSUME NEW c \in Clusters, CleanupSlot(c)
      PROVE  AccountingInv'
  <2>1. c \in DOMAIN slots /\ DOMAIN slots' = DOMAIN slots \ {c}
        /\ \A d \in DOMAIN slots' : slots'[d] = slots[d]
    BY <1>2, Zenon DEF CleanupSlot
  <2>2. IsFiniteSet(DOMAIN slots')
    BY <2>1, FS_RemoveElement, Zenon DEF AccountingInv
  <2>3. slots[c].slotType \in SlotTypes
    BY <2>1, RequestLocks, Zenon DEF TypeOK
  <2>4. CASE slots[c].slotType = "operator"
    <3>1. SlotsOfType("operator")' = SlotsOfType("operator") \ {c}
          /\ SlotsOfType("validator")' = SlotsOfType("validator")
          /\ c \in SlotsOfType("operator")
      BY <2>1, <2>4, Zenon DEF SlotsOfType
    <3>2. Cardinality(SlotsOfType("operator")') = Cardinality(SlotsOfType("operator")) - 1
      BY <1>0, <3>1, FS_RemoveElement, Zenon
    <3>3. availableOperatorSlots' = availableOperatorSlots + 1
          /\ availableValidatorSlots' = availableValidatorSlots
      BY <1>2, <2>4 DEF CleanupSlot, addToSlots, TypeOK
    <3> QED BY <1>0, <2>2, <3>1, <3>2, <3>3, CapacityAssumption DEF AccountingInv, SlotAccounting
  <2>5. CASE slots[c].slotType = "validator"
    <3>1. SlotsOfType("validator")' = SlotsOfType("validator") \ {c}
          /\ SlotsOfType("operator")' = SlotsOfType("operator")
          /\ c \in SlotsOfType("validator")
      BY <2>1, <2>5, Zenon DEF SlotsOfType
    <3>2. Cardinality(SlotsOfType("validator")') = Cardinality(SlotsOfType("validator")) - 1
      BY <1>0, <3>1, FS_RemoveElement, Zenon
    <3>3. availableValidatorSlots' = availableValidatorSlots + 1
          /\ availableOperatorSlots' = availableOperatorSlots
      BY <1>2, <2>5 DEF CleanupSlot, addToSlots, TypeOK
    <3> QED BY <1>0, <2>2, <3>1, <3>2, <3>3, CapacityAssumption DEF AccountingInv, SlotAccounting
  <2> QED BY <2>3, <2>4, <2>5, Zenon DEF SlotTypes
<1>3. ASSUME NEW a \in Addrs, NEW lockType \in LockTypes, NEW c \in SyncIDs,
             AddActiveAccount(a, lockType, c)
      PROVE  AccountingInv'
  BY <1>3, Zenon DEF AddActiveAccount, AccountingInv, SlotAccounting, SlotsOfType
<1>4. ASSUME NEW held \in syncLocks, ClearActiveAccount(held)
      PROVE  AccountingInv'
  BY <1>4, Zenon DEF ClearActiveAccount, AccountingInv, SlotAccounting, SlotsOfType
<1>5. CASE UNCHANGED vars
  BY <1>5, Zenon DEF vars, slotVars, AccountingInv, SlotAccounting, SlotsOfType
<1> QED BY <1>1, <1>2, <1>3, <1>4, <1>5, Zenon DEF Next

(***************************************************************************)
(* Both counters always equal their capacity minus the number of live      *)
(* slots of their type: no creation or cleanup is counted twice or lost.   *)
(***************************************************************************)
THEOREM CountersCorrect == Spec => []SlotAccounting
<1>1. Init => AccountingInv
  <2> SUFFICES ASSUME Init PROVE AccountingInv
    BY Zenon
  <2>1. DOMAIN slots = {}
    BY Zenon DEF Init
  <2>2. SlotsOfType("operator") = {} /\ SlotsOfType("validator") = {}
    BY <2>1, Zenon DEF SlotsOfType
  <2>3. IsFiniteSet({}) /\ Cardinality({}) = 0
    BY FS_EmptySet, Zenon
  <2>4. IsFiniteSet(DOMAIN slots)
    BY <2>1, <2>3, Zenon
  <2>5. SlotAccounting
    <3>1. Cardinality(SlotsOfType("operator")) = 0 /\ Cardinality(SlotsOfType("validator")) = 0
      BY <2>2, <2>3, Zenon
    <3>2. availableOperatorSlots = OperatorSlots /\ availableValidatorSlots = ValidatorSlots
      BY Zenon DEF Init
    <3> QED BY <3>1, <3>2, CapacityAssumption DEF SlotAccounting
  <2> QED BY <2>4, <2>5, Zenon DEF AccountingInv
<1>2. AccountingInv => SlotAccounting
  BY Zenon DEF AccountingInv
<1>3. TypeOK /\ TableNamesTheHolder /\ AccountingInv /\ [Next]_vars => AccountingInv'
  BY NextAccounting, Zenon
<1> QED BY <1>1, <1>2, <1>3, TypeCorrect, LockTableCorrect, PTL DEF Spec
=============================================================================
