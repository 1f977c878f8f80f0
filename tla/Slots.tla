------------------------------- MODULE Slots -------------------------------
(***************************************************************************)
(* The consensus slots of one Krama engine and its table of account locks  *)
(* (types/slots.go).  A slot is the node's part in one consensus cluster.  *)
(* Creating it locks the accounts of the cluster's interactions; cleaning  *)
(* it up releases them.  Every method of Slots runs under one mutex, so    *)
(* each is a single action.                                                *)
(***************************************************************************)
EXTENDS Integers, Sequences, FiniteSets

CONSTANTS
    Clusters,        \* cluster IDs
    SyncIDs,         \* the cluster IDs under which callers outside consensus lock accounts
    Addrs,           \* account addresses
    SharedAddrs,     \* the accounts that some interaction read-locks
    OperatorSlots,   \* the initial number of free operator slots
    ValidatorSlots,  \* the initial number of free validator slots
    MaxInfos         \* bound on the list of an account a caller outside consensus locks

ASSUME SharedAssumption == SharedAddrs \subseteq Addrs

ASSUME CapacityAssumption == OperatorSlots \in Nat /\ ValidatorSlots \in Nat /\ MaxInfos \in Nat

SlotTypes == {"operator", "validator"}
LockTypes == {"read", "mutate"}
LockInfos == [lockType : LockTypes, clusterID : Clusters \cup SyncIDs]

(***************************************************************************)
(* The lock map of a cluster.  It mutates the account of the sender, which *)
(* no interaction merely reads, and only shared accounts are read-locked.  *)
(***************************************************************************)
LockMaps ==
    {locks \in UNION {[S -> LockTypes] : S \in SUBSET Addrs} :
        /\ DOMAIN locks \ SharedAddrs # {}
        /\ \A a \in DOMAIN locks : locks[a] = "read" => a \in SharedAddrs}

Requests == [slotType : SlotTypes, locks : LockMaps]

VARIABLES
    request,                  \* what each cluster ID stands for: its slot type and lock map
    slots,                    \* Slots.slots: the live clusters with their slots
    activeAccounts,           \* Slots.activeAccounts: address to list of LockInfo
    availableOperatorSlots,
    availableValidatorSlots,
    syncLocks                 \* the locks granted to callers outside consensus

slotVars == <<slots, activeAccounts, availableOperatorSlots, availableValidatorSlots>>
vars == <<request, slotVars, syncLocks>>

-----------------------------------------------------------------------------
(* The helpers that run with the mutex held.                               *)

\* Mutant: the slot type of the caller is dropped.
NewSlot_operatorOnly(slotType, locks) == [slotType |-> "operator", locks |-> locks]

\* A slot without its channels.
NewSlot(slotType, locks) == [slotType |-> slotType, locks |-> locks]

\* Mutant: a mutate lock in the table is not a conflict.
areAccountsActive_readsOnly(locks) ==
    \E a \in DOMAIN locks :
        /\ activeAccounts[a] # <<>>
        /\ activeAccounts[a][1].lockType = "read" /\ locks[a] = "mutate"

\* Only the first entry of an account's list is looked at.
areAccountsActive(locks) ==
    \E a \in DOMAIN locks :
        /\ activeAccounts[a] # <<>>
        /\ \/ activeAccounts[a][1].lockType = "mutate"
           \/ activeAccounts[a][1].lockType = "read" /\ locks[a] = "mutate"

addActiveAccounts(locks, c) ==
    [a \in Addrs |->
        IF a \in DOMAIN locks
        THEN Append(activeAccounts[a], [lockType |-> locks[a], clusterID |-> c])
        ELSE activeAccounts[a]]

\* Mutant: the operator branch does not return before the validator's update.
addToSlots_fallThrough(slotType, d) ==
    /\ availableOperatorSlots' =
           availableOperatorSlots + (IF slotType = "operator" THEN d ELSE 0)
    /\ availableValidatorSlots' = availableValidatorSlots + d

\* decrementSlots (d = -1) and incrementSlots (d = 1).
addToSlots(slotType, d) ==
    /\ availableOperatorSlots' =
           availableOperatorSlots + (IF slotType = "operator" THEN d ELSE 0)
    /\ availableValidatorSlots' =
           availableValidatorSlots + (IF slotType = "validator" THEN d ELSE 0)

(***************************************************************************)
(* The loop of ClearActiveAccount.  It overwrites each matching entry with *)
(* the last one and shortens a local copy of the slice header, but never   *)
(* stores the shortened slice, so the list keeps its length.  When the     *)
(* loop reaches position i every later entry is still the original one,    *)
(* and the local length has dropped once per earlier match.                *)
(***************************************************************************)
clearInPlace(infos, c) ==
    LET lenAt(i) == Len(infos) - Cardinality({j \in 1 .. i - 1 : infos[j].clusterID = c})
    IN  [i \in 1 .. Len(infos) |->
            IF infos[i].clusterID = c /\ i <= lenAt(i) THEN infos[lenAt(i)] ELSE infos[i]]

-----------------------------------------------------------------------------
Init ==
    /\ request \in [Clusters -> Requests]
    /\ slots = [c \in {} |-> <<>>]
    /\ activeAccounts = [a \in Addrs |-> <<>>]
    /\ availableOperatorSlots = OperatorSlots
    /\ availableValidatorSlots = ValidatorSlots
    /\ syncLocks = {}

\* A refused creation returns a nil slot and changes nothing.
CreateSlotAndLockAccounts(c) ==
    LET locks == request[c].locks IN
    /\ ~areAccountsActive(locks)
    /\ slots' = [d \in DOMAIN slots \cup {c} |-> 
           IF d = c THEN NewSlot(request[c].slotType, locks) ELSE slots[d]]
    /\ addToSlots(request[c].slotType, -1)
    /\ activeAccounts' = addActiveAccounts(locks, c)
    /\ UNCHANGED <<request, syncLocks>>

\* The whole list of every account of the slot is dropped.
CleanupSlot(c) ==
    /\ c \in DOMAIN slots
    /\ activeAccounts' = [a \in Addrs |->
           IF a \in DOMAIN slots[c].locks THEN <<>> ELSE activeAccounts[a]]
    /\ slots' = [d \in DOMAIN slots \ {c} |-> slots[d]]
    /\ addToSlots(slots[c].slotType, 1)
    /\ UNCHANGED <<request, syncLocks>>

\* A lock taken outside consensus, through Engine.AddActiveAccount.
AddActiveAccount(a, lockType, c) ==
    /\ lockType = "read" => a \in SharedAddrs
    /\ Len(activeAccounts[a]) < MaxInfos
    /\ [addr |-> a, lockType |-> lockType, clusterID |-> c] \notin syncLocks
    /\ ~areAccountsActive([x \in {a} |-> lockType])
    /\ activeAccounts' = addActiveAccounts([x \in {a} |-> lockType], c)
    /\ syncLocks' = syncLocks \cup {[addr |-> a, lockType |-> lockType, clusterID |-> c]}
    /\ UNCHANGED <<request, slots, availableOperatorSlots, availableValidatorSlots>>

\* The caller releases, through Engine.ClearActiveAccount, what it was granted.
ClearActiveAccount(held) ==
    LET infos == activeAccounts[held.addr] IN
    /\ activeAccounts' = [activeAccounts EXCEPT ![held.addr] =
           IF Len(infos) <= 1 THEN <<>> ELSE clearInPlace(infos, held.clusterID)]
    /\ syncLocks' = syncLocks \ {held}
    /\ UNCHANGED <<request, slots, availableOperatorSlots, availableValidatorSlots>>

Next ==
    \/ \E c \in Clusters : CreateSlotAndLockAccounts(c) \/ CleanupSlot(c)
    \/ \E a \in Addrs, lockType \in LockTypes, c \in SyncIDs : AddActiveAccount(a, lockType, c)
    \/ \E held \in syncLocks : ClearActiveAccount(held)

Spec == Init /\ [][Next]_vars

-----------------------------------------------------------------------------
(* Properties.                                                             *)

SlotHolders(a) == {c \in DOMAIN slots : a \in DOMAIN slots[c].locks}
SyncHolders(a) == {h \in syncLocks : h.addr = a}

\* The Go types of the lock table, the slot map and the two counters.
TypeOK ==
    /\ request \in [Clusters -> Requests]
    /\ DOMAIN slots \subseteq Clusters
    /\ \A c \in DOMAIN slots : slots[c] = request[c]
    /\ slots = [c \in DOMAIN slots |-> slots[c]]
    /\ activeAccounts \in [Addrs -> Seq(LockInfos)]
    /\ availableOperatorSlots \in Int
    /\ availableValidatorSlots \in Int
    /\ syncLocks \subseteq [addr : Addrs, lockType : LockTypes, clusterID : SyncIDs]

(***************************************************************************)
(* The lock table tells the truth about every account that is only ever    *)
(* mutate-locked: its list is empty when nobody holds the account, and     *)
(* otherwise has exactly one entry, naming the one holder.  In particular  *)
(* no two clusters work on such an account at the same time.               *)
(***************************************************************************)
TableNamesTheHolder ==
    \A a \in Addrs \ SharedAddrs :
        \/ /\ SlotHolders(a) = {} /\ SyncHolders(a) = {}
           /\ activeAccounts[a] = <<>>
        \/ \E c \in Clusters :
              /\ SlotHolders(a) = {c} /\ SyncHolders(a) = {}
              /\ activeAccounts[a] = <<[lockType |-> "mutate", clusterID |-> c]>>
        \/ \E h \in syncLocks :
              /\ SlotHolders(a) = {} /\ SyncHolders(a) = {h}
              /\ activeAccounts[a] = <<[lockType |-> "mutate", clusterID |-> h.clusterID]>>

(***************************************************************************)
(* The free-slot counters agree with the slot map: a slot is taken once    *)
(* and given back once, whatever creations were repeated or refused.       *)
(***************************************************************************)
SlotsOfType(t) == {c \in DOMAIN slots : slots[c].slotType = t}

SlotAccounting ==
    /\ availableOperatorSlots = OperatorSlots - Cardinality(SlotsOfType("operator"))
    /\ availableValidatorSlots = ValidatorSlots - Cardinality(SlotsOfType("validator"))

(***************************************************************************)
(* No account is mutated by one live cluster while another live cluster    *)
(* holds it, shared accounts included: what the protocol asks of           *)
(* interactions that run in the same view.  The code does not keep it.     *)
(***************************************************************************)
NoWriterBesideAnotherHolder ==
    \A c, d \in DOMAIN slots : \A a \in DOMAIN slots[c].locks \cap DOMAIN slots[d].locks :
        c # d => slots[c].locks[a] = "read" /\ slots[d].locks[a] = "read"
=============================================================================
