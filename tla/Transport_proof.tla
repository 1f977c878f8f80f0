--------------------------- MODULE Transport_proof ---------------------------
(***************************************************************************)
(* Proofs about Transport, for any number of peers, clusters and stream    *)
(* objects and any capacity of their channels.                             *)
(*                                                                         *)
(* A peer object is closed in two steps: the reader or the cleaner that    *)
(* finds it dead or unused asks the life cycle goroutine to close the id,  *)
(* and that goroutine closes whatever object the id has by then.  What     *)
(* keeps two connectors from opening the same id is the id's mutex, held   *)
(* from the lookup to the registration.  The argument has three layers:    *)
(* Typed, which objects are in use; LockInv, who believes to hold the      *)
(* mutex of an id does; and the two properties themselves.                 *)
(***************************************************************************)
EXTENDS Transport, TLAPS

\* Whatever a goroutine works on exists: a reader and the cleaner have an object that
\* was created, and such an object has its peer; the life cycle goroutine has an
\* object to send on or an id to close.
InUse ==
    /\ \A i \in Insts : reader[i] # "off" => inst[i].chan # "none"
    /\ \A i \in Insts : inst[i].chan # "none" => inst[i].peer \in Peers
    /\ cleaner.at \in {"found", "locked", "disconnect", "unlock"} =>
          cleaner.inst # 0 /\ inst[cleaner.inst].chan # "none"
    /\ lifecycle.at = "send" => lifecycle.inst # 0
    /\ lifecycle.at = "close" => lifecycle.peer \in Peers

\* An id is registered to an object that was created.
RegisteredInUse == \A p \in Peers : registered[p] # 0 => inst[registered[p]].chan # "none"

\* TypeOK, strengthened until it is inductive.
Typed == TypeOK /\ InUse /\ RegisteredInUse

\* A peer object.
InstRec == [peer : Peers \cup {None}, clusters : SUBSET Clusters,
            chan : {"none", "open", "closed"}, queued : 0 .. ChanCap, up : BOOLEAN]

\* What every change of an existing object leaves alone.
KeepsInsts ==
    /\ inst' \in [Insts -> InstRec]
    /\ \A j \in Insts : /\ inst'[j].peer = inst[j].peer
                        /\ inst'[j].chan = "none" <=> inst[j].chan = "none"

\* A step that changes one field of one object.
LEMMA InstChange ==
  ASSUME Typed, NEW i \in Insts, NEW r \in InstRec,
         inst' = [inst EXCEPT ![i] = r],
         r.peer = inst[i].peer, r.chan = "none" <=> inst[i].chan = "none"
  PROVE  KeepsInsts
<1>1. inst \in [Insts -> InstRec]
  BY ZenonT(60) DEF Typed, TypeOK, InstRec
<1> QED
  BY <1>1, Zenon DEF KeepsInsts

\* The cleaner, and the places where it has an object.
CleanerRec == [at : {"wait", "loop", "found", "locked", "disconnect", "unlock"},
               cluster : Clusters \cup {None}, todo : SUBSET Peers, inst : 0 .. MaxInst]
HasObject == {"found", "locked", "disconnect", "unlock"}

\* Such a step keeps the types when the rest of the state goes on as it may.
LEMMA KeepTyped ==
  ASSUME Typed, KeepsInsts, UNCHANGED <<reader, registered, router>>,
         lock' \in [Peers -> Holders \cup {None}],
         connector' \in [Connectors -> {"off", "dialing", "locked", "opening", "prepare", "done"}],
         cleaner' \in CleanerRec, cleaner'.inst = cleaner.inst,
         cleaner'.at \in HasObject => cleaner.at \in HasObject,
         lifecycle' \in {lifecycle, Idle}
  PROVE  Typed'
<1> USE DEF Typed, HasObject, Insts
<1>1. TypeOK'
  <2>1. inst' \in [Insts -> InstRec] /\ cleaner' \in CleanerRec
    BY Zenon DEF KeepsInsts
  <2>2. lifecycle' \in [at : {"select", "send", "close"}, peer : Peers \cup {None},
                       inst : 0 .. MaxInst]
    BY TransportAssumption DEF TypeOK, Idle
  <2> QED
    BY <2>1, <2>2, ZenonT(60) DEF TypeOK, InstRec, CleanerRec
<1>2. \A i \in Insts : reader'[i] # "off" => inst'[i].chan # "none"
  BY Zenon DEF InUse, KeepsInsts
<1>3. \A i \in Insts : inst'[i].chan # "none" => inst'[i].peer \in Peers
  BY Zenon DEF InUse, KeepsInsts
<1>4. cleaner'.at \in HasObject => cleaner'.inst # 0 /\ inst'[cleaner'.inst].chan # "none"
  <2> SUFFICES ASSUME cleaner'.at \in HasObject
               PROVE  cleaner'.inst # 0 /\ inst'[cleaner'.inst].chan # "none"
    BY Zenon
  <2>1. cleaner.inst # 0 /\ inst[cleaner.inst].chan # "none"
    BY Zenon DEF InUse
  <2>2. cleaner.inst \in Insts
    BY <2>1, TransportAssumption DEF TypeOK
  <2> QED
    BY <2>1, <2>2, Zenon DEF KeepsInsts
<1>5. /\ lifecycle'.at = "send" => lifecycle'.inst # 0
      /\ lifecycle'.at = "close" => lifecycle'.peer \in Peers
  BY DEF InUse, Idle
<1>6. RegisteredInUse'
  BY TransportAssumption DEF RegisteredInUse, KeepsInsts, TypeOK
<1> QED
  BY <1>1, <1>2, <1>3, <1>4, <1>5, <1>6, Zenon DEF InUse

\* Every step keeps the types.
LEMMA NextTyped == Typed /\ [Next]_vars => Typed'
<1> SUFFICES ASSUME Typed, [Next]_vars PROVE Typed'
  BY Zenon
<1> USE TransportAssumption DEF Insts, Idle, Resting, Holders, Connectors, Reader, Cleaner
<1>1. ASSUME NEW c \in Clusters, RegisterContextRouter(c) PROVE Typed'
  BY <1>1, ZenonT(60) DEF RegisterContextRouter, Typed, TypeOK, InUse, RegisteredInUse
<1>2. ASSUME NEW c \in Clusters, SendPrepareMsg(c) PROVE Typed'
  BY <1>2, ZenonT(60) DEF SendPrepareMsg, Typed, TypeOK, InUse, RegisteredInUse
<1>3. ASSUME NEW c \in Clusters, NEW p \in Peers, ConnectLock(c, p) PROVE Typed'
  BY <1>3, ZenonT(60) DEF ConnectLock, Typed, TypeOK, InUse, RegisteredInUse
<1>4. ASSUME NEW c \in Clusters, NEW p \in Peers, ConnectShare(c, p) PROVE Typed'
  <2>1. registered[p] \in Insts
    BY <1>4 DEF ConnectShare, Typed, TypeOK, InUse
  <2>2. inst[registered[p]] \in InstRec
    BY <2>1, ZenonT(60) DEF Typed, TypeOK, InstRec
  <2>3. PICK r : r = [inst[registered[p]] EXCEPT !.clusters = @ \cup {c}]
    BY Zenon
  <2>4. r \in InstRec /\ r.peer = inst[registered[p]].peer /\ r.chan = inst[registered[p]].chan
    BY <1>4, <2>2, <2>3, Zenon DEF ConnectShare, InstRec
  <2>5. inst' = [inst EXCEPT ![registered[p]] = r]
    BY <1>4, <2>1, <2>2, <2>3, ZenonT(60) DEF ConnectShare, InstRec, Typed, TypeOK
  <2>6. KeepsInsts
    BY <2>1, <2>4, <2>5, InstChange, Zenon
  <2>7. /\ lock' \in [Peers -> Holders \cup {None}]
        /\ connector' \in [Connectors -> {"off", "dialing", "locked", "opening", "prepare", "done"}]
        /\ UNCHANGED <<reader, registered, router>>
        /\ lifecycle' \in {lifecycle, Idle}
    BY <1>4, ZenonT(60) DEF ConnectShare, Typed, TypeOK
  <2>8. /\ cleaner' \in CleanerRec /\ cleaner'.inst = cleaner.inst
        /\ cleaner'.at \in HasObject => cleaner.at \in HasObject
    BY <1>4, ZenonT(60) DEF ConnectShare, Typed, TypeOK, CleanerRec, HasObject
  <2> QED
    BY <2>6, <2>7, <2>8, KeepTyped, Zenon
<1>5. ASSUME NEW c \in Clusters, NEW p \in Peers, ConnectDial(c, p) PROVE Typed'
  BY <1>5, ZenonT(60) DEF ConnectDial, Typed, TypeOK, InUse, RegisteredInUse
<1>6. ASSUME NEW c \in Clusters, NEW p \in Peers, NEW i \in Insts, ConnectNew(c, p, i)
      PROVE  Typed'
  BY <1>6, SMTT(30) DEF ConnectNew, Typed, TypeOK, InUse, RegisteredInUse
<1>7. ASSUME NEW c \in Clusters, NEW p \in Peers, ConnectFails(c, p) PROVE Typed'
  BY <1>7, ZenonT(60) DEF ConnectFails, Typed, TypeOK, InUse, RegisteredInUse
<1>8. ASSUME NEW c \in Clusters, NEW p \in Peers, SendMessage(c, p) PROVE Typed'
  BY <1>8, ZenonT(30) DEF SendMessage, Typed, TypeOK, InUse, RegisteredInUse
<1>9. ASSUME NEW p \in Peers, SendAsValidator(p) PROVE Typed'
  BY <1>9, ZenonT(60) DEF SendAsValidator, Typed, TypeOK, InUse, RegisteredInUse
<1>10. ASSUME NEW c \in Clusters, GracefullyCloseContextRouter(c) PROVE Typed'
  BY <1>10, ZenonT(60) DEF GracefullyCloseContextRouter, Typed, TypeOK, InUse, RegisteredInUse
<1>11. ASSUME NEW i \in Insts, Ship(i) PROVE Typed'
  <2>1. i \in Insts
    BY <1>11, ZenonT(60) DEF Ship, Typed, TypeOK, InUse
  <2>2. inst[i] \in InstRec
    BY <2>1, ZenonT(60) DEF Typed, TypeOK, InstRec
  <2>3. PICK r : r = [inst[i] EXCEPT !.queued = @ - 1]
    BY Zenon
  <2>4. r \in InstRec /\ r.peer = inst[i].peer /\ r.chan = inst[i].chan
    BY <1>11, <2>2, <2>3 DEF Ship, InstRec
  <2>5. inst' = [inst EXCEPT ![i] = r]
    BY <1>11, <2>1, <2>2, <2>3, ZenonT(60) DEF Ship, InstRec, Typed, TypeOK
  <2>6. KeepsInsts
    BY <2>1, <2>4, <2>5, InstChange, Zenon
  <2>7. /\ lock' \in [Peers -> Holders \cup {None}]
        /\ connector' \in [Connectors -> {"off", "dialing", "locked", "opening", "prepare", "done"}]
        /\ UNCHANGED <<reader, registered, router>>
        /\ lifecycle' \in {lifecycle, Idle}
    BY <1>11, ZenonT(60) DEF Ship, Typed, TypeOK
  <2>8. /\ cleaner' \in CleanerRec /\ cleaner'.inst = cleaner.inst
        /\ cleaner'.at \in HasObject => cleaner.at \in HasObject
    BY <1>11, ZenonT(60) DEF Ship, Typed, TypeOK, CleanerRec, HasObject
  <2> QED
    BY <2>6, <2>7, <2>8, KeepTyped, Zenon
<1>12. ASSUME NEW i \in Insts, CloseStream(i) PROVE Typed'
  <2>1. i \in Insts
    BY <1>12, ZenonT(60) DEF CloseStream, Typed, TypeOK, InUse
  <2>2. inst[i] \in InstRec
    BY <2>1, ZenonT(60) DEF Typed, TypeOK, InstRec
  <2>3. PICK r : r = [inst[i] EXCEPT !.up = FALSE]
    BY Zenon
  <2>4. r \in InstRec /\ r.peer = inst[i].peer /\ r.chan = inst[i].chan
    BY <1>12, <2>2, <2>3, Zenon DEF CloseStream, InstRec
  <2>5. inst' = [inst EXCEPT ![i] = r]
    BY <1>12, <2>1, <2>2, <2>3, ZenonT(60) DEF CloseStream, InstRec, Typed, TypeOK
  <2>6. KeepsInsts
    BY <2>1, <2>4, <2>5, InstChange, Zenon
  <2>7. /\ lock' \in [Peers -> Holders \cup {None}]
        /\ connector' \in [Connectors -> {"off", "dialing", "locked", "opening", "prepare", "done"}]
        /\ UNCHANGED <<reader, registered, router>>
        /\ lifecycle' \in {lifecycle, Idle}
    BY <1>12, ZenonT(60) DEF CloseStream, Typed, TypeOK
  <2>8. /\ cleaner' \in CleanerRec /\ cleaner'.inst = cleaner.inst
        /\ cleaner'.at \in HasObject => cleaner.at \in HasObject
    BY <1>12, ZenonT(60) DEF CloseStream, Typed, TypeOK, CleanerRec, HasObject
  <2> QED
    BY <2>6, <2>7, <2>8, KeepTyped, Zenon
<1>13. ASSUME NEW i \in Insts, StreamBreaks(i) PROVE Typed'
  <2>1. i \in Insts
    BY <1>13, ZenonT(60) DEF StreamBreaks, Typed, TypeOK, InUse
  <2>2. inst[i] \in InstRec
    BY <2>1, ZenonT(60) DEF Typed, TypeOK, InstRec
  <2>3. PICK r : r = [inst[i] EXCEPT !.up = FALSE]
    BY Zenon
  <2>4. r \in InstRec /\ r.peer = inst[i].peer /\ r.chan = inst[i].chan
    BY <1>13, <2>2, <2>3, Zenon DEF StreamBreaks, InstRec
  <2>5. inst' = [inst EXCEPT ![i] = r]
    BY <1>13, <2>1, <2>2, <2>3, ZenonT(60) DEF StreamBreaks, InstRec, Typed, TypeOK
  <2>6. KeepsInsts
    BY <2>1, <2>4, <2>5, InstChange, Zenon
  <2>7. /\ lock' \in [Peers -> Holders \cup {None}]
        /\ connector' \in [Connectors -> {"off", "dialing", "locked", "opening", "prepare", "done"}]
        /\ UNCHANGED <<reader, registered, router>>
        /\ lifecycle' \in {lifecycle, Idle}
    BY <1>13, ZenonT(60) DEF StreamBreaks, Typed, TypeOK
  <2>8. /\ cleaner' \in CleanerRec /\ cleaner'.inst = cleaner.inst
        /\ cleaner'.at \in HasObject => cleaner.at \in HasObject
    BY <1>13, ZenonT(60) DEF StreamBreaks, Typed, TypeOK, CleanerRec, HasObject
  <2> QED
    BY <2>6, <2>7, <2>8, KeepTyped, Zenon
<1>14. ASSUME NEW i \in Insts, ReaderEnds(i) PROVE Typed'
  BY <1>14, ZenonT(60) DEF ReaderEnds, Typed, TypeOK, InUse, RegisteredInUse
<1>15. ASSUME NEW i \in Insts, ReaderLock(i) PROVE Typed'
  BY <1>15, ZenonT(60) DEF ReaderLock, Typed, TypeOK, InUse, RegisteredInUse
<1>16. ASSUME NEW i \in Insts, ReaderDisconnect(i) PROVE Typed'
  BY <1>16, ZenonT(60) DEF ReaderDisconnect, Typed, TypeOK, InUse, RegisteredInUse
<1>17. ASSUME NEW i \in Insts, ReaderUnlock(i) PROVE Typed'
  BY <1>17, ZenonT(60) DEF ReaderUnlock, Typed, TypeOK, InUse, RegisteredInUse
<1>18. ASSUME Enqueue PROVE Typed'
  <2>1. lifecycle.inst \in Insts
    BY <1>18 DEF Enqueue, Typed, TypeOK, InUse
  <2>2. inst[lifecycle.inst] \in InstRec
    BY <2>1, ZenonT(60) DEF Typed, TypeOK, InstRec
  <2>3. PICK r : r = [inst[lifecycle.inst] EXCEPT !.queued = @ + 1]
    BY Zenon
  <2>4. r \in InstRec /\ r.peer = inst[lifecycle.inst].peer /\ r.chan = inst[lifecycle.inst].chan
    BY <1>18, <2>2, <2>3 DEF Enqueue, InstRec
  <2>5. inst' = [inst EXCEPT ![lifecycle.inst] = r]
    BY <1>18, <2>1, <2>2, <2>3, ZenonT(60) DEF Enqueue, InstRec, Typed, TypeOK
  <2>6. KeepsInsts
    BY <2>1, <2>4, <2>5, InstChange, Zenon
  <2>7. /\ lock' \in [Peers -> Holders \cup {None}]
        /\ connector' \in [Connectors -> {"off", "dialing", "locked", "opening", "prepare", "done"}]
        /\ UNCHANGED <<reader, registered, router>>
        /\ lifecycle' \in {lifecycle, Idle}
    BY <1>18, ZenonT(60) DEF Enqueue, Typed, TypeOK
  <2>8. /\ cleaner' \in CleanerRec /\ cleaner'.inst = cleaner.inst
        /\ cleaner'.at \in HasObject => cleaner.at \in HasObject
    BY <1>18, ZenonT(60) DEF Enqueue, Typed, TypeOK, CleanerRec, HasObject
  <2> QED
    BY <2>6, <2>7, <2>8, KeepTyped, Zenon
<1>19. ASSUME ClosePeer PROVE Typed'
  <2>1. lifecycle.peer \in Peers /\ lifecycle' = Idle
    BY <1>19, Zenon DEF ClosePeer, Typed, InUse
  <2>2. KeepsInsts
    <3>1. CASE registered[lifecycle.peer] = 0
      BY <1>19, <3>1, ZenonT(60) DEF ClosePeer, KeepsInsts, Typed, TypeOK, InstRec
    <3>2. CASE registered[lifecycle.peer] # 0
      <4>1. PICK i \in Insts : i = registered[lifecycle.peer]
        BY <2>1, <3>2 DEF Typed, TypeOK
      <4>2. inst[i] \in InstRec /\ inst[i].chan # "none"
        BY <2>1, <3>2, <4>1, ZenonT(60) DEF Typed, TypeOK, InstRec, RegisteredInUse
      <4>3. PICK r : r = [inst[i] EXCEPT !.chan = "closed"]
        BY Zenon
      <4>4. r \in InstRec /\ r.peer = inst[i].peer /\ r.chan # "none"
        BY <4>2, <4>3, Zenon DEF InstRec
      <4>5. inst' = [inst EXCEPT ![i] = r]
        BY <1>19, <3>2, <4>1, <4>2, <4>3, ZenonT(60) DEF ClosePeer, Typed, TypeOK, InstRec
      <4> QED
        BY <4>2, <4>4, <4>5, InstChange, Zenon
    <3> QED
      BY <3>1, <3>2, Zenon
  <2>3. /\ registered' \in [Peers -> 0 .. MaxInst]
        /\ \A p \in Peers : registered'[p] \in {0, registered[p]}
    BY <1>19, <2>1 DEF ClosePeer, Typed, TypeOK
  <2>4. TypeOK'
    <3>1. lifecycle' \in [at : {"select", "send", "close"}, peer : Peers \cup {None},
                         inst : 0 .. MaxInst]
      BY <2>1
    <3>2. inst' \in [Insts -> InstRec]
      BY <2>2, Zenon DEF KeepsInsts
    <3> QED
      BY <1>19, <2>3, <3>1, <3>2, ZenonT(60) DEF ClosePeer, Typed, TypeOK, InstRec
  <2>5. InUse'
    <3>1. UNCHANGED <<reader, cleaner>>
      BY <1>19, Zenon DEF ClosePeer
    <3>2. cleaner.at \in HasObject => cleaner.inst \in Insts
      BY DEF Typed, TypeOK, InUse, HasObject
    <3> QED
      BY <2>1, <2>2, <3>1, <3>2, Zenon DEF Typed, InUse, KeepsInsts, HasObject
  <2>6. RegisteredInUse'
    BY <2>2, <2>3 DEF Typed, TypeOK, RegisteredInUse, KeepsInsts
  <2> QED
    BY <2>4, <2>5, <2>6, Zenon DEF Typed
<1>20. ASSUME NEW c \in Clusters, Expire(c) PROVE Typed'
  BY <1>20 DEF Expire, Typed, TypeOK, InUse, RegisteredInUse
<1>21. ASSUME NEW p \in Peers, CleanNext(p) PROVE Typed'
  BY <1>21, ZenonT(60) DEF CleanNext, Typed, TypeOK, InUse, RegisteredInUse
<1>22. ASSUME CleanLock PROVE Typed'
  BY <1>22, ZenonT(60) DEF CleanLock, Typed, TypeOK, InUse, RegisteredInUse
<1>23. ASSUME CleanRemove PROVE Typed'
  <2>1. cleaner.inst \in Insts
    BY <1>23 DEF CleanRemove, Typed, TypeOK, InUse
  <2>2. inst[cleaner.inst] \in InstRec
    BY <2>1, ZenonT(60) DEF Typed, TypeOK, InstRec
  <2>3. PICK r : r = [inst[cleaner.inst] EXCEPT !.clusters = @ \ {cleaner.cluster}]
    BY Zenon
  <2>4. r \in InstRec /\ r.peer = inst[cleaner.inst].peer /\ r.chan = inst[cleaner.inst].chan
    BY <1>23, <2>2, <2>3, Zenon DEF CleanRemove, InstRec
  <2>5. inst' = [inst EXCEPT ![cleaner.inst] = r]
    BY <1>23, <2>1, <2>2, <2>3, ZenonT(60) DEF CleanRemove, InstRec, Typed, TypeOK
  <2>6. KeepsInsts
    BY <2>1, <2>4, <2>5, InstChange, Zenon
  <2>7. /\ lock' \in [Peers -> Holders \cup {None}]
        /\ connector' \in [Connectors -> {"off", "dialing", "locked", "opening", "prepare", "done"}]
        /\ UNCHANGED <<reader, registered, router>>
        /\ lifecycle' \in {lifecycle, Idle}
    BY <1>23, ZenonT(60) DEF CleanRemove, Typed, TypeOK
  <2>8. /\ cleaner' \in CleanerRec /\ cleaner'.inst = cleaner.inst
        /\ cleaner'.at \in HasObject => cleaner.at \in HasObject
    BY <1>23, ZenonT(60) DEF CleanRemove, Typed, TypeOK, CleanerRec, HasObject
  <2> QED
    BY <2>6, <2>7, <2>8, KeepTyped, Zenon
<1>24. ASSUME CleanDisconnect PROVE Typed'
  <2>1. cleaner.inst \in Insts /\ inst[cleaner.inst].peer \in Peers
    BY <1>24 DEF CleanDisconnect, Typed, TypeOK, InUse
  <2> QED
    BY <1>24, <2>1, ZenonT(60) DEF CleanDisconnect, Typed, TypeOK, InUse, RegisteredInUse
<1>25. ASSUME CleanUnlock PROVE Typed'
  <2>1. KeepsInsts
    BY <1>25, ZenonT(60) DEF CleanUnlock, KeepsInsts, Typed, TypeOK, InstRec
  <2>2. lock' \in [Peers -> Holders \cup {None}]
    BY <1>25, ZenonT(60) DEF CleanUnlock, Typed, TypeOK
  <2>3. cleaner' \in CleanerRec /\ cleaner'.at = "loop"
    <3>1. cleaner \in CleanerRec /\ 0 \in 0 .. MaxInst
      BY DEF Typed, TypeOK, CleanerRec
    <3>2. cleaner' = [cleaner EXCEPT !.at = "loop", !.inst = 0]
      BY <1>25, Zenon DEF CleanUnlock
    <3> QED
      BY <3>1, <3>2, Zenon DEF CleanerRec
  <2> QED
    BY <1>25, <2>1, <2>2, <2>3, ZenonT(60)
    DEF CleanUnlock, Typed, TypeOK, InUse, RegisteredInUse, CleanerRec
<1>26. ASSUME Deregister PROVE Typed'
  <2>1. cleaner' \in CleanerRec /\ cleaner'.at = "wait"
    BY <1>26 DEF Deregister, CleanerRec
  <2>2. router' \in [Clusters -> {"none", "open", "expiring", "gone"}]
    BY <1>26, ZenonT(60) DEF Deregister, Typed, TypeOK
  <2> QED
    BY <1>26, <2>1, <2>2, ZenonT(60) DEF Deregister, Typed, TypeOK, InUse, RegisteredInUse, CleanerRec
<1>27. CASE UNCHANGED vars
  BY <1>27, ZenonT(60) DEF vars, Typed, TypeOK, InUse, RegisteredInUse
<1> QED
  BY <1>1, <1>2, <1>3, <1>4, <1>5, <1>6, <1>7, <1>8, <1>9, <1>10, <1>11, <1>12, <1>13, <1>14,
     <1>15, <1>16, <1>17, <1>18, <1>19, <1>20, <1>21, <1>22, <1>23, <1>24, <1>25, <1>26, <1>27
  DEF Next, Connect, ReaderStep, LifeCycle, Clean

\* Whoever is past directPeerLock(id).Lock() and not yet past Unlock holds the mutex:
\* a connector, the reader of an object and the cleaner.
ConnectorLocks ==
    \A c \in Clusters, p \in Peers :
        connector[<<c, p>>] \in {"locked", "opening"} => lock[p] = <<c, p>>
ReaderLocks ==
    \A i \in Insts : reader[i] \in {"locked", "unlock"} => lock[inst[i].peer] = Reader(i)
CleanerLock ==
    cleaner.at \in {"locked", "disconnect", "unlock"} => lock[inst[cleaner.inst].peer] = Cleaner
LockInv == ConnectorLocks /\ ReaderLocks /\ CleanerLock

\* The holders are told apart: no cluster is named as the readers are.
LEMMA HoldersDiffer ==
  /\ \A c \in Clusters, p \in Peers : None # <<c, p>> /\ Cleaner # <<c, p>>
  /\ \A c \in Clusters, p \in Peers, i \in Insts : Reader(i) # <<c, p>>
  /\ \A i \in Insts : None # Reader(i) /\ Cleaner # Reader(i)
  /\ \A i, j \in Insts : Reader(i) = Reader(j) => i = j
  /\ None # Cleaner
BY TransportAssumption DEF Reader, Cleaner, Insts

\* The lock of id p passes from h to g. Whoever believes it holds a lock after the
\* step held one before it, and is not h, or is g.
LockPasses(p, h, g) ==
  /\ lock[p] = h
  /\ lock' = [lock EXCEPT ![p] = g]
  /\ \A i \in Insts : inst[i].chan # "none" => inst'[i].peer = inst[i].peer
  /\ \A d \in Clusters, q \in Peers : connector'[<<d, q>>] \in {"locked", "opening"} =>
        connector[<<d, q>>] \in {"locked", "opening"} /\ h # <<d, q>>
  /\ \A i \in Insts : reader'[i] \in {"locked", "unlock"} =>
        \/ reader[i] \in {"locked", "unlock"} /\ h # Reader(i)
        \/ inst[i].chan # "none" /\ inst[i].peer = p /\ g = Reader(i)
  /\ cleaner'.at \in {"locked", "disconnect", "unlock"} =>
        /\ cleaner'.inst = cleaner.inst /\ cleaner.inst \in Insts
        /\ inst[cleaner.inst].chan # "none"
        /\ \/ cleaner.at \in {"locked", "disconnect", "unlock"} /\ h # Cleaner
           \/ inst[cleaner.inst].peer = p /\ g = Cleaner

\* When a lock passes from one holder to another, everyone else keeps theirs.
LEMMA LockPassed ==
  ASSUME Typed, LockInv, NEW p \in Peers, NEW h, NEW g, LockPasses(p, h, g)
  PROVE  LockInv'
<1>1. lock'[p] = g /\ \A q \in Peers \ {p} : lock'[q] = lock[q]
  BY ZenonT(60) DEF LockPasses, Typed, TypeOK
<1>2. ConnectorLocks'
  BY <1>1, ZenonT(60) DEF LockPasses, LockInv, ConnectorLocks
<1>3. ReaderLocks'
  <2> SUFFICES ASSUME NEW i \in Insts, reader'[i] \in {"locked", "unlock"}
               PROVE  lock'[inst'[i].peer] = Reader(i)
    BY Zenon DEF ReaderLocks, Reader
  <2>1. CASE reader[i] \in {"locked", "unlock"} /\ h # Reader(i)
    <3>1. inst[i].chan # "none" /\ inst[i].peer \in Peers /\ lock[inst[i].peer] = Reader(i)
      BY <2>1, Zenon DEF Typed, InUse, LockInv, ReaderLocks
    <3>2. inst'[i].peer = inst[i].peer
      BY <3>1, ZenonT(60) DEF LockPasses
    <3>3. inst[i].peer # p
      BY <2>1, <3>1, ZenonT(60) DEF LockPasses
    <3> QED
      BY <1>1, <3>1, <3>2, <3>3, Zenon
  <2>2. CASE inst[i].chan # "none" /\ inst[i].peer = p /\ g = Reader(i)
    <3>1. inst'[i].peer = inst[i].peer
      BY <2>2, ZenonT(60) DEF LockPasses
    <3> QED
      BY <1>1, <2>2, <3>1, Zenon
  <2> QED
    BY <2>1, <2>2, ZenonT(60) DEF LockPasses
<1>4. CleanerLock'
  <2> SUFFICES ASSUME cleaner'.at \in {"locked", "disconnect", "unlock"}
               PROVE  lock'[inst'[cleaner.inst].peer] = Cleaner
    BY ZenonT(60) DEF LockPasses, CleanerLock, Cleaner
  <2>1. inst'[cleaner.inst].peer = inst[cleaner.inst].peer /\ inst[cleaner.inst].peer \in Peers
    BY ZenonT(60) DEF LockPasses, Typed, InUse
  <2>2. CASE cleaner.at \in {"locked", "disconnect", "unlock"} /\ h # Cleaner
    BY <1>1, <2>1, <2>2, ZenonT(60) DEF LockPasses, LockInv, CleanerLock
  <2>3. CASE inst[cleaner.inst].peer = p /\ g = Cleaner
    BY <1>1, <2>1, <2>3, Zenon
  <2> QED
    BY <2>2, <2>3, ZenonT(60) DEF LockPasses
<1> QED
  BY <1>2, <1>3, <1>4, Zenon DEF LockInv

\* Every step keeps LockInv.
LEMMA NextLocks == Typed /\ LockInv /\ [Next]_vars => LockInv'
<1> SUFFICES ASSUME Typed, LockInv, [Next]_vars PROVE LockInv'
  BY Zenon
<1> USE HoldersDiffer DEF Idle, Resting, Connectors, Insts
<1>1. ASSUME NEW c \in Clusters, RegisterContextRouter(c) PROVE LockInv'
  BY <1>1
  DEF RegisterContextRouter, Typed, TypeOK, InUse, RegisteredInUse, LockInv, ConnectorLocks,
      ReaderLocks, CleanerLock
<1>2. ASSUME NEW c \in Clusters, SendPrepareMsg(c) PROVE LockInv'
  BY <1>2
  DEF SendPrepareMsg, Typed, TypeOK, InUse, RegisteredInUse, LockInv, ConnectorLocks,
      ReaderLocks, CleanerLock
<1>3. ASSUME NEW c \in Clusters, NEW p \in Peers, ConnectLock(c, p) PROVE LockInv'
  BY <1>3, SMTT(30)
  DEF ConnectLock, Typed, TypeOK, InUse, RegisteredInUse, LockInv, ConnectorLocks, ReaderLocks,
      CleanerLock
<1>4. ASSUME NEW c \in Clusters, NEW p \in Peers, ConnectShare(c, p) PROVE LockInv'
  <2>1. lock[p] = <<c, p>> /\ registered[p] \in Insts
    BY <1>4
    DEF ConnectShare, Typed, TypeOK, InUse, RegisteredInUse, LockInv, ConnectorLocks,
        ReaderLocks, CleanerLock
  <2>2. \A j \in Insts : inst[j].chan # "none" => inst'[j].peer = inst[j].peer
    BY <1>4, <2>1 DEF ConnectShare, Typed, TypeOK
  <2>3. \A d \in Clusters, q \in Peers : connector'[<<d, q>>] \in {"locked", "opening"} =>
           connector[<<d, q>>] \in {"locked", "opening"} /\ <<c, p>> # <<d, q>>
    BY <1>4, ZenonT(60) DEF ConnectShare, Typed, TypeOK
  <2>4. \A j \in Insts : reader'[j] \in {"locked", "unlock"} =>
           reader[j] \in {"locked", "unlock"} /\ <<c, p>> # Reader(j)
    BY <1>4, <2>1 DEF ConnectShare, Typed, TypeOK
  <2>5. cleaner'.at \in {"locked", "disconnect", "unlock"} =>
           /\ cleaner'.inst = cleaner.inst /\ cleaner.inst \in Insts
           /\ inst[cleaner.inst].chan # "none"
           /\ cleaner.at \in {"locked", "disconnect", "unlock"} /\ <<c, p>> # Cleaner
    BY <1>4, <2>1 DEF ConnectShare, Typed, TypeOK, InUse
  <2>6. lock' = [lock EXCEPT ![p] = None]
    BY <1>4, Zenon DEF ConnectShare
  <2>7. LockPasses(p, <<c, p>>, None)
    BY <2>1, <2>2, <2>3, <2>4, <2>5, <2>6, ZenonT(60) DEF LockPasses
  <2> QED
    BY <1>4, <2>1, <2>7, LockPassed, Zenon
<1>5. ASSUME NEW c \in Clusters, NEW p \in Peers, ConnectDial(c, p) PROVE LockInv'
  BY <1>5
  DEF ConnectDial, Typed, TypeOK, InUse, RegisteredInUse, LockInv, ConnectorLocks, ReaderLocks,
      CleanerLock
<1>6. ASSUME NEW c \in Clusters, NEW p \in Peers, NEW i \in Insts, ConnectNew(c, p, i)
      PROVE  LockInv'
  <2>1. lock[p] = <<c, p>>
    BY <1>6, ZenonT(60)
    DEF ConnectNew, Typed, TypeOK, InUse, RegisteredInUse, LockInv, ConnectorLocks,
        ReaderLocks, CleanerLock
  <2>2. \A j \in Insts : inst[j].chan # "none" => inst'[j].peer = inst[j].peer
    BY <1>6, <2>1, ZenonT(60) DEF ConnectNew, Typed, TypeOK
  <2>3. \A d \in Clusters, q \in Peers : connector'[<<d, q>>] \in {"locked", "opening"} =>
           connector[<<d, q>>] \in {"locked", "opening"} /\ <<c, p>> # <<d, q>>
    BY <1>6, ZenonT(60) DEF ConnectNew, Typed, TypeOK
  <2>4. \A j \in Insts : reader'[j] \in {"locked", "unlock"} =>
           reader[j] \in {"locked", "unlock"} /\ <<c, p>> # Reader(j)
    BY <1>6, <2>1 DEF ConnectNew, Typed, TypeOK
  <2>5. cleaner'.at \in {"locked", "disconnect", "unlock"} =>
           /\ cleaner'.inst = cleaner.inst /\ cleaner.inst \in Insts
           /\ inst[cleaner.inst].chan # "none"
           /\ cleaner.at \in {"locked", "disconnect", "unlock"} /\ <<c, p>> # Cleaner
    BY <1>6, <2>1 DEF ConnectNew, Typed, TypeOK, InUse
  <2>6. lock' = [lock EXCEPT ![p] = None]
    BY <1>6, Zenon DEF ConnectNew
  <2>7. LockPasses(p, <<c, p>>, None)
    BY <2>1, <2>2, <2>3, <2>4, <2>5, <2>6, ZenonT(60) DEF LockPasses
  <2> QED
    BY <1>6, <2>1, <2>7, LockPassed, Zenon
<1>7. ASSUME NEW c \in Clusters, NEW p \in Peers, ConnectFails(c, p) PROVE LockInv'
  <2>1. lock[p] = <<c, p>>
    BY <1>7, ZenonT(60)
    DEF ConnectFails, Typed, TypeOK, InUse, RegisteredInUse, LockInv, ConnectorLocks,
        ReaderLocks, CleanerLock
  <2>2. \A j \in Insts : inst[j].chan # "none" => inst'[j].peer = inst[j].peer
    BY <1>7, <2>1, ZenonT(60) DEF ConnectFails, Typed, TypeOK
  <2>3. \A d \in Clusters, q \in Peers : connector'[<<d, q>>] \in {"locked", "opening"} =>
           connector[<<d, q>>] \in {"locked", "opening"} /\ <<c, p>> # <<d, q>>
    BY <1>7, ZenonT(60) DEF ConnectFails, Typed, TypeOK
  <2>4. \A j \in Insts : reader'[j] \in {"locked", "unlock"} =>
           reader[j] \in {"locked", "unlock"} /\ <<c, p>> # Reader(j)
    BY <1>7, <2>1 DEF ConnectFails, Typed, TypeOK
  <2>5. cleaner'.at \in {"locked", "disconnect", "unlock"} =>
           /\ cleaner'.inst = cleaner.inst /\ cleaner.inst \in Insts
           /\ inst[cleaner.inst].chan # "none"
           /\ cleaner.at \in {"locked", "disconnect", "unlock"} /\ <<c, p>> # Cleaner
    BY <1>7, <2>1 DEF ConnectFails, Typed, TypeOK, InUse
  <2>6. lock' = [lock EXCEPT ![p] = None]
    BY <1>7, Zenon DEF ConnectFails
  <2>7. LockPasses(p, <<c, p>>, None)
    BY <2>1, <2>2, <2>3, <2>4, <2>5, <2>6, ZenonT(60) DEF LockPasses
  <2> QED
    BY <1>7, <2>1, <2>7, LockPassed, Zenon
<1>8. ASSUME NEW c \in Clusters, NEW p \in Peers, SendMessage(c, p) PROVE LockInv'
  BY <1>8
  DEF SendMessage, Typed, TypeOK, InUse, RegisteredInUse, LockInv, ConnectorLocks, ReaderLocks,
      CleanerLock
<1>9. ASSUME NEW p \in Peers, SendAsValidator(p) PROVE LockInv'
  BY <1>9, ZenonT(60)
  DEF SendAsValidator, Typed, TypeOK, InUse, RegisteredInUse, LockInv, ConnectorLocks,
      ReaderLocks, CleanerLock
<1>10. ASSUME NEW c \in Clusters, GracefullyCloseContextRouter(c) PROVE LockInv'
  BY <1>10
  DEF GracefullyCloseContextRouter, Typed, TypeOK, InUse, RegisteredInUse, LockInv,
      ConnectorLocks, ReaderLocks, CleanerLock
<1>11. ASSUME NEW i \in Insts, Ship(i) PROVE LockInv'
  BY <1>11
  DEF Ship, Typed, TypeOK, InUse, RegisteredInUse, LockInv, ConnectorLocks, ReaderLocks,
      CleanerLock
<1>12. ASSUME NEW i \in Insts, CloseStream(i) PROVE LockInv'
  BY <1>12
  DEF CloseStream, Typed, TypeOK, InUse, RegisteredInUse, LockInv, ConnectorLocks, ReaderLocks,
      CleanerLock
<1>13. ASSUME NEW i \in Insts, StreamBreaks(i) PROVE LockInv'
  BY <1>13
  DEF StreamBreaks, Typed, TypeOK, InUse, RegisteredInUse, LockInv, ConnectorLocks,
      ReaderLocks, CleanerLock
<1>14. ASSUME NEW i \in Insts, ReaderEnds(i) PROVE LockInv'
  BY <1>14
  DEF ReaderEnds, Typed, TypeOK, InUse, RegisteredInUse, LockInv, ConnectorLocks, ReaderLocks,
      CleanerLock
<1>15. ASSUME NEW i \in Insts, ReaderLock(i) PROVE LockInv'
  <2>1. inst[i].peer \in Peers /\ inst[i].chan # "none" /\ lock[inst[i].peer] = None
    BY <1>15, ZenonT(60)
    DEF ReaderLock, Typed, TypeOK, InUse, RegisteredInUse, LockInv, ConnectorLocks,
        ReaderLocks, CleanerLock
  <2>2. \A j \in Insts : inst[j].chan # "none" => inst'[j].peer = inst[j].peer
    BY <1>15, <2>1, ZenonT(60) DEF ReaderLock, Typed, TypeOK
  <2>3. \A d \in Clusters, q \in Peers : connector'[<<d, q>>] \in {"locked", "opening"} =>
           connector[<<d, q>>] \in {"locked", "opening"} /\ None # <<d, q>>
    BY <1>15 DEF ReaderLock, Typed, TypeOK
  <2>4. \A j \in Insts : reader'[j] \in {"locked", "unlock"} =>
           \/ reader[j] \in {"locked", "unlock"} /\ None # Reader(j)
           \/ inst[j].chan # "none" /\ inst[j].peer = inst[i].peer /\ Reader(i) = Reader(j)
    BY <1>15, <2>1, ZenonT(60) DEF ReaderLock, Typed, TypeOK
  <2>5. cleaner'.at \in {"locked", "disconnect", "unlock"} =>
           /\ cleaner'.inst = cleaner.inst /\ cleaner.inst \in Insts
           /\ inst[cleaner.inst].chan # "none"
           /\ cleaner.at \in {"locked", "disconnect", "unlock"} /\ None # Cleaner
    BY <1>15, <2>1 DEF ReaderLock, Typed, TypeOK, InUse
  <2>6. lock' = [lock EXCEPT ![inst[i].peer] = Reader(i)]
    BY <1>15, Zenon DEF ReaderLock
  <2>7. LockPasses(inst[i].peer, None, Reader(i))
    BY <2>1, <2>2, <2>3, <2>4, <2>5, <2>6, ZenonT(60) DEF LockPasses
  <2> QED
    BY <2>1, <2>7, LockPassed, Zenon
<1>16. ASSUME NEW i \in Insts, ReaderDisconnect(i) PROVE LockInv'
  BY <1>16
  DEF ReaderDisconnect, Typed, TypeOK, InUse, RegisteredInUse, LockInv, ConnectorLocks,
      ReaderLocks, CleanerLock
<1>17. ASSUME NEW i \in Insts, ReaderUnlock(i) PROVE LockInv'
  <2>1. inst[i].peer \in Peers /\ inst[i].chan # "none" /\ lock[inst[i].peer] = Reader(i)
    BY <1>17, ZenonT(60)
    DEF ReaderUnlock, Typed, TypeOK, InUse, RegisteredInUse, LockInv, ConnectorLocks,
        ReaderLocks, CleanerLock
  <2>2. \A j \in Insts : inst[j].chan # "none" => inst'[j].peer = inst[j].peer
    BY <1>17, <2>1, ZenonT(60) DEF ReaderUnlock, Typed, TypeOK
  <2>3. \A d \in Clusters, q \in Peers : connector'[<<d, q>>] \in {"locked", "opening"} =>
           connector[<<d, q>>] \in {"locked", "opening"} /\ Reader(i) # <<d, q>>
    BY <1>17 DEF ReaderUnlock, Typed, TypeOK
  <2>4. \A j \in Insts : reader'[j] \in {"locked", "unlock"} =>
           reader[j] \in {"locked", "unlock"} /\ Reader(i) # Reader(j)
    BY <1>17, <2>1, ZenonT(60) DEF ReaderUnlock, Typed, TypeOK
  <2>5. cleaner'.at \in {"locked", "disconnect", "unlock"} =>
           /\ cleaner'.inst = cleaner.inst /\ cleaner.inst \in Insts
           /\ inst[cleaner.inst].chan # "none"
           /\ cleaner.at \in {"locked", "disconnect", "unlock"} /\ Reader(i) # Cleaner
    BY <1>17, <2>1 DEF ReaderUnlock, Typed, TypeOK, InUse
  <2>6. lock' = [lock EXCEPT ![inst[i].peer] = None]
    BY <1>17, Zenon DEF ReaderUnlock
  <2>7. LockPasses(inst[i].peer, Reader(i), None)
    BY <2>1, <2>2, <2>3, <2>4, <2>5, <2>6, ZenonT(60) DEF LockPasses
  <2> QED
    BY <2>1, <2>7, LockPassed, Zenon
<1>18. ASSUME Enqueue PROVE LockInv'
  BY <1>18
  DEF Enqueue, Typed, TypeOK, InUse, RegisteredInUse, LockInv, ConnectorLocks, ReaderLocks,
      CleanerLock
<1>19. ASSUME ClosePeer PROVE LockInv'
  BY <1>19
  DEF ClosePeer, Typed, TypeOK, InUse, RegisteredInUse, LockInv, ConnectorLocks, ReaderLocks,
      CleanerLock
<1>20. ASSUME NEW c \in Clusters, Expire(c) PROVE LockInv'
  BY <1>20
  DEF Expire, Typed, TypeOK, InUse, RegisteredInUse, LockInv, ConnectorLocks, ReaderLocks,
      CleanerLock
<1>21. ASSUME NEW p \in Peers, CleanNext(p) PROVE LockInv'
  BY <1>21
  DEF CleanNext, Typed, TypeOK, InUse, RegisteredInUse, LockInv, ConnectorLocks, ReaderLocks,
      CleanerLock
<1>22. ASSUME CleanLock PROVE LockInv'
  <2>1. /\ cleaner.inst \in Insts /\ inst[cleaner.inst].peer \in Peers
        /\ inst[cleaner.inst].chan # "none" /\ lock[inst[cleaner.inst].peer] = None
    BY <1>22
    DEF CleanLock, Typed, TypeOK, InUse, RegisteredInUse, LockInv, ConnectorLocks, ReaderLocks,
        CleanerLock
  <2>2. \A j \in Insts : inst[j].chan # "none" => inst'[j].peer = inst[j].peer
    BY <1>22, <2>1, ZenonT(60) DEF CleanLock, Typed, TypeOK
  <2>3. \A d \in Clusters, q \in Peers : connector'[<<d, q>>] \in {"locked", "opening"} =>
           connector[<<d, q>>] \in {"locked", "opening"} /\ None # <<d, q>>
    BY <1>22 DEF CleanLock, Typed, TypeOK
  <2>4. \A j \in Insts : reader'[j] \in {"locked", "unlock"} =>
           reader[j] \in {"locked", "unlock"} /\ None # Reader(j)
    BY <1>22, <2>1, ZenonT(60) DEF CleanLock, Typed, TypeOK
  <2>5. cleaner'.at \in {"locked", "disconnect", "unlock"} =>
           /\ cleaner'.inst = cleaner.inst /\ cleaner.inst \in Insts
           /\ inst[cleaner.inst].chan # "none"
    BY <1>22, <2>1, ZenonT(60) DEF CleanLock, Typed, TypeOK, InUse
  <2>6. lock' = [lock EXCEPT ![inst[cleaner.inst].peer] = Cleaner]
    BY <1>22, Zenon DEF CleanLock
  <2>7. LockPasses(inst[cleaner.inst].peer, None, Cleaner)
    BY <2>1, <2>2, <2>3, <2>4, <2>5, <2>6, ZenonT(60) DEF LockPasses
  <2> QED
    BY <2>1, <2>7, LockPassed, Zenon
<1>23. ASSUME CleanRemove PROVE LockInv'
  BY <1>23
  DEF CleanRemove, Typed, TypeOK, InUse, RegisteredInUse, LockInv, ConnectorLocks, ReaderLocks,
      CleanerLock
<1>24. ASSUME CleanDisconnect PROVE LockInv'
  BY <1>24, ZenonT(60)
  DEF CleanDisconnect, Typed, TypeOK, InUse, RegisteredInUse, LockInv, ConnectorLocks,
      ReaderLocks, CleanerLock
<1>25. ASSUME CleanUnlock PROVE LockInv'
  <2>1. /\ cleaner.inst \in Insts /\ inst[cleaner.inst].peer \in Peers
        /\ inst[cleaner.inst].chan # "none" /\ lock[inst[cleaner.inst].peer] = Cleaner
    BY <1>25
    DEF CleanUnlock, Typed, TypeOK, InUse, RegisteredInUse, LockInv, ConnectorLocks,
        ReaderLocks, CleanerLock
  <2>2. \A j \in Insts : inst[j].chan # "none" => inst'[j].peer = inst[j].peer
    BY <1>25, <2>1, ZenonT(60) DEF CleanUnlock, Typed, TypeOK
  <2>3. \A d \in Clusters, q \in Peers : connector'[<<d, q>>] \in {"locked", "opening"} =>
           connector[<<d, q>>] \in {"locked", "opening"} /\ Cleaner # <<d, q>>
    BY <1>25, ZenonT(60) DEF CleanUnlock, Typed, TypeOK
  <2>4. \A j \in Insts : reader'[j] \in {"locked", "unlock"} =>
           reader[j] \in {"locked", "unlock"} /\ Cleaner # Reader(j)
    BY <1>25, <2>1, ZenonT(60) DEF CleanUnlock, Typed, TypeOK
  <2>5. cleaner'.at = "loop"
    BY <1>25, ZenonT(60) DEF CleanUnlock, Typed, TypeOK
  <2>6. lock' = [lock EXCEPT ![inst[cleaner.inst].peer] = None]
    BY <1>25, Zenon DEF CleanUnlock
  <2>7. LockPasses(inst[cleaner.inst].peer, Cleaner, None)
    BY <2>1, <2>2, <2>3, <2>4, <2>5, <2>6, ZenonT(60) DEF LockPasses
  <2> QED
    BY <2>1, <2>7, LockPassed, Zenon
<1>26. ASSUME Deregister PROVE LockInv'
  BY <1>26, ZenonT(60)
  DEF Deregister, Typed, TypeOK, InUse, RegisteredInUse, LockInv, ConnectorLocks, ReaderLocks,
      CleanerLock
<1>27. CASE UNCHANGED vars
  BY <1>27, ZenonT(60)
  DEF vars, Typed, TypeOK, InUse, RegisteredInUse, LockInv, ConnectorLocks, ReaderLocks,
      CleanerLock
<1> QED
  BY <1>1, <1>2, <1>3, <1>4, <1>5, <1>6, <1>7, <1>8, <1>9, <1>10, <1>11, <1>12, <1>13, <1>14,
     <1>15, <1>16, <1>17, <1>18, <1>19, <1>20, <1>21, <1>22, <1>23, <1>24, <1>25, <1>26, <1>27
  DEF Next, Connect, ReaderStep, LifeCycle, Clean

\* Every step keeps the two properties of the registry.  ConnectNew is the step that
\* needs LockInv: while one connector holds the mutex no other is "opening" the id.
LEMMA NextRegistered ==
  Typed /\ LockInv /\ OpenIffRegistered /\ NeverAlreadyRegistered /\ [Next]_vars
    => OpenIffRegistered' /\ NeverAlreadyRegistered'
<1> SUFFICES ASSUME Typed, LockInv, OpenIffRegistered, NeverAlreadyRegistered, [Next]_vars
             PROVE  OpenIffRegistered' /\ NeverAlreadyRegistered'
  BY Zenon
<1> USE HoldersDiffer DEF Idle, Resting, Connectors, Insts, Typed, TypeOK, InUse, LockInv,
                          ConnectorLocks, OpenIffRegistered, NeverAlreadyRegistered
<1>1. ASSUME NEW c \in Clusters, RegisterContextRouter(c)
      PROVE  OpenIffRegistered' /\ NeverAlreadyRegistered'
  BY <1>1 DEF RegisterContextRouter
<1>2. ASSUME NEW c \in Clusters, SendPrepareMsg(c)
      PROVE  OpenIffRegistered' /\ NeverAlreadyRegistered'
  BY <1>2 DEF SendPrepareMsg
<1>3. ASSUME NEW c \in Clusters, NEW p \in Peers, ConnectLock(c, p)
      PROVE  OpenIffRegistered' /\ NeverAlreadyRegistered'
  BY <1>3 DEF ConnectLock
<1>4. ASSUME NEW c \in Clusters, NEW p \in Peers, ConnectShare(c, p)
      PROVE  OpenIffRegistered' /\ NeverAlreadyRegistered'
  BY <1>4 DEF ConnectShare
<1>5. ASSUME NEW c \in Clusters, NEW p \in Peers, ConnectDial(c, p)
      PROVE  OpenIffRegistered' /\ NeverAlreadyRegistered'
  BY <1>5 DEF ConnectDial
<1>6. ASSUME NEW c \in Clusters, NEW p \in Peers, NEW i \in Insts, ConnectNew(c, p, i)
      PROVE  OpenIffRegistered' /\ NeverAlreadyRegistered'
  BY <1>6, SMTT(30) DEF ConnectNew
<1>7. ASSUME NEW c \in Clusters, NEW p \in Peers, ConnectFails(c, p)
      PROVE  OpenIffRegistered' /\ NeverAlreadyRegistered'
  BY <1>7 DEF ConnectFails
<1>8. ASSUME NEW c \in Clusters, NEW p \in Peers, SendMessage(c, p)
      PROVE  OpenIffRegistered' /\ NeverAlreadyRegistered'
  BY <1>8 DEF SendMessage
<1>9. ASSUME NEW p \in Peers, SendAsValidator(p)
      PROVE  OpenIffRegistered' /\ NeverAlreadyRegistered'
  BY <1>9 DEF SendAsValidator
<1>10. ASSUME NEW c \in Clusters, GracefullyCloseContextRouter(c)
      PROVE  OpenIffRegistered' /\ NeverAlreadyRegistered'
  BY <1>10 DEF GracefullyCloseContextRouter
<1>11. ASSUME NEW i \in Insts, Ship(i)
      PROVE  OpenIffRegistered' /\ NeverAlreadyRegistered'
  BY <1>11 DEF Ship
<1>12. ASSUME NEW i \in Insts, CloseStream(i)
      PROVE  OpenIffRegistered' /\ NeverAlreadyRegistered'
  BY <1>12 DEF CloseStream
<1>13. ASSUME NEW i \in Insts, StreamBreaks(i)
      PROVE  OpenIffRegistered' /\ NeverAlreadyRegistered'
  BY <1>13 DEF StreamBreaks
<1>14. ASSUME NEW i \in Insts, ReaderEnds(i)
      PROVE  OpenIffRegistered' /\ NeverAlreadyRegistered'
  BY <1>14 DEF ReaderEnds
<1>15. ASSUME NEW i \in Insts, ReaderLock(i)
      PROVE  OpenIffRegistered' /\ NeverAlreadyRegistered'
  BY <1>15 DEF ReaderLock
<1>16. ASSUME NEW i \in Insts, ReaderDisconnect(i)
      PROVE  OpenIffRegistered' /\ NeverAlreadyRegistered'
  BY <1>16 DEF ReaderDisconnect
<1>17. ASSUME NEW i \in Insts, ReaderUnlock(i)
      PROVE  OpenIffRegistered' /\ NeverAlreadyRegistered'
  BY <1>17 DEF ReaderUnlock
<1>18. ASSUME Enqueue
      PROVE  OpenIffRegistered' /\ NeverAlreadyRegistered'
  BY <1>18 DEF Enqueue
<1>19. ASSUME ClosePeer
      PROVE  OpenIffRegistered' /\ NeverAlreadyRegistered'
  BY <1>19 DEF ClosePeer
<1>20. ASSUME NEW c \in Clusters, Expire(c)
      PROVE  OpenIffRegistered' /\ NeverAlreadyRegistered'
  BY <1>20 DEF Expire
<1>21. ASSUME NEW p \in Peers, CleanNext(p)
      PROVE  OpenIffRegistered' /\ NeverAlreadyRegistered'
  BY <1>21 DEF CleanNext
<1>22. ASSUME CleanLock
      PROVE  OpenIffRegistered' /\ NeverAlreadyRegistered'
  BY <1>22 DEF CleanLock
<1>23. ASSUME CleanRemove
      PROVE  OpenIffRegistered' /\ NeverAlreadyRegistered'
  BY <1>23 DEF CleanRemove
<1>24. ASSUME CleanDisconnect
      PROVE  OpenIffRegistered' /\ NeverAlreadyRegistered'
  BY <1>24 DEF CleanDisconnect
<1>25. ASSUME CleanUnlock
      PROVE  OpenIffRegistered' /\ NeverAlreadyRegistered'
  BY <1>25, SMTT(30) DEF CleanUnlock
<1>26. ASSUME Deregister
      PROVE  OpenIffRegistered' /\ NeverAlreadyRegistered'
  BY <1>26, SMTT(30) DEF Deregister
<1>27. CASE UNCHANGED vars
  BY <1>27 DEF vars
<1> QED
  BY ZenonT(30), <1>1, <1>2, <1>3, <1>4, <1>5, <1>6, <1>7, <1>8, <1>9, <1>10, <1>11, <1>12, <1>13, <1>14,
     <1>15, <1>16, <1>17, <1>18, <1>19, <1>20, <1>21, <1>22, <1>23, <1>24, <1>25, <1>26, <1>27
  DEF Next, Connect, ReaderStep, LifeCycle, Clean

\* The inductive invariant.
TransportInv == Typed /\ LockInv /\ OpenIffRegistered /\ NeverAlreadyRegistered

\* It holds at the start, where nothing is created, registered or locked.
LEMMA InitTransportInv == Init => TransportInv
<1> SUFFICES ASSUME Init PROVE TransportInv
  BY Zenon
<1> USE TransportAssumption DEF Init, Insts, Connectors, NoInst, Resting, Idle
<1>1. TypeOK
  BY DEF TypeOK
<1>2. InUse /\ RegisteredInUse
  BY Zenon DEF InUse, RegisteredInUse
<1>3. LockInv
  BY Zenon DEF LockInv, ConnectorLocks, ReaderLocks, CleanerLock
<1>4. OpenIffRegistered /\ NeverAlreadyRegistered
  BY Zenon DEF OpenIffRegistered, NeverAlreadyRegistered
<1> QED
  BY <1>1, <1>2, <1>3, <1>4, Zenon DEF TransportInv, Typed

\* It holds in every state.
THEOREM TransportInvariant == Spec => []TransportInv
<1>1. TransportInv /\ [Next]_vars => TransportInv'
  BY NextTyped, NextLocks, NextRegistered, Zenon DEF TransportInv
<1> QED
  BY <1>1, InitTransportInv, PTL DEF Spec

\* The types hold, the bound on what a peer's channel holds among them.
THEOREM TypeCorrect == Spec => []TypeOK
<1>1. TransportInv => TypeOK
  BY Zenon DEF TransportInv, Typed
<1> QED
  BY <1>1, TransportInvariant, PTL

\* An id is registered exactly while its object's channel is open, and the life cycle
\* goroutine never sends on a closed channel.
THEOREM RegistrationCorrect == Spec => []OpenIffRegistered
<1>1. TransportInv => OpenIffRegistered
  BY Zenon DEF TransportInv
<1> QED
  BY <1>1, TransportInvariant, PTL

\* Register never finds the id taken: the stream that ConnectToDirectPeer has just
\* opened is never left without an owner.
THEOREM NeverAlreadyRegisteredCorrect == Spec => []NeverAlreadyRegistered
<1>1. TransportInv => NeverAlreadyRegistered
  BY Zenon DEF TransportInv
<1> QED
  BY <1>1, TransportInvariant, PTL
=============================================================================
