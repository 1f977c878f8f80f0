----------------------------- MODULE Transport -----------------------------
(***************************************************************************)
(* The direct peers and context routers of KramaTransport                  *)
(* (transport/transport.go, peer.go, peerset.go, router.go).  A direct      *)
(* peer is an icsPeer object: a stream, a buffered message channel and the  *)
(* set of clusters that use it.  It is registered under the node's id, and  *)
(* an id gets a new object after the old one has been unregistered.  Its    *)
(* goroutines are directPeerRoutine, which writes the channel to the        *)
(* stream, and handleDeadDirectPeer, which waits for the stream to end.     *)
(*                                                                          *)
(* peerLifeCycle is one goroutine that takes every message to send and      *)
(* every request to close a peer from two unbuffered channels, so a sender  *)
(* stays where it is until peerLifeCycle is back in its select.  The        *)
(* goroutines of sendPrepareMsg connect to the peers of a cluster, and the  *)
(* cleanup goroutine deregisters the routers that have expired.  All of     *)
(* them guard the set of clusters of a peer by one lock per node id.        *)
(***************************************************************************)
EXTENDS Naturals, FiniteSets

CONSTANTS
    Peers,      \* the other nodes, by krama id
    Clusters,   \* the cluster ids this node takes part in
    MaxInst,    \* bound: icsPeer objects ever created
    ChanCap,    \* capacity of msgChan (50 in newICSPeer)
    None        \* no lock holder

ASSUME TransportAssumption ==
    /\ MaxInst \in Nat \ {0}
    /\ ChanCap \in Nat \ {0}
    /\ None \notin ((Clusters \X Peers) \cup {<<"reader", i>> : i \in 1 .. MaxInst}
                    \cup {<<"cleaner">>})
    /\ "reader" \notin Clusters

Insts == 1 .. MaxInst

\* Who can hold the lock of a node id: a goroutine of sendPrepareMsg, the
\* handleDeadDirectPeer of an icsPeer, or the cleanup goroutine.
Connectors == Clusters \X Peers
Reader(i) == <<"reader", i>>
Cleaner == <<"cleaner">>
Holders == Connectors \cup {Reader(i) : i \in Insts} \cup {Cleaner}

VARIABLES
    inst,        \* the icsPeer objects
    reader,      \* where the handleDeadDirectPeer of each object is
    registered,  \* directPeerset: the object registered under an id, 0 if none
    lock,        \* directPeerLock: the holder of the lock of an id
    connector,   \* where each goroutine of sendPrepareMsg is
    router,      \* contextRouters, with the expiry of each
    cleaner,     \* where cleanup is: the cluster, the ids left, the object it looks at
    lifecycle    \* where peerLifeCycle is
vars == <<inst, reader, registered, lock, connector, router, cleaner, lifecycle>>

NoInst == [peer |-> None, clusters |-> {}, chan |-> "none", queued |-> 0, up |-> FALSE]
Idle == [at |-> "select", peer |-> None, inst |-> 0]
Resting == [at |-> "wait", cluster |-> None, todo |-> {}, inst |-> 0]

TypeOK ==
    /\ inst \in [Insts -> [peer : Peers \cup {None}, clusters : SUBSET Clusters,
                           chan : {"none", "open", "closed"}, queued : 0 .. ChanCap,
                           up : BOOLEAN]]
    /\ reader \in [Insts -> {"off", "reading", "found", "locked", "unlock", "done"}]
    /\ registered \in [Peers -> 0 .. MaxInst]
    /\ lock \in [Peers -> Holders \cup {None}]
    /\ connector \in [Connectors -> {"off", "dialing", "locked", "opening", "prepare", "done"}]
    /\ router \in [Clusters -> {"none", "open", "expiring", "gone"}]
    /\ cleaner \in [at : {"wait", "loop", "found", "locked", "disconnect", "unlock"},
                    cluster : Clusters \cup {None}, todo : SUBSET Peers, inst : 0 .. MaxInst]
    /\ lifecycle \in [at : {"select", "send", "close"}, peer : Peers \cup {None},
                      inst : 0 .. MaxInst]

\* NewKramaTransport.
Init ==
    /\ inst = [i \in Insts |-> NoInst]
    /\ reader = [i \in Insts |-> "off"]
    /\ registered = [p \in Peers |-> 0]
    /\ lock = [p \in Peers |-> None]
    /\ connector = [h \in Connectors |-> "off"]
    /\ router = [c \in Clusters |-> "none"]
    /\ cleaner = Resting
    /\ lifecycle = Idle

(***************************************************************************)
(* The engine: routers, and the connections of sendPrepareMsg.             *)
(***************************************************************************)

\* RegisterContextRouter, called by createICS.
RegisterContextRouter(c) ==
    /\ router[c] = "none"
    /\ router' = [router EXCEPT ![c] = "open"]
    /\ UNCHANGED <<inst, reader, registered, lock, connector, cleaner, lifecycle>>

\* sendPrepareMsg starts a goroutine for every node of the committee.
SendPrepareMsg(c) ==
    /\ router[c] = "open"
    /\ \A p \in Peers : connector[<<c, p>>] = "off"
    /\ connector' = [h \in Connectors |-> IF h[1] = c THEN "dialing" ELSE connector[h]]
    /\ UNCHANGED <<inst, reader, registered, lock, router, cleaner, lifecycle>>

\* Mutant: ConnectToDirectPeer does not wait for the lock.
ConnectLock_noLock(c, p) ==
    /\ connector[<<c, p>>] = "dialing"
    /\ lock' = [lock EXCEPT ![p] = <<c, p>>]
    /\ connector' = [connector EXCEPT ![<<c, p>>] = "locked"]
    /\ UNCHANGED <<inst, reader, registered, router, cleaner, lifecycle>>

\* ConnectToDirectPeer takes the lock of the id.
ConnectLock(c, p) ==
    /\ connector[<<c, p>>] = "dialing"
    /\ lock[p] = None
    /\ lock' = [lock EXCEPT ![p] = <<c, p>>]
    /\ connector' = [connector EXCEPT ![<<c, p>>] = "locked"]
    /\ UNCHANGED <<inst, reader, registered, router, cleaner, lifecycle>>

\* A registered peer is shared.
ConnectShare(c, p) ==
    /\ connector[<<c, p>>] = "locked"
    /\ registered[p] # 0
    /\ inst' = [inst EXCEPT ![registered[p]].clusters = @ \cup {c}]
    /\ lock' = [lock EXCEPT ![p] = None]
    /\ connector' = [connector EXCEPT ![<<c, p>>] = "prepare"]
    /\ UNCHANGED <<reader, registered, router, cleaner, lifecycle>>

\* No peer is registered: the connector dials and opens a stream.
ConnectDial(c, p) ==
    /\ connector[<<c, p>>] = "locked"
    /\ registered[p] = 0
    /\ connector' = [connector EXCEPT ![<<c, p>>] = "opening"]
    /\ UNCHANGED <<inst, reader, registered, lock, router, cleaner, lifecycle>>

\* The stream is open: Register stores a new object unless the id is registered,
\* and its goroutines start.
ConnectNew(c, p, i) ==
    /\ connector[<<c, p>>] = "opening"
    /\ registered[p] = 0
    /\ inst[i].chan = "none"
    /\ inst' = [inst EXCEPT ![i] = [peer |-> p, clusters |-> {c}, chan |-> "open",
                                    queued |-> 0, up |-> TRUE]]
    /\ reader' = [reader EXCEPT ![i] = "reading"]
    /\ registered' = [registered EXCEPT ![p] = i]
    /\ lock' = [lock EXCEPT ![p] = None]
    /\ connector' = [connector EXCEPT ![<<c, p>>] = "prepare"]
    /\ UNCHANGED <<router, cleaner, lifecycle>>

\* Dialing or opening the stream fails, or Register returns errAlreadyRegistered,
\* and no PREPARE is sent.
ConnectFails(c, p) ==
    /\ connector[<<c, p>>] = "opening"
    /\ lock' = [lock EXCEPT ![p] = None]
    /\ connector' = [connector EXCEPT ![<<c, p>>] = "done"]
    /\ UNCHANGED <<inst, reader, registered, router, cleaner, lifecycle>>

\* SendMessage and BroadcastMessage hand a message for p to peerLifeCycle: the
\* PREPARE of a goroutine of sendPrepareMsg, then the messages of the ICS handler.
\* A message for an id without a peer goes out on a stream of its own.
SendMessage(c, p) ==
    /\ router[c] = "open"
    /\ connector[<<c, p>>] \in {"prepare", "done"}
    /\ lifecycle = Idle
    /\ lifecycle' = IF registered[p] = 0 THEN Idle
                    ELSE [Idle EXCEPT !.at = "send", !.inst = registered[p]]
    /\ connector' = [connector EXCEPT ![<<c, p>>] = "done"]
    /\ UNCHANGED <<inst, reader, registered, lock, router, cleaner>>

\* A PREPARED message and the votes of a validator belong to no router.
SendAsValidator(p) ==
    /\ lifecycle = Idle
    /\ registered[p] # 0
    /\ lifecycle' = [Idle EXCEPT !.at = "send", !.inst = registered[p]]
    /\ UNCHANGED <<inst, reader, registered, lock, connector, router, cleaner>>

\* GracefullyCloseContextRouter: the ICS handler of c has returned, which it
\* does not do before sendPrepareMsg's WaitGroup is done.
GracefullyCloseContextRouter(c) ==
    /\ router[c] = "open"
    /\ \A p \in Peers : connector[<<c, p>>] \in {"off", "done"}
    /\ router' = [router EXCEPT ![c] = "expiring"]
    /\ connector' = [h \in Connectors |-> IF h[1] = c THEN "done" ELSE connector[h]]
    /\ UNCHANGED <<inst, reader, registered, lock, cleaner, lifecycle>>

(***************************************************************************)
(* The goroutines of a peer.                                               *)
(***************************************************************************)

\* directPeerRoutine ships a message; a failed write is only logged.
Ship(i) ==
    /\ inst[i].queued > 0
    /\ inst' = [inst EXCEPT ![i].queued = @ - 1]
    /\ UNCHANGED <<reader, registered, lock, connector, router, cleaner, lifecycle>>

\* directPeerRoutine finds msgChan closed and drained and closes the stream.
CloseStream(i) ==
    /\ inst[i].chan = "closed" /\ inst[i].queued = 0 /\ inst[i].up
    /\ inst' = [inst EXCEPT ![i].up = FALSE]
    /\ UNCHANGED <<reader, registered, lock, connector, router, cleaner, lifecycle>>

\* The stream breaks.
StreamBreaks(i) ==
    /\ inst[i].up
    /\ inst' = [inst EXCEPT ![i].up = FALSE]
    /\ UNCHANGED <<reader, registered, lock, connector, router, cleaner, lifecycle>>

\* handleDeadDirectPeer: the read fails, and the deferred function asks whether a
\* peer is registered under the id, whichever object that is.
ReaderEnds(i) ==
    /\ reader[i] = "reading"
    /\ ~ inst[i].up
    /\ reader' = [reader EXCEPT ![i] =
                     IF registered[inst[i].peer] = 0 THEN "done" ELSE "found"]
    /\ UNCHANGED <<inst, registered, lock, connector, router, cleaner, lifecycle>>

ReaderLock(i) ==
    /\ reader[i] = "found"
    /\ lock[inst[i].peer] = None
    /\ lock' = [lock EXCEPT ![inst[i].peer] = Reader(i)]
    /\ reader' = [reader EXCEPT ![i] = "locked"]
    /\ UNCHANGED <<inst, registered, connector, router, cleaner, lifecycle>>

\* disconnectPeer: peerLifeCycle takes the request, which names the id.
ReaderDisconnect(i) ==
    /\ reader[i] = "locked"
    /\ lifecycle = Idle
    /\ lifecycle' = [Idle EXCEPT !.at = "close", !.peer = inst[i].peer]
    /\ reader' = [reader EXCEPT ![i] = "unlock"]
    /\ UNCHANGED <<inst, registered, lock, connector, router, cleaner>>

ReaderUnlock(i) ==
    /\ reader[i] = "unlock"
    /\ lock' = [lock EXCEPT ![inst[i].peer] = None]
    /\ reader' = [reader EXCEPT ![i] = "done"]
    /\ UNCHANGED <<inst, registered, connector, router, cleaner, lifecycle>>

(***************************************************************************)
(* peerLifeCycle                                                           *)
(***************************************************************************)

\* Mutant: the send does not wait for room in msgChan.
Enqueue_unbounded ==
    /\ lifecycle.at = "send"
    /\ inst' = [inst EXCEPT ![lifecycle.inst].queued = @ + 1]
    /\ lifecycle' = Idle
    /\ UNCHANGED <<reader, registered, lock, connector, router, cleaner>>

\* The message goes into msgChan; peerLifeCycle waits while it is full.
Enqueue ==
    /\ lifecycle.at = "send"
    /\ inst[lifecycle.inst].queued < ChanCap
    /\ inst' = [inst EXCEPT ![lifecycle.inst].queued = @ + 1]
    /\ lifecycle' = Idle
    /\ UNCHANGED <<reader, registered, lock, connector, router, cleaner>>

\* Mutant: the peer stays registered.
ClosePeer_keepsRegistered ==
    /\ lifecycle.at = "close"
    /\ inst' = IF registered[lifecycle.peer] = 0 THEN inst
               ELSE [inst EXCEPT ![registered[lifecycle.peer]].chan = "closed"]
    /\ lifecycle' = Idle
    /\ UNCHANGED <<reader, registered, lock, connector, router, cleaner>>

\* The peer registered under the id is closed and unregistered.
ClosePeer ==
    /\ lifecycle.at = "close"
    /\ inst' = IF registered[lifecycle.peer] = 0 THEN inst
               ELSE [inst EXCEPT ![registered[lifecycle.peer]].chan = "closed"]
    /\ registered' = [registered EXCEPT ![lifecycle.peer] = 0]
    /\ lifecycle' = Idle
    /\ UNCHANGED <<reader, lock, connector, router, cleaner>>

(***************************************************************************)
(* cleanup: DeregisterContextRouter and CleanDirectPeer                    *)
(***************************************************************************)

\* removeExpiredRouters finds an expired router, and CleanDirectPeer gets the
\* ids registered now.
Expire(c) ==
    /\ cleaner.at = "wait"
    /\ router[c] = "expiring"
    /\ cleaner' = [at |-> "loop", cluster |-> c,
                   todo |-> {p \in Peers : registered[p] # 0}, inst |-> 0]
    /\ UNCHANGED <<inst, reader, registered, lock, connector, router, lifecycle>>

\* The object of the next id is read before its lock is taken.
CleanNext(p) ==
    /\ cleaner.at = "loop" /\ p \in cleaner.todo
    /\ cleaner' = [cleaner EXCEPT !.todo = @ \ {p}, !.inst = registered[p],
                                  !.at = IF registered[p] = 0 THEN "loop" ELSE "found"]
    /\ UNCHANGED <<inst, reader, registered, lock, connector, router, lifecycle>>

CleanLock ==
    /\ cleaner.at = "found"
    /\ lock[inst[cleaner.inst].peer] = None
    /\ lock' = [lock EXCEPT ![inst[cleaner.inst].peer] = Cleaner]
    /\ cleaner' = [cleaner EXCEPT !.at = "locked"]
    /\ UNCHANGED <<inst, reader, registered, connector, router, lifecycle>>

\* Mutant: the peer is never disconnected.
CleanRemove_keeps ==
    /\ cleaner.at = "locked"
    /\ inst' = [inst EXCEPT ![cleaner.inst].clusters = @ \ {cleaner.cluster}]
    /\ cleaner' = [cleaner EXCEPT !.at = "unlock"]
    /\ UNCHANGED <<reader, registered, lock, connector, router, lifecycle>>

\* The cluster leaves the object; the last one to leave disconnects the peer.
CleanRemove ==
    /\ cleaner.at = "locked"
    /\ inst' = [inst EXCEPT ![cleaner.inst].clusters = @ \ {cleaner.cluster}]
    /\ cleaner' = [cleaner EXCEPT !.at =
                      IF inst[cleaner.inst].clusters = {cleaner.cluster}
                      THEN "disconnect" ELSE "unlock"]
    /\ UNCHANGED <<reader, registered, lock, connector, router, lifecycle>>

CleanDisconnect ==
    /\ cleaner.at = "disconnect"
    /\ lifecycle = Idle
    /\ lifecycle' = [Idle EXCEPT !.at = "close", !.peer = inst[cleaner.inst].peer]
    /\ cleaner' = [cleaner EXCEPT !.at = "unlock"]
    /\ UNCHANGED <<inst, reader, registered, lock, connector, router>>

CleanUnlock ==
    /\ cleaner.at = "unlock"
    /\ lock' = [lock EXCEPT ![inst[cleaner.inst].peer] = None]
    /\ cleaner' = [cleaner EXCEPT !.at = "loop", !.inst = 0]
    /\ UNCHANGED <<inst, reader, registered, connector, router, lifecycle>>

\* Every id has been looked at: the router is closed and removed.
Deregister ==
    /\ cleaner.at = "loop" /\ cleaner.todo = {}
    /\ router' = [router EXCEPT ![cleaner.cluster] = "gone"]
    /\ cleaner' = Resting
    /\ UNCHANGED <<inst, reader, registered, lock, connector, lifecycle>>

Clean ==
    \/ \E c \in Clusters : Expire(c)
    \/ \E p \in Peers : CleanNext(p)
    \/ CleanLock
    \/ CleanRemove
    \/ CleanDisconnect
    \/ CleanUnlock
    \/ Deregister

Connect(c, p) ==
    \/ ConnectLock(c, p)
    \/ ConnectShare(c, p)
    \/ ConnectDial(c, p)
    \/ \E i \in Insts : ConnectNew(c, p, i)
    \/ ConnectFails(c, p)

ReaderStep(i) ==
    \/ ReaderEnds(i)
    \/ ReaderLock(i)
    \/ ReaderDisconnect(i)
    \/ ReaderUnlock(i)

LifeCycle == Enqueue \/ ClosePeer

Next ==
    \/ \E c \in Clusters :
          \/ RegisterContextRouter(c)
          \/ SendPrepareMsg(c)
          \/ GracefullyCloseContextRouter(c)
          \/ \E p \in Peers : Connect(c, p) \/ SendMessage(c, p)
    \/ \E p \in Peers : SendAsValidator(p)
    \/ \E i \in Insts : Ship(i) \/ CloseStream(i) \/ StreamBreaks(i) \/ ReaderStep(i)
    \/ LifeCycle
    \/ Clean

Spec == Init /\ [][Next]_vars

\* The goroutines run on.  The mutexes of directPeerLock and the channels of
\* peerLifeCycle serve everyone who keeps waiting.  Streams break at will, and
\* nothing makes the engine start or close a cluster.
FairSpec ==
    /\ Spec
    /\ WF_vars(LifeCycle)
    /\ \A i \in Insts :
          /\ WF_vars(Ship(i))
          /\ WF_vars(CloseStream(i))
          /\ WF_vars(ReaderStep(i))
          /\ SF_vars(ReaderLock(i))
          /\ SF_vars(ReaderDisconnect(i))
    /\ \A c \in Clusters, p \in Peers :
          WF_vars(ConnectShare(c, p) \/ ConnectDial(c, p) \/ ConnectFails(c, p))
    /\ WF_vars(Clean)
    /\ SF_vars(CleanLock)
    /\ SF_vars(CleanDisconnect)

(***************************************************************************)
(* Properties                                                              *)
(***************************************************************************)

\* A peer object is registered exactly while its message channel is open, under
\* its own id.  So peerLifeCycle never sends on or closes a closed channel, and
\* no open object is lost together with its stream and its goroutines.
OpenIffRegistered ==
    /\ \A p \in Peers : registered[p] # 0 =>
          inst[registered[p]].chan = "open" /\ inst[registered[p]].peer = p
    /\ \A i \in Insts : inst[i].chan = "open" => registered[inst[i].peer] = i
    /\ lifecycle.at = "send" => inst[lifecycle.inst].chan = "open"

\* When ConnectToDirectPeer registers its new stream, no other goroutine has
\* registered the same id since it looked: Register's errAlreadyRegistered, after
\* which the stream would stay open without an owner, is never returned.
NeverAlreadyRegistered ==
    \A c \in Clusters, p \in Peers :
        connector[<<c, p>>] = "opening" => registered[p] = 0

\* A direct peer does not outlive its clusters: as long as no cluster with an open
\* router uses it, it is on its way to be closed.
PeersReleased ==
    \A i \in Insts :
        inst[i].chan = "open"
            ~> \/ inst[i].chan = "closed"
               \/ \E c \in inst[i].clusters : router[c] = "open"
=============================================================================
