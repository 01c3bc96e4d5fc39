------------------------- MODULE CommsServer_proofs -------------------------
(***************************************************************************)
(* Proofs about CommsServer, for every number of hosts, workers, objects,  *)
(* connections and messages.                                               *)
(***************************************************************************)
EXTENDS CommsServer, FiniteSetTheorems, TLAPS

Polling == {"enter", "poll", "polled", "events"}
PcValues == {"lock", "loop", "write", "send", "sent", "requeue", "wait", "done"}
               \cup Polling

(***************************************************************************)
(* Where the workers are, and who holds the right to poll.                 *)
(***************************************************************************)
PcInv ==
  /\ pc \in [Workers -> PcValues]
  /\ writeWaitingMutex_ \in Workers \cup {Free}
  /\ \A w \in Workers : writeWaitingMutex_ = w <=> pc[w] \in Polling

Work == writeReady_ # <<>> \/ writeWaiting_ # <<>>
Awake == \E w \in Workers : pc[w] # "wait"

(***************************************************************************)
(* A worker goes to sleep only if there is nothing to do or another one is *)
(* polling, and a client is put on a queue with a signal.                  *)
(***************************************************************************)
AwakeInv == PcInv /\ NobodySleepsOnWork

LEMMA InitAwake == Init => AwakeInv
BY WorkersAssumption DEF Init, AwakeInv, PcInv, NobodySleepsOnWork, PcValues, Polling

LEMMA PutAwake ==
  ASSUME AwakeInv, InPut
  PROVE  AwakeInv'
<1> USE DEF AwakeInv, PcInv, NobodySleepsOnWork
<1>1. writeWaitingMutex_' = writeWaitingMutex_ /\ Workers # {}
  BY BasePeerAssumption DEF InPut
<1>2. CASE UNCHANGED <<writeReady_, writeWaiting_, pc>>
  BY <1>1, <1>2
<1>3. CASE Signal
  <2>1. CASE Sleeping = {} /\ UNCHANGED pc
    BY <1>1, <2>1 DEF Sleeping
  <2>2. ASSUME NEW w \in Sleeping, pc' = [pc EXCEPT ![w] = "lock"]
        PROVE  AwakeInv'
    BY <1>1, <2>2 DEF Sleeping, Polling, PcValues
  <2> QED BY <1>3, <2>1, <2>2 DEF Signal
<1> QED BY <1>2, <1>3 DEF InPut, PutOnQueue

LEMMA WorkerAwake ==
  ASSUME AwakeInv, NEW w \in Workers, Worker(w)
  PROVE  AwakeInv'
<1> USE DEF AwakeInv, PcInv, NobodySleepsOnWork, Polling, PcValues
<1>0. Free \notin Workers BY WorkersAssumption
<1>1. CASE Lock(w)        BY <1>0, <1>1 DEF Lock, LoopHead
<1>2. CASE StartPoll(w)
  <2>1. /\ writeWaitingMutex_ = Free /\ writeWaitingMutex_' = w
        /\ pc' = [pc EXCEPT ![w] = "enter"]
    BY <1>2 DEF StartPoll, CanPoll
  <2>2. \A v \in Workers : pc'[v] \in Polling <=> v = w
    BY <1>0, <2>1
  <2>3. PcInv' BY <2>1, <2>2
  <2> QED BY <2>1, <2>3
<1>3. CASE TakeReady(w)   BY <1>0, <1>3 DEF TakeReady
<1>4. CASE Wait(w)
  <2>1. PcInv' BY <1>0, <1>4 DEF Wait, queueVars
  <2>2. CASE writeWaiting_ = <<>>
    BY <1>4, <2>1, <2>2 DEF Wait, queueVars
  <2>3. CASE writeWaitingMutex_ # Free
    BY <1>4, <2>1, <2>3 DEF Wait, queueVars
  <2> QED BY <1>4, <2>2, <2>3 DEF Wait, CanPoll
<1>5. CASE EnterPoll(w)    BY <1>0, <1>5 DEF EnterPoll
<1>6. CASE PollTimesOut(w) BY <1>0, <1>6 DEF PollTimesOut
<1>7. CASE PollReturns(w)  BY <1>0, <1>7 DEF PollReturns
<1>8. CASE LockPolled(w)
  BY <1>0, <1>8 DEF LockPolled, LoopHead, queueVars
<1>9. CASE PollEvent(w)    BY <1>0, <1>9 DEF PollEvent
<1>10. CASE EndPoll(w)     BY <1>0, <1>10 DEF EndPoll, LoopHead
<1>11. CASE Begin(w)       BY <1>0, <1>11 DEF Begin, queueVars
<1>12. CASE Send(w)        BY <1>0, <1>12 DEF Send, queueVars
<1>13. CASE End(w)         BY <1>0, <1>13 DEF End, queueVars
<1>14. CASE Requeue(w)     BY <1>0, <1>14 DEF Requeue, LoopHead
<1> QED BY <1>1, <1>2, <1>3, <1>4, <1>5, <1>6, <1>7, <1>8, <1>9, <1>10, <1>11,
           <1>12, <1>13, <1>14 DEF Worker

LEMMA NextAwake == AwakeInv /\ [Next]_vars => AwakeInv'
<1> SUFFICES ASSUME AwakeInv, [Next]_vars PROVE AwakeInv'
  OBVIOUS
<1> USE DEF AwakeInv, PcInv, NobodySleepsOnWork
<1>1. CASE InPut     BY <1>1, PutAwake
<1>2. ASSUME NEW w \in Workers, Worker(w) PROVE AwakeInv'
  BY <1>2, WorkerAwake
<1>3. CASE Broadcast
  BY <1>3, BasePeerAssumption DEF Broadcast, queueVars, Polling, PcValues
<1>4. CASE UNCHANGED <<pc, writeReady_, writeWaiting_, writeWaitingMutex_>>
  BY <1>4
<1>5. Discovery \/ InQueue \/ InLock \/ InUnlock \/ InEnds \/ Stop \/ Join \/ UNCHANGED vars
        => UNCHANGED <<pc, writeReady_, writeWaiting_, writeWaitingMutex_>>
  BY DEF Discovery, InQueue, InLock, InUnlock, InEnds, Stop, Join, vars, serverVars,
         queueVars
<1> QED BY <1>1, <1>2, <1>3, <1>4, <1>5 DEF Next

(***************************************************************************)
(* Whatever is queued, connected, reset or stopped meanwhile, the workers  *)
(* do not all sleep while a client is on a queue (Server.cc:272, 347-390). *)
(***************************************************************************)
THEOREM NobodySleepsOnWorkAlways == Spec => []NobodySleepsOnWork
<1>1. AwakeInv => NobodySleepsOnWork BY DEF AwakeInv
<1> QED BY <1>1, InitAwake, NextAwake, PTL DEF Spec

-----------------------------------------------------------------------------
(***************************************************************************)
(* A ClientData, by its fields; and one whose dataPending is right: set    *)
(* when there is something in the outBox, and only on a connection.        *)
(***************************************************************************)
IsClient(r) ==
  r = [fd |-> r.fd, fdStamp |-> r.fdStamp, readyToWrite |-> r.readyToWrite,
       outBox |-> r.outBox, currentOutboundMessage |-> r.currentOutboundMessage,
       bytesWrittenSoFar |-> r.bytesWrittenSoFar, dataPending |-> r.dataPending,
       onWriteQueue |-> r.onWriteQueue]

PendingOK(r) ==
  /\ IsClient(r)
  /\ r.outBox # <<>> => r.dataPending
  /\ r.dataPending => r.fd # Closed

(***************************************************************************)
(* r becomes s, which has nothing to write that r had not.                 *)
(***************************************************************************)
Calms(r, s) ==
  /\ PendingOK(s)
  /\ s.dataPending => r.dataPending
  /\ s.onWriteQueue = r.onWriteQueue

LEMMA NewClientOK == PendingOK(NewClient) /\ ~NewClient.dataPending
BY DEF PendingOK, IsClient, NewClient

LEMMA ResetCalms ==
  ASSUME NEW r, PendingOK(r)
  PROVE  Calms(r, Reset(r)) /\ ~Reset(r).dataPending
<1>1. Reset(r) = [r EXCEPT !.fd = Closed, !.fdStamp = 0, !.outBox = <<>>,
                           !.currentOutboundMessage = NoMsg, !.dataPending = FALSE]
  BY DEF Reset
<1> QED BY <1>1 DEF PendingOK, IsClient, Calms

LEMMA AgainCalms ==
  ASSUME NEW r, PendingOK(r)
  PROVE  Calms(r, Again(r))
<1>1. Again(r) = [r EXCEPT !.readyToWrite = FALSE, !.currentOutboundMessage = NoMsg]
  BY DEF Again
<1> QED BY <1>1 DEF PendingOK, IsClient, Calms

LEMMA PartialCalms ==
  ASSUME NEW r, NEW n, PendingOK(r)
  PROVE  Calms(r, Partial(r, n))
<1>1. Partial(r, n) = [r EXCEPT !.readyToWrite = FALSE, !.bytesWrittenSoFar = @ + n]
  BY DEF Partial
<1> QED BY <1>1 DEF PendingOK, IsClient, Calms

LEMMA FullCalms ==
  ASSUME NEW r, PendingOK(r)
  PROVE  Calms(r, Full(r))
<1> DEFINE box == IF r.outBox # <<>> /\ Head(r.outBox) = r.currentOutboundMessage
                  THEN Tail(r.outBox) ELSE r.outBox
<1>1. Full(r) = [r EXCEPT !.outBox = box, !.currentOutboundMessage = NoMsg,
                          !.bytesWrittenSoFar = 0, !.dataPending = box # <<>>]
  BY DEF Full
<1>2. box # <<>> => r.outBox # <<>>
  OBVIOUS
<1> HIDE DEF box
<1> QED BY <1>1, <1>2 DEF PendingOK, IsClient, Calms

LEMMA QueuedOK ==
  ASSUME NEW r, NEW msg, NEW old, PendingOK(r), r.fd # Closed
  PROVE  PendingOK(Queued(r, msg, old)) /\ Queued(r, msg, old).onWriteQueue = r.onWriteQueue
<1> DEFINE box == Pruned(Append(r.outBox, msg), old)
<1>1. Queued(r, msg, old) =
        [r EXCEPT !.outBox = box,
                  !.dataPending = box # <<>> \/ r.currentOutboundMessage # NoMsg]
  BY DEF Queued
<1> HIDE DEF box
<1> QED BY <1>1 DEF PendingOK, IsClient

-----------------------------------------------------------------------------
(***************************************************************************)
(* NoLostWakeup with what it rests on: which objects there are, that the   *)
(* input thread has nobody in hand while it reads, and that dataPending is *)
(* right in every client.                                                  *)
(***************************************************************************)
Wakes(c) ==
  client[c].dataPending => client[c].onWriteQueue \/ c \in ToSet(newPendingClients)

WakeInv ==
  /\ client = [c \in Objects |-> client[c]]
  /\ \A c \in Objects : PendingOK(client[c]) /\ Wakes(c)
  /\ subscribers \subseteq Objects
  /\ clients_ \in [Hosts -> 0 .. MaxObjects]
  /\ newPendingClients \in Seq(Objects)
  /\ inThread \in {"read", "done"} => newPendingClients = <<>>

(***************************************************************************)
(* The step puts no client on a queue and takes none off.                  *)
(***************************************************************************)
MarksKept == \A c \in Objects : client'[c].onWriteQueue = client[c].onWriteQueue

LEMMA InitWake == Init => WakeInv
<1> SUFFICES ASSUME Init PROVE WakeInv
  OBVIOUS
<1>1. client = [c \in Objects |-> NewClient] BY DEF Init, PeerInit
<1>2. \A c \in Objects : PendingOK(client[c]) /\ ~client[c].dataPending
  BY <1>1, NewClientOK
<1> QED BY <1>1, <1>2, BasePeerAssumption DEF Init, PeerInit, WakeInv, Wakes

(***************************************************************************)
(* A step that changes one client, leaves the input thread alone and gives *)
(* the client nothing to write.                                            *)
(***************************************************************************)
LEMMA CalmStep ==
  ASSUME WakeInv, NEW c, NEW s,
         client' = [client EXCEPT ![c] = s],
         c \in Objects => Calms(client[c], s),
         subscribers' \subseteq Objects, clients_' \in [Hosts -> 0 .. MaxObjects],
         newPendingClients' = newPendingClients,
         inThread' \in {"read", "done"} => newPendingClients = <<>>
  PROVE  WakeInv' /\ MarksKept
<1>1. client' = [d \in Objects |-> client'[d]]
  BY DEF WakeInv
<1>2. ASSUME NEW d \in Objects
      PROVE  /\ PendingOK(client'[d]) /\ Wakes(d)'
             /\ client'[d].onWriteQueue = client[d].onWriteQueue
  <2>1. CASE d = c
    <3>1. client'[d] = s BY <2>1 DEF WakeInv
    <3> QED BY <2>1, <3>1 DEF WakeInv, Wakes, Calms
  <2>2. CASE d # c
    <3>1. client'[d] = client[d] BY <2>2 DEF WakeInv
    <3> QED BY <2>2, <3>1 DEF WakeInv, Wakes
  <2> QED BY <2>1, <2>2
<1> QED BY <1>1, <1>2 DEF WakeInv, MarksKept

LEMMA ResetStep ==
  ASSUME WakeInv, NEW c, NEW b, clientReset(c, b), UNCHANGED <<newPendingClients, inThread>>
  PROVE  WakeInv' /\ MarksKept
<1>1. client' = [client EXCEPT ![c] = Reset(client[c])]
  BY DEF clientReset, WakeInv
<1>2. c \in Objects => Calms(client[c], Reset(client[c]))
  BY ResetCalms DEF WakeInv
<1>3. subscribers' \subseteq Objects
  BY DEF clientReset, WakeInv
<1>4. clients_' \in [Hosts -> 0 .. MaxObjects]
  <2>1. 0 \in 0 .. MaxObjects BY BasePeerAssumption
  <2>2. clients_' = clients_ \/ clients_' = [clients_ EXCEPT ![c[1]] = 0]
    BY DEF clientReset
  <2> QED BY <2>1, <2>2 DEF WakeInv
<1> QED BY <1>1, <1>2, <1>3, <1>4, CalmStep DEF WakeInv

LEMMA ConnectStep ==
  ASSUME WakeInv, NEW h \in Hosts, Connect(h), UNCHANGED <<newPendingClients, inThread>>
  PROVE  WakeInv' /\ MarksKept
<1> DEFINE c == Named(h)
           r == IF Connected(c) THEN Reset(client[c]) ELSE client[c]
<1>1. c \in Objects /\ c[2] \in 0 .. MaxObjects
  BY DEF Connect, Objects
<1>2. PICK fd \in Fds : client' = [client EXCEPT ![c] = [r EXCEPT !.fd = fd, !.fdStamp = Len(stream) + 1]]
  BY DEF Connect
<1>3. fd # Closed BY DEF Fds, Closed
<1>4. PendingOK(client[c]) BY <1>1 DEF WakeInv
<1>5. Calms(client[c], r)
  BY <1>4, ResetCalms DEF Calms
<1>6. ASSUME NEW q, Calms(client[c], q), NEW k
      PROVE  Calms(client[c], [q EXCEPT !.fd = fd, !.fdStamp = k])
  <2>1. PICK s : s = [q EXCEPT !.fd = fd, !.fdStamp = k] OBVIOUS
  <2>2. Calms(client[c], s) BY <1>3, <1>6, <2>1 DEF Calms, PendingOK, IsClient
  <2> QED BY <2>1, <2>2
<1>7. Calms(client[c], [r EXCEPT !.fd = fd, !.fdStamp = Len(stream) + 1])
  BY <1>5, <1>6
<1>8. subscribers' \subseteq Objects
  BY DEF Connect, WakeInv
<1>9. clients_' \in [Hosts -> 0 .. MaxObjects]
  BY <1>1 DEF Connect, WakeInv
<1> HIDE DEF c, r
<1> QED BY <1>2, <1>7, <1>8, <1>9, CalmStep DEF WakeInv

LEMMA ControlStep ==
  ASSUME WakeInv, Discovery
  PROVE  WakeInv' /\ MarksKept
<1>0. UNCHANGED <<newPendingClients, inThread>>
  BY DEF Discovery, serverVars
<1>1. ASSUME NEW h \in Hosts, Connect(h) PROVE WakeInv' /\ MarksKept
  BY <1>0, <1>1, ConnectStep
<1>2. ASSUME NEW h \in Hosts, ConnectFails(h) PROVE WakeInv' /\ MarksKept
  BY <1>0, <1>2, ResetStep DEF ConnectFails
<1>3. ASSUME NEW h \in Hosts, Subscribe(h) PROVE WakeInv' /\ MarksKept
  <2>1. Entry(h) \in Objects
    BY <1>3 DEF Subscribe, Entry, Objects, WakeInv
  <2> QED BY <1>0, <1>3, <2>1 DEF Subscribe, WakeInv, Wakes, MarksKept
<1>4. ASSUME NEW h \in Hosts, Unsubscribe(h) PROVE WakeInv' /\ MarksKept
  BY <1>0, <1>4 DEF Unsubscribe, WakeInv, Wakes, MarksKept
<1>5. ASSUME NEW k \in Connections, Break(k) PROVE WakeInv' /\ MarksKept
  BY <1>0, <1>5 DEF Break, WakeInv, Wakes, MarksKept
<1> QED BY <1>1, <1>2, <1>3, <1>4, <1>5 DEF Discovery

(***************************************************************************)
(* A listing of a set of objects is a sequence of them all.                *)
(***************************************************************************)
LEMMA ObjectsFinite == IsFiniteSet(Objects)
<1>1. IsFiniteSet(1 .. MaxObjects) BY FS_Interval, BasePeerAssumption
<1> QED BY <1>1, BasePeerAssumption, FS_Product DEF Objects

LEMMA ListingIsSeq ==
  ASSUME NEW S \in SUBSET Objects, NEW q \in Listings(S)
  PROVE  q \in Seq(Objects) /\ ToSet(q) = S
<1>1. Cardinality(S) \in Nat
  BY ObjectsFinite, FS_Subset, FS_CardinalityType
<1>2. q \in [1 .. Cardinality(S) -> S] /\ ToSet(q) = S
  BY DEF Listings
<1>3. q \in [1 .. Cardinality(S) -> Objects]
  BY <1>2
<1> QED BY <1>1, <1>2, <1>3

LEMMA QueueStep ==
  ASSUME WakeInv, InQueue
  PROVE  WakeInv' /\ MarksKept
<1> DEFINE m == received + 1
<1>1. PICK old : queueMsg(m, old) /\ newPendingClients' \in Listings(NewPending(m, old))
  BY DEF InQueue
<1>2. Reached \subseteq Objects /\ NewPending(m, old) \subseteq Objects
  BY DEF Reached, NewPending, WakeInv
<1>3. newPendingClients' \in Seq(Objects) /\ ToSet(newPendingClients') = NewPending(m, old)
  BY <1>1, <1>2, ListingIsSeq
<1>4. newPendingClients = <<>> /\ ToSet(newPendingClients) = {}
  BY DEF InQueue, WakeInv, ToSet
<1>5. client' = [c \in Objects |-> IF c \in Reached THEN Queued(client[c], m, old)
                                   ELSE client[c]]
  BY <1>1 DEF queueMsg
<1>6. ASSUME NEW c \in Objects
      PROVE  /\ PendingOK(client'[c]) /\ Wakes(c)'
             /\ client'[c].onWriteQueue = client[c].onWriteQueue
  <2>1. CASE c \in Reached
    <3>1. client'[c] = Queued(client[c], m, old) BY <1>5, <2>1
    <3>2. PendingOK(client'[c]) /\ client'[c].onWriteQueue = client[c].onWriteQueue
      BY <2>1, <3>1, QueuedOK DEF Reached, Connected, WakeInv
    <3>3. client[c].dataPending => client[c].onWriteQueue
      BY <1>4 DEF WakeInv, Wakes
    <3>4. client'[c].dataPending /\ ~client[c].dataPending => c \in NewPending(m, old)
      BY <2>1, <3>1 DEF NewPending
    <3> QED BY <1>3, <3>2, <3>3, <3>4 DEF Wakes
  <2>2. CASE c \notin Reached
    <3>1. client'[c] = client[c] BY <1>5, <2>2
    <3> QED BY <3>1, <1>4 DEF WakeInv, Wakes
  <2> QED BY <2>1, <2>2
<1>7. client' = [c \in Objects |-> client'[c]]
  BY <1>5
<1>8. UNCHANGED <<subscribers, clients_>> /\ inThread' = "dispatch"
  BY <1>1 DEF queueMsg, InQueue
<1> QED BY <1>3, <1>6, <1>7, <1>8 DEF WakeInv, MarksKept

LEMMA ReadyCalms ==
  ASSUME NEW r, NEW m, PendingOK(r)
  PROVE  Calms(r, [r EXCEPT !.readyToWrite = m])
<1>1. PICK s : s = [r EXCEPT !.readyToWrite = m]
  OBVIOUS
<1>2. Calms(r, s)
  BY <1>1 DEF PendingOK, IsClient, Calms
<1> QED BY <1>1, <1>2

LEMMA ChosenCalms ==
  ASSUME NEW r, NEW m, PendingOK(r)
  PROVE  Calms(r, [r EXCEPT !.currentOutboundMessage = m])
<1>1. PICK s : s = [r EXCEPT !.currentOutboundMessage = m]
  OBVIOUS
<1>2. Calms(r, s)
  BY <1>1 DEF PendingOK, IsClient, Calms
<1> QED BY <1>1, <1>2

LEMMA MarkOK ==
  ASSUME NEW r, NEW b, PendingOK(r)
  PROVE  LET s == [r EXCEPT !.onWriteQueue = b] IN
         PendingOK(s) /\ s.onWriteQueue = b /\ s.dataPending = r.dataPending
<1>1. PICK s : s = [r EXCEPT !.onWriteQueue = b]
  OBVIOUS
<1>2. PendingOK(s) /\ s.onWriteQueue = b /\ s.dataPending = r.dataPending
  BY <1>1 DEF PendingOK, IsClient
<1> QED BY <1>1, <1>2

(***************************************************************************)
(* What leaves newPendingClients is on a queue.                            *)
(***************************************************************************)
LEMMA HeadAndTail ==
  ASSUME NEW S, NEW q \in Seq(S), q # <<>>
  PROVE  /\ Head(q) \in S /\ Tail(q) \in Seq(S)
         /\ ToSet(q) = {Head(q)} \cup ToSet(Tail(q))
<1>1. ASSUME NEW i \in DOMAIN q PROVE q[i] = Head(q) \/ \E k \in DOMAIN Tail(q) : q[i] = Tail(q)[k]
  <2>1. CASE i = 1 BY <2>1
  <2>2. CASE i # 1
    <3>1. i - 1 \in DOMAIN Tail(q) /\ Tail(q)[i - 1] = q[i] BY <2>2
    <3> QED BY <3>1
  <2> QED BY <2>1, <2>2
<1>2. Head(q) \in ToSet(q) BY DEF ToSet
<1>3. ASSUME NEW k \in DOMAIN Tail(q) PROVE Tail(q)[k] \in ToSet(q)
  <2>1. k + 1 \in DOMAIN q /\ Tail(q)[k] = q[k + 1] OBVIOUS
  <2> QED BY <2>1 DEF ToSet
<1>4. Head(q) \in S /\ Tail(q) \in Seq(S) OBVIOUS
<1> QED BY <1>1, <1>2, <1>3, <1>4 DEF ToSet

LEMMA PutStep ==
  ASSUME WakeInv, InPut
  PROVE  WakeInv'
<1> DEFINE c == Head(newPendingClients)
<1>1. newPendingClients' = Tail(newPendingClients)
  BY DEF InPut
<1>2. c \in Objects /\ newPendingClients' \in Seq(Objects)
      /\ ToSet(newPendingClients) = {c} \cup ToSet(newPendingClients')
  BY <1>1, HeadAndTail DEF WakeInv, InPut
<1>3. \/ client' = [client EXCEPT ![c].onWriteQueue = TRUE]
      \/ client' = client /\ client[c].onWriteQueue
  BY DEF InPut, PutOnQueue, OffQueue
<1>4. ASSUME NEW r, PendingOK(r)
      PROVE  /\ PendingOK([r EXCEPT !.onWriteQueue = TRUE])
             /\ [r EXCEPT !.onWriteQueue = TRUE].onWriteQueue
  BY <1>4, MarkOK
<1>5. PendingOK(client'[c]) /\ client'[c].onWriteQueue
  BY <1>2, <1>3, <1>4 DEF WakeInv
<1>6. ASSUME NEW d \in Objects PROVE PendingOK(client'[d]) /\ Wakes(d)'
  <2>1. CASE d = c BY <1>5, <2>1 DEF Wakes
  <2>2. CASE d # c
    <3>1. client'[d] = client[d] BY <1>2, <1>3, <2>2 DEF WakeInv
    <3> QED BY <1>2, <2>2, <3>1 DEF WakeInv, Wakes
  <2> QED BY <2>1, <2>2
<1>7. client' = [d \in Objects |-> client'[d]]
  BY <1>3 DEF WakeInv
<1>8. UNCHANGED <<subscribers, clients_>> /\ inThread' = "put"
  BY DEF InPut
<1> QED BY <1>2, <1>6, <1>7, <1>8 DEF WakeInv

(***************************************************************************)
(* A worker takes a client off the queues only if it has nothing to write. *)
(***************************************************************************)
LEMMA SameClients ==
  ASSUME WakeInv, UNCHANGED <<client, subscribers, clients_, newPendingClients, inThread>>
  PROVE  WakeInv' /\ MarksKept
BY DEF WakeInv, Wakes, MarksKept

LEMMA RequeueStep ==
  ASSUME WakeInv, NEW w \in Workers, Requeue(w)
  PROVE  WakeInv'
<1> DEFINE c == currentClientPtr[w]
<1>0. UNCHANGED <<subscribers, clients_, newPendingClients, inThread>>
  BY DEF Requeue
<1>1. CASE UNCHANGED client
  BY <1>0, <1>1, SameClients
<1>2. CASE ~client[c].dataPending /\ client' = [client EXCEPT ![c].onWriteQueue = FALSE]
  <2>1. ASSUME NEW r, PendingOK(r), ~r.dataPending
        PROVE  /\ PendingOK([r EXCEPT !.onWriteQueue = FALSE])
               /\ ~[r EXCEPT !.onWriteQueue = FALSE].dataPending
    BY <2>1, MarkOK
  <2>2. ASSUME NEW d \in Objects PROVE PendingOK(client'[d]) /\ Wakes(d)'
    <3>1. CASE d = c
      <4>1. client'[d] = [client[d] EXCEPT !.onWriteQueue = FALSE]
        BY <1>2, <3>1 DEF WakeInv
      <4> QED BY <1>2, <2>1, <3>1, <4>1 DEF WakeInv, Wakes
    <3>2. CASE d # c
      <4>1. client'[d] = client[d] BY <1>2, <3>2 DEF WakeInv
      <4> QED BY <1>0, <4>1 DEF WakeInv, Wakes
    <3> QED BY <3>1, <3>2
  <2>3. client' = [d \in Objects |-> client'[d]]
    BY <1>2 DEF WakeInv
  <2> QED BY <1>0, <2>2, <2>3 DEF WakeInv
<1> QED BY <1>1, <1>2 DEF Requeue, BackOnQueue

LEMMA EndStep ==
  ASSUME WakeInv, NEW w \in Workers, End(w)
  PROVE  WakeInv' /\ MarksKept
<1> DEFINE c == currentClientPtr[w]
<1>0. UNCHANGED <<newPendingClients, inThread>> /\ recordWrite(w, c)
  BY DEF End
<1>1. CASE UNCHANGED <<clients_, client, subscribers>>
  BY <1>0, <1>1, SameClients
<1>2. ASSUME NEW s, client' = [client EXCEPT ![c] = s], c \in Objects => Calms(client[c], s),
             UNCHANGED <<clients_, subscribers>>
      PROVE  WakeInv' /\ MarksKept
  BY <1>0, <1>2, CalmStep DEF WakeInv
<1>3. CASE client' = [client EXCEPT ![c] = Again(client[c])] /\ UNCHANGED <<clients_, subscribers>>
  BY <1>2, <1>3, AgainCalms DEF WakeInv
<1>4. CASE client' = [client EXCEPT ![c] = Partial(client[c], writing[w].sent)]
           /\ UNCHANGED <<clients_, subscribers>>
  BY <1>2, <1>4, PartialCalms DEF WakeInv
<1>5. CASE client' = [client EXCEPT ![c] = Full(client[c])] /\ UNCHANGED <<clients_, subscribers>>
  BY <1>2, <1>5, FullCalms DEF WakeInv
<1>6. CASE clientReset(c, TRUE)
  BY <1>0, <1>6, ResetStep
<1> QED BY <1>0, <1>1, <1>3, <1>4, <1>5, <1>6 DEF recordWrite

LEMMA WorkerWake ==
  ASSUME WakeInv, NEW w \in Workers, Worker(w)
  PROVE  WakeInv' /\ (Requeue(w) \/ MarksKept)
<1>1. CASE UNCHANGED <<client, subscribers, clients_, newPendingClients, inThread>>
  BY <1>1, SameClients
<1>2. Lock(w) \/ StartPoll(w) \/ TakeReady(w) \/ Wait(w) \/ EnterPoll(w) \/ PollTimesOut(w)
        \/ PollReturns(w) \/ LockPolled(w) \/ EndPoll(w)
        => UNCHANGED <<client, subscribers, clients_, newPendingClients, inThread>>
  BY DEF Lock, StartPoll, TakeReady, Wait, EnterPoll, PollTimesOut, PollReturns, LockPolled,
         EndPoll, peerVars
<1>3. CASE PollEvent(w)
  <2> DEFINE c == Head(writeWaiting_)
  <2>0. UNCHANGED <<newPendingClients, inThread>> BY <1>3 DEF PollEvent
  <2>1. CASE PollError(c)
    BY <1>1, <2>0, <2>1, ResetStep DEF PollError, handleErrors
  <2>2. CASE PollOut(c)
    <3>1. PICK s : s = [client[c] EXCEPT !.readyToWrite = TRUE] OBVIOUS
    <3>2. client' = [client EXCEPT ![c] = s] BY <2>2, <3>1 DEF PollOut
    <3>3. c \in Objects => Calms(client[c], s)
      BY <3>1, ReadyCalms DEF WakeInv
    <3> QED BY <2>0, <2>2, <3>2, <3>3, CalmStep DEF PollOut, WakeInv
  <2>3. CASE PollNothing(c)
    BY <1>1, <2>0, <2>3 DEF PollNothing, peerVars
  <2> QED BY <1>3, <2>1, <2>2, <2>3 DEF PollEvent
<1>4. CASE Begin(w)
  <2> DEFINE c == currentClientPtr[w]
  <2>0. UNCHANGED <<newPendingClients, inThread>> BY <1>4 DEF Begin
  <2>1. CASE UNCHANGED peerVars
    BY <1>1, <2>0, <2>1 DEF peerVars
  <2>2. CASE ChooseMessage(w, c)
    <3>1. PICK m : client' = [client EXCEPT ![c].currentOutboundMessage = m]
      BY <2>2 DEF ChooseMessage
    <3>2. PICK s : s = [client[c] EXCEPT !.currentOutboundMessage = m] OBVIOUS
    <3>3. client' = [client EXCEPT ![c] = s] BY <3>1, <3>2
    <3>4. c \in Objects => Calms(client[c], s)
      BY <3>2, ChosenCalms DEF WakeInv
    <3> QED BY <2>0, <2>2, <3>3, <3>4, CalmStep DEF ChooseMessage, WakeInv
  <2> QED BY <1>4, <2>1, <2>2 DEF Begin
<1>5. CASE Send(w)
  BY <1>1, <1>5 DEF Send, send
<1>6. CASE End(w)     BY <1>6, EndStep
<1>7. CASE Requeue(w) BY <1>7, RequeueStep
<1> QED BY <1>1, <1>2, <1>3, <1>4, <1>5, <1>6, <1>7 DEF Worker

LEMMA NextWake == WakeInv /\ [Next]_vars => WakeInv'
<1> SUFFICES ASSUME WakeInv, [Next]_vars PROVE WakeInv'
  OBVIOUS
<1>1. CASE Discovery BY <1>1, ControlStep
<1>2. CASE InQueue   BY <1>2, QueueStep
<1>3. CASE InPut     BY <1>3, PutStep
<1>4. CASE InLock \/ InUnlock \/ InEnds
  BY <1>4 DEF InLock, InUnlock, InEnds, peerVars, WakeInv, Wakes
<1>5. ASSUME NEW w \in Workers, Worker(w) PROVE WakeInv'
  BY <1>5, WorkerWake
<1>6. CASE Stop \/ Broadcast \/ Join \/ UNCHANGED vars
  BY <1>6, SameClients DEF Stop, Broadcast, Join, vars, serverVars, peerVars
<1> QED BY <1>1, <1>2, <1>3, <1>4, <1>5, <1>6 DEF Next

(***************************************************************************)
(* A client with data to write is marked as on a queue, or about to be     *)
(* put on one, although dataPending and the mark are guarded by different  *)
(* mutexes (BasePeer.cc:192, Server.cc:258, 368).  That a marked client is *)
(* on a queue does not hold (NeverStranded).                               *)
(***************************************************************************)
THEOREM NoLostWakeupAlways == Spec => []NoLostWakeup
<1>1. WakeInv => NoLostWakeup BY DEF WakeInv, Wakes, NoLostWakeup
<1> QED BY <1>1, InitWake, NextWake, PTL DEF Spec

-----------------------------------------------------------------------------
(***************************************************************************)
(* An entry of clients_ is connected: only a reset, which erases the entry *)
(* of that name, closes a descriptor, whoever calls it and for whichever   *)
(* object of the name.                                                     *)
(***************************************************************************)
FdsKept == UNCHANGED clients_ /\ \A c \in Objects : client'[c].fd = client[c].fd

LEMMA FdKept ==
  ASSUME NEW r, IsClient(r), NEW n
  PROVE  /\ [r EXCEPT !.onWriteQueue = n].fd = r.fd
         /\ [r EXCEPT !.readyToWrite = n].fd = r.fd
         /\ [r EXCEPT !.currentOutboundMessage = n].fd = r.fd
         /\ Again(r).fd = r.fd /\ Partial(r, n).fd = r.fd /\ Full(r).fd = r.fd
         /\ \A old : Queued(r, n, old).fd = r.fd
<1>1. "fd" \in DOMAIN r
  BY DEF IsClient
<1> QED BY <1>1 DEF Again, Partial, Full, Queued

LEMMA OneChanges ==
  ASSUME WakeInv, UNCHANGED clients_, NEW c, NEW s, client' = [client EXCEPT ![c] = s],
         c \in Objects => s.fd = client[c].fd
  PROVE  FdsKept
BY DEF WakeInv, FdsKept

LEMMA FieldChanges ==
  ASSUME WakeInv, UNCHANGED clients_, NEW c, NEW n,
         \/ client' = [client EXCEPT ![c].readyToWrite = n]
         \/ client' = [client EXCEPT ![c].currentOutboundMessage = n]
         \/ client' = [client EXCEPT ![c].onWriteQueue = n]
  PROVE  FdsKept
<1>0. c \in Objects => IsClient(client[c])
  BY DEF WakeInv, PendingOK
<1>1. CASE client' = [client EXCEPT ![c].readyToWrite = n]
  <2>1. client' = [client EXCEPT ![c] = [client[c] EXCEPT !.readyToWrite = n]]
    BY <1>1
  <2> QED BY <1>0, <2>1, FdKept, OneChanges
<1>2. CASE client' = [client EXCEPT ![c].currentOutboundMessage = n]
  <2>1. client' = [client EXCEPT ![c] = [client[c] EXCEPT !.currentOutboundMessage = n]]
    BY <1>2
  <2> QED BY <1>0, <2>1, FdKept, OneChanges
<1>3. CASE client' = [client EXCEPT ![c].onWriteQueue = n]
  <2>1. client' = [client EXCEPT ![c] = [client[c] EXCEPT !.onWriteQueue = n]]
    BY <1>3
  <2> QED BY <1>0, <2>1, FdKept, OneChanges
<1> QED BY <1>1, <1>2, <1>3

LEMMA EntriesKept ==
  ASSUME WakeInv, EntryIsConnected, FdsKept
  PROVE  EntryIsConnected'
<1> SUFFICES ASSUME NEW h \in Hosts, clients_[h] # 0 PROVE client'[Entry(h)'].fd # Closed
  BY DEF EntryIsConnected, Connected, FdsKept
<1>1. Entry(h)' = Entry(h) /\ Entry(h) \in Objects
  BY DEF FdsKept, Entry, Objects, WakeInv
<1> QED BY <1>1 DEF FdsKept, EntryIsConnected, Connected

LEMMA ResetEntries ==
  ASSUME WakeInv, EntryIsConnected, NEW c, clientReset(c, TRUE)
  PROVE  EntryIsConnected'
<1> SUFFICES ASSUME NEW h \in Hosts, clients_'[h] # 0 PROVE client'[Entry(h)'].fd # Closed
  BY DEF EntryIsConnected, Connected
<1>1. clients_' = [clients_ EXCEPT ![c[1]] = 0] /\ client' = [client EXCEPT ![c] = Reset(client[c])]
  BY DEF clientReset, WakeInv
<1>2. h # c[1] /\ clients_'[h] = clients_[h]
  BY <1>1 DEF WakeInv
<1>3. Entry(h)' = Entry(h) /\ Entry(h) \in Objects /\ Entry(h) # c
  BY <1>2 DEF Entry, Objects, WakeInv
<1>4. client'[Entry(h)] = client[Entry(h)]
  BY <1>1, <1>3 DEF WakeInv
<1> QED BY <1>2, <1>3, <1>4 DEF EntryIsConnected, Connected

LEMMA ConnectEntries ==
  ASSUME WakeInv, EntryIsConnected, NEW h \in Hosts, Connect(h)
  PROVE  EntryIsConnected'
<1> DEFINE c == Named(h)
           r == IF Connected(c) THEN Reset(client[c]) ELSE client[c]
<1>1. c \in Objects /\ c = <<h, c[2]>>
  BY DEF Connect, Named, Entry
<1>2. PICK fd \in Fds : client' = [client EXCEPT ![c] = [r EXCEPT !.fd = fd, !.fdStamp = Len(stream) + 1]]
  BY DEF Connect
<1>3. fd # Closed
  BY DEF Fds, Closed
<1>4. clients_' = [clients_ EXCEPT ![h] = c[2]]
  BY DEF Connect
<1>5. [r EXCEPT !.fd = fd, !.fdStamp = Len(stream) + 1].fd = fd
  <2>1. PendingOK(client[c])
    BY <1>1 DEF WakeInv
  <2>2. "fd" \in DOMAIN r
    BY <2>1 DEF PendingOK, IsClient, Reset
  <2> HIDE DEF r
  <2> QED BY <2>2
<1> HIDE DEF c, r
<1> SUFFICES ASSUME NEW g \in Hosts, clients_'[g] # 0 PROVE client'[Entry(g)'].fd # Closed
  BY DEF EntryIsConnected, Connected
<1>6. CASE g = h
  <2>1. Entry(g)' = c
    BY <1>1, <1>4, <1>6 DEF Entry, WakeInv
  <2>2. client'[c].fd = fd
    BY <1>1, <1>2, <1>5 DEF WakeInv
  <2> QED BY <1>3, <2>1, <2>2
<1>7. CASE g # h
  <2>1. clients_'[g] = clients_[g]
    BY <1>4, <1>7 DEF WakeInv
  <2>2. Entry(g)' = Entry(g) /\ Entry(g) \in Objects /\ Entry(g) # c
    BY <1>1, <1>7, <2>1 DEF Entry, Objects, WakeInv
  <2>3. client'[Entry(g)] = client[Entry(g)]
    BY <1>2, <2>2 DEF WakeInv
  <2> QED BY <2>1, <2>2, <2>3 DEF EntryIsConnected, Connected
<1> QED BY <1>6, <1>7

LEMMA EndEntries ==
  ASSUME WakeInv, EntryIsConnected, NEW w \in Workers, End(w)
  PROVE  EntryIsConnected'
<1> DEFINE c == currentClientPtr[w]
<1>1. CASE UNCHANGED <<clients_, client>>
  BY <1>1, EntriesKept DEF FdsKept
<1>2. ASSUME NEW n, UNCHANGED clients_,
             \/ client' = [client EXCEPT ![c] = Again(client[c])]
             \/ client' = [client EXCEPT ![c] = Partial(client[c], n)]
             \/ client' = [client EXCEPT ![c] = Full(client[c])]
      PROVE  FdsKept
  <2>1. c \in Objects => IsClient(client[c])
    BY DEF WakeInv, PendingOK
  <2> QED BY <1>2, <2>1, FdKept, OneChanges
<1>3. CASE clientReset(c, TRUE)
  BY <1>3, ResetEntries
<1> QED BY <1>1, <1>2, <1>3, EntriesKept DEF End, recordWrite

LEMMA QueueEntries ==
  ASSUME WakeInv, EntryIsConnected, InQueue
  PROVE  EntryIsConnected'
<1>1. PICK old : queueMsg(received + 1, old)
  BY DEF InQueue
<1>2. \A c \in Objects : client'[c] = client[c] \/ client'[c] = Queued(client[c], received + 1, old)
  BY <1>1 DEF queueMsg
<1>3. \A c \in Objects : IsClient(client[c])
  BY DEF WakeInv, PendingOK
<1> QED BY <1>1, <1>2, <1>3, FdKept, EntriesKept DEF FdsKept, queueMsg

LEMMA WorkerEntries ==
  ASSUME WakeInv, EntryIsConnected, NEW w \in Workers, Worker(w)
  PROVE  EntryIsConnected'
<1>1. CASE UNCHANGED <<client, clients_>>
  BY <1>1, EntriesKept DEF FdsKept
<1>2. Lock(w) \/ StartPoll(w) \/ TakeReady(w) \/ Wait(w) \/ EnterPoll(w) \/ PollTimesOut(w)
        \/ PollReturns(w) \/ LockPolled(w) \/ EndPoll(w) \/ Send(w)
        => UNCHANGED <<client, clients_>>
  BY DEF Lock, StartPoll, TakeReady, Wait, EnterPoll, PollTimesOut, PollReturns, LockPolled,
         EndPoll, Send, send, peerVars
<1>3. ASSUME NEW c, NEW n, UNCHANGED clients_,
             \/ client' = [client EXCEPT ![c].readyToWrite = n]
             \/ client' = [client EXCEPT ![c].currentOutboundMessage = n]
             \/ client' = [client EXCEPT ![c].onWriteQueue = n]
      PROVE  EntryIsConnected'
  BY <1>3, FieldChanges, EntriesKept
<1>4. CASE PollEvent(w)
  <2> DEFINE c == Head(writeWaiting_)
  <2>1. CASE PollError(c)
    BY <1>1, <2>1, ResetEntries DEF PollError, handleErrors
  <2>2. CASE PollOut(c)
    BY <1>3, <2>2 DEF PollOut
  <2>3. CASE PollNothing(c)
    BY <1>1, <2>3 DEF PollNothing, peerVars
  <2> QED BY <1>4, <2>1, <2>2, <2>3 DEF PollEvent
<1>5. CASE Begin(w)
  BY <1>1, <1>3, <1>5 DEF Begin, ChooseMessage, peerVars
<1>6. CASE Requeue(w)
  BY <1>1, <1>3, <1>6 DEF Requeue, BackOnQueue
<1>7. CASE End(w)
  BY <1>7, EndEntries
<1> QED BY <1>1, <1>2, <1>4, <1>5, <1>6, <1>7 DEF Worker

LEMMA NextEntries == WakeInv /\ EntryIsConnected /\ [Next]_vars => EntryIsConnected'
<1> SUFFICES ASSUME WakeInv, EntryIsConnected, [Next]_vars PROVE EntryIsConnected'
  OBVIOUS
<1>1. CASE UNCHANGED <<client, clients_>>
  BY <1>1, EntriesKept DEF FdsKept
<1>2. CASE Discovery
  BY <1>1, <1>2, ConnectEntries, ResetEntries DEF Discovery, ConnectFails, Subscribe, Unsubscribe, Break
<1>3. CASE InPut
  <2> DEFINE c == Head(newPendingClients)
  <2>1. UNCHANGED clients_ /\ (client' = client \/ client' = [client EXCEPT ![c].onWriteQueue = TRUE])
    BY <1>3 DEF InPut, PutOnQueue
  <2>2. CASE client' = [client EXCEPT ![c].onWriteQueue = TRUE]
    BY <2>1, <2>2, FieldChanges, EntriesKept
  <2> QED BY <1>1, <2>1, <2>2
<1>4. CASE InLock \/ InUnlock \/ InEnds \/ Stop \/ Broadcast \/ Join \/ UNCHANGED vars
  BY <1>1, <1>4 DEF InLock, InUnlock, InEnds, Stop, Broadcast, Join, vars, serverVars, peerVars
<1> QED BY <1>2, <1>3, <1>4, QueueEntries, WorkerEntries DEF Next

\* An entry of clients_ is connected, so isConnectedTo and the offers that discovery
\* ignores are about a socket that exists (BasePeer.cc:92-107, UdpDiscovery.cc:570).
THEOREM EntryIsConnectedAlways == Spec => []EntryIsConnected
<1>1. Init => EntryIsConnected
  BY DEF Init, PeerInit, EntryIsConnected
<1> QED BY <1>1, InitWake, NextWake, NextEntries, PTL DEF Spec

-----------------------------------------------------------------------------
(***************************************************************************)
(* Sequences without repetition: an element more, one less, two together.  *)
(***************************************************************************)
LEMMA AppendOnce ==
  ASSUME NEW S, NEW q \in Seq(S), NEW c \in S, IsInjective(q), c \notin ToSet(q)
  PROVE  /\ Append(q, c) \in Seq(S) /\ IsInjective(Append(q, c))
         /\ ToSet(Append(q, c)) = ToSet(q) \cup {c}
<1> DEFINE a == Append(q, c)
<1>1. /\ a \in Seq(S) /\ DOMAIN a = 1 .. Len(q) + 1 /\ DOMAIN q = 1 .. Len(q) /\ Len(q) \in Nat
      /\ a[Len(q) + 1] = c /\ \A i \in 1 .. Len(q) : a[i] = q[i]
  OBVIOUS
<1> HIDE DEF a
<1>2. \A i \in DOMAIN a : i = Len(q) + 1 \/ i \in DOMAIN q
  BY <1>1
<1>3. \A i \in DOMAIN q : i \in DOMAIN a /\ a[i] = q[i] /\ a[i] # c
  BY <1>1 DEF ToSet
<1>4. IsInjective(a)
  BY <1>1, <1>2, <1>3 DEF IsInjective
<1>5. ToSet(a) = ToSet(q) \cup {c}
  BY <1>1, <1>2, <1>3 DEF ToSet
<1> QED BY <1>1, <1>4, <1>5 DEF a

LEMMA TailOnce ==
  ASSUME NEW S, NEW q \in Seq(S), q # <<>>, IsInjective(q)
  PROVE  /\ Head(q) \in S /\ Tail(q) \in Seq(S) /\ IsInjective(Tail(q))
         /\ ToSet(q) = {Head(q)} \cup ToSet(Tail(q)) /\ Head(q) \notin ToSet(Tail(q))
<1> DEFINE t == Tail(q)
<1>1. \A i \in DOMAIN t : i + 1 \in DOMAIN q /\ t[i] = q[i + 1] /\ i \in Nat /\ i + 1 # 1
  OBVIOUS
<1>2. 1 \in DOMAIN q /\ Head(q) = q[1]
  OBVIOUS
<1> HIDE DEF t
<1>3. IsInjective(t)
  BY <1>1 DEF IsInjective
<1>4. Head(q) \notin ToSet(t)
  BY <1>1, <1>2 DEF IsInjective, ToSet
<1> QED BY <1>3, <1>4, HeadAndTail DEF t

LEMMA ConcatOnce ==
  ASSUME NEW S, NEW p \in Seq(S), NEW q \in Seq(S), IsInjective(p), IsInjective(q),
         ToSet(p) \cap ToSet(q) = {}
  PROVE  /\ p \o q \in Seq(S) /\ IsInjective(p \o q)
         /\ ToSet(p \o q) = ToSet(p) \cup ToSet(q)
<1> DEFINE a == p \o q
<1>1. /\ a \in Seq(S) /\ Len(a) = Len(p) + Len(q) /\ Len(p) \in Nat /\ Len(q) \in Nat
      /\ DOMAIN a = 1 .. Len(p) + Len(q) /\ DOMAIN p = 1 .. Len(p) /\ DOMAIN q = 1 .. Len(q)
      /\ \A i \in 1 .. Len(p) : a[i] = p[i]
      /\ \A i \in Len(p) + 1 .. Len(p) + Len(q) : a[i] = q[i - Len(p)]
  OBVIOUS
<1> HIDE DEF a
<1>2. \A i \in DOMAIN p : i \in DOMAIN a /\ a[i] = p[i] /\ a[i] \in ToSet(p)
  BY <1>1 DEF ToSet
<1>3. \A i \in DOMAIN a \ DOMAIN p :
        i - Len(p) \in DOMAIN q /\ a[i] = q[i - Len(p)] /\ a[i] \in ToSet(q)
  BY <1>1 DEF ToSet
<1>4. ASSUME NEW i \in DOMAIN q PROVE i + Len(p) \in DOMAIN a /\ a[i + Len(p)] = q[i]
  BY <1>1
<1>5. IsInjective(a)
  <2> SUFFICES ASSUME NEW i \in DOMAIN a, NEW j \in DOMAIN a, a[i] = a[j] PROVE i = j
    BY DEF IsInjective
  <2>1. CASE i \in DOMAIN p /\ j \in DOMAIN p
    BY <2>1, <1>2 DEF IsInjective
  <2>2. CASE i \notin DOMAIN p /\ j \notin DOMAIN p
    <3>1. i - Len(p) = j - Len(p) BY <2>2, <1>3 DEF IsInjective
    <3> QED BY <1>1, <3>1
  <2>3. CASE (i \in DOMAIN p) # (j \in DOMAIN p)
    BY <2>3, <1>2, <1>3
  <2> QED BY <2>1, <2>2, <2>3
<1>6. ToSet(a) = ToSet(p) \cup ToSet(q)
  <2>1. ToSet(a) \subseteq ToSet(p) \cup ToSet(q) BY <1>2, <1>3 DEF ToSet
  <2>2. ToSet(p) \subseteq ToSet(a) BY <1>2 DEF ToSet
  <2>3. ToSet(q) \subseteq ToSet(a) BY <1>4 DEF ToSet
  <2> QED BY <2>1, <2>2, <2>3
<1> QED BY <1>1, <1>5, <1>6 DEF a

-----------------------------------------------------------------------------
(***************************************************************************)
(* The queues hold objects, one of which is behind every descriptor still  *)
(* to be looked at, and a worker that writes has an object in hand.        *)
(***************************************************************************)
Writing == {"write", "send", "sent", "requeue"}

QueueTypes ==
  /\ writeReady_ \in Seq(Objects) /\ writeWaiting_ \in Seq(Objects)
  /\ newWaiting_ \in Seq(Objects)
  /\ currentClientPtr \in [Workers -> Objects \cup {NoClient}]
  /\ \A w \in Workers : pc[w] \in Writing => currentClientPtr[w] \in Objects

Behind == \E S : writefds_ \in Seq(S) /\ Len(writefds_) <= Len(writeWaiting_)

QueueInv == AwakeInv /\ WakeInv /\ QueueTypes /\ Behind /\ OnceOnQueues

LEMMA NoClientIsNone == NoClient \notin Objects
BY DEF NoClient, Objects

LEMMA InitQueue == Init => QueueInv
<1> SUFFICES ASSUME Init PROVE QueueInv
  OBVIOUS
<1>1. QueueTypes
  BY NoClientIsNone DEF Init, QueueTypes, Writing
<1>2. Behind
  BY DEF Init, Behind
<1>3. OnceOnQueues
  <2>1. ToSet(<<>>) = {} /\ IsInjective(<<>>) BY DEF ToSet, IsInjective
  <2>2. InHand = {} /\ OnQueues = {} BY <2>1 DEF Init, InHand, OnQueues
  <2> QED BY <2>1, <2>2 DEF Init, OnceOnQueues
<1> QED BY <1>1, <1>2, <1>3, InitAwake, InitWake DEF QueueInv

(***************************************************************************)
(* Steps that leave the queues and the marks alone.                        *)
(***************************************************************************)
SameQueues == UNCHANGED <<writeReady_, writeWaiting_, newWaiting_, currentClientPtr>>

LEMMA InObjects ==
  ASSUME QueueTypes
  PROVE  /\ InHand \subseteq Objects /\ ToSet(writeReady_) \subseteq Objects
         /\ ToSet(writeWaiting_) \subseteq Objects /\ ToSet(newWaiting_) \subseteq Objects
<1>1. InHand \subseteq Objects BY DEF QueueTypes, InHand
<1>2. ASSUME NEW q \in Seq(Objects) PROVE ToSet(q) \subseteq Objects
  BY <1>2 DEF ToSet
<1> QED BY <1>1, <1>2 DEF QueueTypes

LEMMA SameOnce ==
  ASSUME QueueTypes, OnceOnQueues, SameQueues, MarksKept
  PROVE  OnceOnQueues'
<1>1. InHand' = InHand /\ OnQueues' = OnQueues
  BY DEF SameQueues, InHand, OnQueues
<1>2. \A c \in InHand \cup OnQueues : client'[c].onWriteQueue
  BY InObjects DEF OnceOnQueues, MarksKept, OnQueues
<1> QED BY <1>1, <1>2 DEF OnceOnQueues, SameQueues

(***************************************************************************)
(* A client is put on a queue only if it is not marked: it is on none and  *)
(* in nobody's hands.                                                      *)
(***************************************************************************)
LEMMA PutOnce ==
  ASSUME QueueInv, NEW c \in Objects, OffQueue(c), PutOnQueue(c),
         UNCHANGED <<newWaiting_, currentClientPtr>>
  PROVE  QueueTypes' /\ OnceOnQueues' /\ Len(writeWaiting_') >= Len(writeWaiting_)
<1> USE DEF QueueInv, QueueTypes, OnceOnQueues
<1>1. c \notin InHand \cup OnQueues
  BY DEF OffQueue
<1>2. InHand' = InHand
  BY DEF InHand
<1>3. c \notin ToSet(writeReady_) /\ c \notin ToSet(writeWaiting_) /\ c \notin ToSet(newWaiting_)
  BY <1>1 DEF OnQueues
<1>4. client'[c].onWriteQueue /\ \A d \in Objects \ {c} : client'[d] = client[d]
  <2>1. client' = [client EXCEPT ![c].onWriteQueue = TRUE] BY DEF PutOnQueue
  <2>2. client'[c] = [client[c] EXCEPT !.onWriteQueue = TRUE] BY <2>1 DEF WakeInv
  <2>3. PendingOK(client[c]) BY DEF WakeInv
  <2> QED BY <2>1, <2>2, <2>3, MarkOK DEF WakeInv
<1>5. OnQueues' = OnQueues \cup {c} => \A d \in InHand' \cup OnQueues' : client'[d].onWriteQueue
  BY <1>2, <1>4, InObjects DEF OnQueues
<1>6. pc' = pc \/ \E w \in Workers : pc' = [pc EXCEPT ![w] = "lock"]
  BY DEF PutOnQueue, Signal, Sleeping
<1>7. \A w \in Workers : pc'[w] \in Writing => pc[w] \in Writing
  BY <1>6 DEF Writing, AwakeInv, PcInv
<1>8. CASE writeReady_' = Append(writeReady_, c) /\ UNCHANGED writeWaiting_
  <2>1. /\ writeReady_' \in Seq(Objects) /\ IsInjective(writeReady_')
        /\ ToSet(writeReady_') = ToSet(writeReady_) \cup {c}
    BY <1>3, <1>8, AppendOnce
  <2>2. OnQueues' = OnQueues \cup {c} BY <1>8, <2>1 DEF OnQueues
  <2>3. QueueTypes' BY <1>7, <1>8, <2>1
  <2>4. OnceOnQueues' BY <1>1, <1>2, <1>3, <1>5, <1>8, <2>1, <2>2
  <2> QED BY <1>8, <2>3, <2>4
<1>9. CASE writeWaiting_' = Append(writeWaiting_, c) /\ UNCHANGED writeReady_
  <2>1. /\ writeWaiting_' \in Seq(Objects) /\ IsInjective(writeWaiting_')
        /\ ToSet(writeWaiting_') = ToSet(writeWaiting_) \cup {c}
    BY <1>3, <1>9, AppendOnce
  <2>2. OnQueues' = OnQueues \cup {c} BY <1>9, <2>1 DEF OnQueues
  <2>3. QueueTypes' BY <1>7, <1>9, <2>1
  <2>4. OnceOnQueues' BY <1>1, <1>2, <1>3, <1>5, <1>9, <2>1, <2>2
  <2> QED BY <1>9, <2>3, <2>4
<1> QED BY <1>8, <1>9 DEF PutOnQueue

(***************************************************************************)
(* A worker takes a client off the queue of those that are ready.          *)
(***************************************************************************)
LEMMA TakeOnce ==
  ASSUME QueueInv, NEW w \in Workers, TakeReady(w)
  PROVE  QueueTypes' /\ OnceOnQueues'
<1> USE DEF QueueInv, QueueTypes, OnceOnQueues
<1> DEFINE c == Head(writeReady_)
<1>1. /\ currentClientPtr' = [currentClientPtr EXCEPT ![w] = c]
      /\ writeReady_' = Tail(writeReady_) /\ writeReady_ # <<>>
      /\ pc' = [pc EXCEPT ![w] = "write"] /\ client' = client
      /\ UNCHANGED <<writeWaiting_, newWaiting_>>
  BY DEF TakeReady, peerVars
<1>2. /\ c \in Objects /\ writeReady_' \in Seq(Objects) /\ IsInjective(writeReady_')
      /\ ToSet(writeReady_) = {c} \cup ToSet(writeReady_') /\ c \notin ToSet(writeReady_')
  BY <1>1, TailOnce
<1> HIDE DEF c
<1>3. c \notin InHand /\ c # NoClient
  BY <1>2, NoClientIsNone DEF OnQueues
<1>4. \A v \in Workers \ {w} : currentClientPtr'[v] = currentClientPtr[v] /\ currentClientPtr[v] # c
  BY <1>1, <1>3 DEF InHand
<1>5. currentClientPtr'[w] = c
  BY <1>1
<1>6. InHand' \subseteq InHand \cup {c}
  BY <1>4, <1>5 DEF InHand
<1>7. OnQueues = OnQueues' \cup {c} /\ c \notin OnQueues'
  BY <1>1, <1>2 DEF OnQueues
<1>8. \A v, u \in Workers :
        currentClientPtr'[v] = currentClientPtr'[u] => v = u \/ currentClientPtr'[u] = NoClient
  BY <1>4, <1>5
<1>9. QueueTypes'
  <2>1. currentClientPtr' \in [Workers -> Objects \cup {NoClient}] BY <1>1, <1>2
  <2>2. \A v \in Workers : pc'[v] \in Writing => currentClientPtr'[v] \in Objects
    BY <1>1, <1>2, <1>4, <1>5 DEF AwakeInv, PcInv
  <2> QED BY <1>1, <1>2, <2>1, <2>2
<1>10. OnceOnQueues'
  BY <1>1, <1>2, <1>6, <1>7, <1>8
<1> QED BY <1>9, <1>10

(***************************************************************************)
(* The poller takes a client off the queue of those that wait, and puts it *)
(* on another one or lets it go.                                           *)
(***************************************************************************)
LEMMA PollOnce ==
  ASSUME QueueInv, NEW w \in Workers, PollEvent(w)
  PROVE  QueueTypes' /\ Behind' /\ OnceOnQueues'
<1> USE DEF QueueInv, QueueTypes, OnceOnQueues
<1> DEFINE c == Head(writeWaiting_)
<1>1. /\ pc[w] = "events" /\ writefds_ # <<>>
      /\ writefds_' = Tail(writefds_) /\ writeWaiting_' = Tail(writeWaiting_)
      /\ UNCHANGED <<pc, currentClientPtr>>
  BY DEF PollEvent
<1>2. PICK S : writefds_ \in Seq(S) /\ Len(writefds_) <= Len(writeWaiting_)
  BY DEF Behind
<1>3. writeWaiting_ # <<>>
  BY <1>1, <1>2
<1>4. Behind'
  BY <1>1, <1>2, <1>3 DEF Behind
<1>5. /\ c \in Objects /\ writeWaiting_' \in Seq(Objects) /\ IsInjective(writeWaiting_')
      /\ ToSet(writeWaiting_) = {c} \cup ToSet(writeWaiting_') /\ c \notin ToSet(writeWaiting_')
  BY <1>1, <1>3, TailOnce
<1>6. MarksKept
  BY <1>1, WorkerWake DEF Worker, Requeue
<1>7. InHand' = InHand
  BY <1>1 DEF InHand
<1>8. c \notin InHand /\ c \notin ToSet(writeReady_) /\ c \notin ToSet(newWaiting_)
  BY <1>5 DEF OnQueues
<1>9. OnQueues' \subseteq OnQueues => \A d \in InHand' \cup OnQueues' : client'[d].onWriteQueue
  BY <1>6, <1>7, InObjects DEF OnQueues, MarksKept
<1> HIDE DEF c
<1>10. CASE UNCHANGED <<writeReady_, newWaiting_>>
  <2>1. OnQueues' \subseteq OnQueues BY <1>5, <1>10 DEF OnQueues
  <2>2. QueueTypes' BY <1>1, <1>5, <1>10
  <2>3. OnceOnQueues' BY <1>1, <1>5, <1>7, <1>9, <1>10, <2>1
  <2> QED BY <1>4, <2>2, <2>3
<1>11. CASE writeReady_' = Append(writeReady_, c) /\ UNCHANGED newWaiting_
  <2>1. /\ writeReady_' \in Seq(Objects) /\ IsInjective(writeReady_')
        /\ ToSet(writeReady_') = ToSet(writeReady_) \cup {c}
    BY <1>5, <1>8, <1>11, AppendOnce
  <2>2. OnQueues' \subseteq OnQueues BY <1>5, <1>11, <2>1 DEF OnQueues
  <2>3. QueueTypes' BY <1>1, <1>5, <1>11, <2>1
  <2>4. OnceOnQueues' BY <1>1, <1>5, <1>7, <1>8, <1>9, <1>11, <2>1, <2>2
  <2> QED BY <1>4, <2>3, <2>4
<1>12. CASE newWaiting_' = Append(newWaiting_, c) /\ UNCHANGED writeReady_
  <2>1. /\ newWaiting_' \in Seq(Objects) /\ IsInjective(newWaiting_')
        /\ ToSet(newWaiting_') = ToSet(newWaiting_) \cup {c}
    BY <1>5, <1>8, <1>12, AppendOnce
  <2>2. OnQueues' \subseteq OnQueues BY <1>5, <1>12, <2>1 DEF OnQueues
  <2>3. QueueTypes' BY <1>1, <1>5, <1>12, <2>1
  <2>4. OnceOnQueues' BY <1>1, <1>5, <1>7, <1>8, <1>9, <1>12, <2>1, <2>2
  <2> QED BY <1>4, <2>3, <2>4
<1> QED BY <1>10, <1>11, <1>12 DEF PollEvent, PollError, PollOut, PollNothing, c

(***************************************************************************)
(* Those that still wait go behind those that were added meanwhile.        *)
(***************************************************************************)
LEMMA EndPollOnce ==
  ASSUME QueueInv, NEW w \in Workers, EndPoll(w)
  PROVE  QueueTypes' /\ Behind' /\ OnceOnQueues'
<1> USE DEF QueueInv, QueueTypes, OnceOnQueues
<1>1. /\ writeWaiting_' = writeWaiting_ \o newWaiting_ /\ newWaiting_' = <<>>
      /\ UNCHANGED <<writeReady_, writefds_, currentClientPtr, client>> /\ writefds_ = <<>>
  BY DEF EndPoll, peerVars
<1>2. \A v \in Workers : pc'[v] \in Writing => pc[v] \in Writing
  BY DEF EndPoll, LoopHead, AwakeInv, PcInv, Writing
<1>3. /\ writeWaiting_' \in Seq(Objects) /\ IsInjective(writeWaiting_')
      /\ ToSet(writeWaiting_') = ToSet(writeWaiting_) \cup ToSet(newWaiting_)
  BY <1>1, ConcatOnce
<1>4. ToSet(newWaiting_') = {} /\ IsInjective(newWaiting_') /\ newWaiting_' \in Seq(Objects)
  BY <1>1 DEF ToSet, IsInjective
<1>5. InHand' = InHand /\ OnQueues' = OnQueues
  BY <1>1, <1>3, <1>4 DEF InHand, OnQueues
<1>6. QueueTypes'
  BY <1>1, <1>2, <1>3, <1>4
<1>7. Behind'
  <2>1. writefds_' \in Seq({}) /\ Len(writefds_') = 0 BY <1>1
  <2>2. Len(writeWaiting_') \in Nat BY <1>3
  <2> QED BY <2>1, <2>2 DEF Behind
<1>8. OnceOnQueues'
  BY <1>1, <1>3, <1>4, <1>5
<1> QED BY <1>6, <1>7, <1>8

(***************************************************************************)
(* A worker gives back the client it has in hand.                          *)
(***************************************************************************)
LEMMA RequeueOnce ==
  ASSUME QueueInv, NEW w \in Workers, Requeue(w)
  PROVE  QueueTypes' /\ OnceOnQueues' /\ Len(writeWaiting_') >= Len(writeWaiting_)
<1> USE DEF QueueInv, QueueTypes, OnceOnQueues
<1> DEFINE c == currentClientPtr[w]
<1>1. /\ pc[w] = "requeue" /\ UNCHANGED newWaiting_
      /\ currentClientPtr' = [currentClientPtr EXCEPT ![w] = NoClient]
  BY DEF Requeue
<1>2. c \in Objects /\ c \in InHand /\ c # NoClient
  BY <1>1, NoClientIsNone DEF Writing, InHand
<1>3. /\ c \notin ToSet(writeReady_) /\ c \notin ToSet(writeWaiting_)
      /\ c \notin ToSet(newWaiting_) /\ client[c].onWriteQueue
  BY <1>2 DEF OnQueues
<1>4. /\ currentClientPtr'[w] = NoClient
      /\ \A v \in Workers \ {w} : currentClientPtr'[v] = currentClientPtr[v] /\ currentClientPtr[v] # c
  BY <1>1, <1>2
<1>5. InHand' \subseteq InHand /\ c \notin InHand'
  BY <1>2, <1>4 DEF InHand
<1>6. \A v, u \in Workers :
        currentClientPtr'[v] = currentClientPtr'[u] => v = u \/ currentClientPtr'[u] = NoClient
  BY <1>4
<1>7. \A v \in Workers : pc'[v] \in Writing => v # w /\ pc[v] \in Writing
  BY <1>1 DEF Requeue, LoopHead, AwakeInv, PcInv, Writing
<1>8. /\ currentClientPtr' \in [Workers -> Objects \cup {NoClient}]
      /\ \A v \in Workers : pc'[v] \in Writing => currentClientPtr'[v] \in Objects
  BY <1>1, <1>4, <1>7
<1> HIDE DEF c
<1>9. CASE writeReady_' = Append(writeReady_, c) /\ UNCHANGED <<client, writeWaiting_>>
  <2>1. /\ writeReady_' \in Seq(Objects) /\ IsInjective(writeReady_')
        /\ ToSet(writeReady_') = ToSet(writeReady_) \cup {c}
    BY <1>2, <1>3, <1>9, AppendOnce
  <2>2. OnQueues' = OnQueues \cup {c} BY <1>1, <1>9, <2>1 DEF OnQueues
  <2>3. QueueTypes' BY <1>1, <1>8, <1>9, <2>1
  <2>4. OnceOnQueues' BY <1>1, <1>3, <1>5, <1>6, <1>9, <2>1, <2>2
  <2> QED BY <1>9, <2>3, <2>4
<1>10. CASE writeWaiting_' = Append(writeWaiting_, c) /\ UNCHANGED <<client, writeReady_>>
  <2>1. /\ writeWaiting_' \in Seq(Objects) /\ IsInjective(writeWaiting_')
        /\ ToSet(writeWaiting_') = ToSet(writeWaiting_) \cup {c}
    BY <1>2, <1>3, <1>10, AppendOnce
  <2>2. OnQueues' = OnQueues \cup {c} BY <1>1, <1>10, <2>1 DEF OnQueues
  <2>3. QueueTypes' BY <1>1, <1>8, <1>10, <2>1
  <2>4. OnceOnQueues' BY <1>1, <1>3, <1>5, <1>6, <1>10, <2>1, <2>2
  <2> QED BY <1>10, <2>3, <2>4
<1>11. CASE /\ client' = [client EXCEPT ![c].onWriteQueue = FALSE]
            /\ UNCHANGED <<writeReady_, writeWaiting_>>
  <2>1. OnQueues' = OnQueues /\ c \notin OnQueues'
    BY <1>1, <1>3, <1>11 DEF OnQueues
  <2>2. \A d \in Objects \ {c} : client'[d] = client[d]
    BY <1>11 DEF WakeInv
  <2>3. \A d \in InHand' \cup OnQueues' : client'[d].onWriteQueue
    BY <1>5, <2>1, <2>2, InObjects DEF OnQueues
  <2>4. QueueTypes' BY <1>1, <1>8, <1>11
  <2>5. OnceOnQueues' BY <1>1, <1>5, <1>6, <1>11, <2>1, <2>3
  <2> QED BY <1>11, <2>4, <2>5
<1> QED BY <1>9, <1>10, <1>11 DEF Requeue, BackOnQueue, c

(***************************************************************************)
(* The steps that add a descriptor or change one.                          *)
(***************************************************************************)
LEMMA DescriptorsAreSeq ==
  ASSUME NEW n \in Nat, NEW f, f = [i \in 1 .. n |-> f[i]]
  PROVE  \E S : f \in Seq(S) /\ Len(f) = n
<1> DEFINE S == {f[i] : i \in 1 .. n}
<1>1. f \in [1 .. n -> S] OBVIOUS
<1>2. f \in Seq(S) /\ Len(f) = n BY <1>1
<1> QED BY <1>2

LEMMA FdsBehind ==
  ASSUME QueueInv, NEW w \in Workers,
         StartPoll(w) \/ EnterPoll(w) \/ PollTimesOut(w) \/ PollReturns(w)
  PROVE  Behind'
<1> USE DEF QueueInv, QueueTypes
<1>1. PICK S : writefds_ \in Seq(S) /\ Len(writefds_) <= Len(writeWaiting_)
  BY DEF Behind
<1>2. /\ writeWaiting_' = writeWaiting_ /\ Len(writeWaiting_) \in Nat
      /\ Len(writefds_) \in Nat /\ DOMAIN writefds_ = 1 .. Len(writefds_)
  BY <1>1 DEF StartPoll, EnterPoll, PollTimesOut, PollReturns
<1>3. \E n \in Nat : n <= Len(writeWaiting_) /\ writefds_' = [i \in 1 .. n |-> writefds_'[i]]
  <2>1. CASE StartPoll(w)   BY <1>2, <2>1 DEF StartPoll
  <2>2. CASE EnterPoll(w)   BY <1>1, <1>2, <2>2 DEF EnterPoll
  <2>3. CASE PollTimesOut(w)
    <3>1. writefds_' = [i \in 1 .. 0 |-> writefds_'[i]] BY <2>3 DEF PollTimesOut
    <3> QED BY <1>2, <3>1
  <2>4. CASE PollReturns(w) BY <1>1, <1>2, <2>4 DEF PollReturns
  <2> QED BY <2>1, <2>2, <2>3, <2>4
<1> QED BY <1>2, <1>3, DescriptorsAreSeq DEF Behind

(***************************************************************************)
(* Every step keeps QueueInv.                                              *)
(***************************************************************************)
LEMMA SameStep ==
  ASSUME QueueInv, SameQueues, MarksKept,
         \A w \in Workers : pc'[w] \in Writing => pc[w] \in Writing
  PROVE  QueueTypes' /\ OnceOnQueues'
BY SameOnce DEF QueueInv, QueueTypes, SameQueues

LEMMA WorkerQueue ==
  ASSUME QueueInv, NEW w \in Workers, Worker(w)
  PROVE  QueueTypes' /\ Behind' /\ OnceOnQueues'
<1>1. CASE TakeReady(w)
  <2>1. Behind' BY <1>1 DEF TakeReady, QueueInv, Behind
  <2> QED BY <1>1, <2>1, TakeOnce
<1>2. CASE PollEvent(w) BY <1>2, PollOnce
<1>3. CASE EndPoll(w)   BY <1>3, EndPollOnce
<1>4. CASE Requeue(w)
  <2>1. QueueTypes' /\ OnceOnQueues' /\ Len(writeWaiting_') >= Len(writeWaiting_)
        /\ writefds_' = writefds_
    BY <1>4, RequeueOnce DEF Requeue
  <2>2. Behind' BY <2>1 DEF QueueInv, QueueTypes, Behind
  <2> QED BY <2>1, <2>2
<1>5. CASE \/ Lock(w) \/ StartPoll(w) \/ Wait(w) \/ EnterPoll(w) \/ PollTimesOut(w)
           \/ PollReturns(w) \/ LockPolled(w) \/ Begin(w) \/ Send(w) \/ End(w)
  <2>1. SameQueues /\ ~Requeue(w)
    BY <1>5 DEF Lock, StartPoll, Wait, EnterPoll, PollTimesOut, PollReturns, LockPolled, Begin,
                Send, End, Requeue, SameQueues, queueVars
  <2>2. \A v \in Workers : pc'[v] \in Writing => pc[v] \in Writing
    <3>1. pc \in [Workers -> PcValues] BY DEF QueueInv, AwakeInv, PcInv
    <3> QED BY <1>5, <3>1 DEF Lock, LoopHead, StartPoll, Wait, EnterPoll, PollTimesOut,
                PollReturns, LockPolled, Begin, Send, End, Writing
  <2>3. QueueTypes' /\ OnceOnQueues'
    BY <2>1, <2>2, WorkerWake, SameStep DEF QueueInv
  <2>4. Behind'
    <3>1. CASE StartPoll(w) \/ EnterPoll(w) \/ PollTimesOut(w) \/ PollReturns(w)
      BY <3>1, FdsBehind
    <3>2. CASE Lock(w) \/ Wait(w) \/ LockPolled(w) \/ Begin(w) \/ Send(w) \/ End(w)
      BY <3>2 DEF Lock, Wait, LockPolled, Begin, Send, End, queueVars, QueueInv, Behind
    <3> QED BY <1>5, <3>1, <3>2
  <2> QED BY <2>3, <2>4
<1> QED BY <1>1, <1>2, <1>3, <1>4, <1>5 DEF Worker

LEMMA NextQueue == QueueInv /\ [Next]_vars => QueueInv'
<1> SUFFICES ASSUME QueueInv, [Next]_vars PROVE QueueTypes' /\ Behind' /\ OnceOnQueues'
  BY NextAwake, NextWake DEF QueueInv
<1>1. CASE InPut
  <2> DEFINE c == Head(newPendingClients)
  <2>1. c \in Objects
    BY <1>1, HeadAndTail DEF InPut, QueueInv, WakeInv
  <2>2. UNCHANGED <<newWaiting_, currentClientPtr, writefds_>>
    BY <1>1 DEF InPut
  <2>3. CASE OffQueue(c) /\ PutOnQueue(c)
    <3>1. QueueTypes' /\ OnceOnQueues' /\ Len(writeWaiting_') >= Len(writeWaiting_)
      BY <2>1, <2>2, <2>3, PutOnce
    <3>2. Behind' BY <2>2, <3>1 DEF QueueInv, QueueTypes, Behind
    <3> QED BY <3>1, <3>2
  <2>4. CASE UNCHANGED <<client, writeReady_, writeWaiting_, pc>>
    <3>1. QueueTypes' /\ OnceOnQueues'
      BY <2>2, <2>4, SameStep DEF SameQueues, MarksKept
    <3>2. Behind' BY <2>2, <2>4 DEF QueueInv, Behind
    <3> QED BY <3>1, <3>2
  <2> QED BY <1>1, <2>3, <2>4 DEF InPut
<1>2. ASSUME NEW w \in Workers, Worker(w)
      PROVE  QueueTypes' /\ Behind' /\ OnceOnQueues'
  BY <1>2, WorkerQueue
<1>3. CASE \/ Discovery \/ InQueue \/ InLock \/ InUnlock \/ InEnds
           \/ Stop \/ Broadcast \/ Join \/ UNCHANGED vars
  <2>1. SameQueues /\ writefds_' = writefds_
    BY <1>3 DEF Discovery, InQueue, InLock, InUnlock, InEnds, Stop, Broadcast, Join, vars,
                serverVars, queueVars, SameQueues
  <2>2. MarksKept
    <3>1. CASE Discovery BY <3>1, ControlStep DEF QueueInv
    <3>2. CASE InQueue   BY <3>2, QueueStep DEF QueueInv
    <3>3. CASE client' = client BY <3>3 DEF MarksKept
    <3> QED BY <1>3, <3>1, <3>2, <3>3 DEF InLock, InUnlock, InEnds, Stop, Broadcast, Join,
                vars, peerVars
  <2>3. \A w \in Workers : pc'[w] \in Writing => pc[w] \in Writing
    BY <1>3 DEF Discovery, InQueue, InLock, InUnlock, InEnds, Stop, Broadcast, Join, vars,
                serverVars, Writing
  <2>4. QueueTypes' /\ OnceOnQueues' BY <2>1, <2>2, <2>3, SameStep
  <2>5. Behind' BY <2>1 DEF SameQueues, QueueInv, Behind
  <2> QED BY <2>4, <2>5
<1> QED BY <1>1, <1>2, <1>3 DEF Next

(***************************************************************************)
(* Two workers never write to one client, and none is queued twice         *)
(* (Server.cc:258, 384), whatever connects, fails or is queued meanwhile.  *)
(***************************************************************************)
THEOREM OnceOnQueuesAlways == Spec => []OnceOnQueues
<1>1. QueueInv => OnceOnQueues BY DEF QueueInv
<1> QED BY <1>1, InitQueue, NextQueue, PTL DEF Spec

-----------------------------------------------------------------------------
(***************************************************************************)
(* PollKeepsPlaces, of one step.                                           *)
(***************************************************************************)
PlacesKept ==
  \A w \in Workers, i \in DOMAIN writefds_ :
    pc[w] \in {"enter", "poll", "polled"} =>
      i \in DOMAIN writeWaiting_' /\ writeWaiting_'[i] = writeWaiting_[i]

LEMMA NextPlaces == QueueInv /\ [Next]_vars => PlacesKept
<1> SUFFICES ASSUME QueueInv, [Next]_vars, NEW w \in Workers, NEW i \in DOMAIN writefds_,
                    pc[w] \in {"enter", "poll", "polled"}
             PROVE  i \in DOMAIN writeWaiting_' /\ writeWaiting_'[i] = writeWaiting_[i]
  BY DEF PlacesKept
<1>1. i \in 1 .. Len(writeWaiting_) /\ writeWaiting_ \in Seq(Objects)
  BY DEF QueueInv, Behind, QueueTypes
<1>2. CASE writeWaiting_' = writeWaiting_
  BY <1>1, <1>2
<1>3. CASE \E c \in Objects : writeWaiting_' = Append(writeWaiting_, c)
  BY <1>1, <1>3
<1>4. ASSUME NEW v \in Workers, Worker(v)
      PROVE  \/ writeWaiting_' = writeWaiting_
             \/ \E c \in Objects : writeWaiting_' = Append(writeWaiting_, c)
  <2>1. ~PollEvent(v) /\ ~EndPoll(v)
    BY DEF QueueInv, AwakeInv, PcInv, Polling, PollEvent, EndPoll
  <2>2. CASE Requeue(v)
    BY <2>2 DEF Requeue, BackOnQueue, QueueInv, QueueTypes, Writing
  <2>3. CASE \/ Lock(v) \/ StartPoll(v) \/ TakeReady(v) \/ Wait(v) \/ EnterPoll(v)
             \/ PollTimesOut(v) \/ PollReturns(v) \/ LockPolled(v) \/ Begin(v)
             \/ Send(v) \/ End(v)
    BY <2>3 DEF Lock, StartPoll, TakeReady, Wait, EnterPoll, PollTimesOut, PollReturns,
                LockPolled, Begin, Send, End, queueVars
  <2> QED BY <1>4, <2>1, <2>2, <2>3 DEF Worker
<1>5. CASE InPut
  <2>1. Head(newPendingClients) \in Objects
    BY <1>5, HeadAndTail DEF InPut, QueueInv, WakeInv
  <2> QED BY <1>2, <1>3, <1>5, <2>1 DEF InPut, PutOnQueue
<1>6. CASE \/ Discovery \/ InQueue \/ InLock \/ InUnlock \/ InEnds
           \/ Stop \/ Broadcast \/ Join \/ UNCHANGED vars
  BY <1>2, <1>6 DEF Discovery, InQueue, InLock, InUnlock, InEnds, Stop, Broadcast, Join, vars,
                    serverVars, queueVars
<1> QED BY <1>2, <1>3, <1>4, <1>5, <1>6 DEF Next

(***************************************************************************)
(* The clients a worker polls stay where they are in writeWaiting_ while   *)
(* it is in poll() without a lock, so that the position of a revents tells *)
(* its client (Server.cc:416-441).                                         *)
(***************************************************************************)
THEOREM PollKeepsPlacesAlways == Spec => PollKeepsPlaces
<1>1. Spec => [][PlacesKept]_vars
  BY InitQueue, NextQueue, NextPlaces, PTL DEF Spec
<1>2. [][PlacesKept]_vars => PollKeepsPlaces
  BY PTL DEF PollKeepsPlaces, PlacesKept
<1> QED BY <1>1, <1>2
=============================================================================
