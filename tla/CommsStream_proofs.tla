-------------------------- MODULE CommsStream_proofs --------------------------
(***************************************************************************)
(* Proofs about what the SimpleComms server sends on a connection: every   *)
(* message once and in order, as long as no descriptor is closed and given *)
(* to another connection under the hands of a worker.                      *)
(***************************************************************************)
EXTENDS CommsServer_proofs, WellFoundedInduction

-----------------------------------------------------------------------------
(***************************************************************************)
(* Who holds writeQueuesMutex_, and where that says each thread is.        *)
(***************************************************************************)
HoldsInv ==
  /\ running_ \in {"running", "stopping", "crashed"}
  /\ writeQueuesMutex_ \in Workers \cup {Free, Input}
  /\ inThread \in {"read", "dispatch", "put", "done"}
  /\ inThread = "put" <=> writeQueuesMutex_ = Input
  /\ \A w \in Workers : writeQueuesMutex_ = w <=> pc[w] \in {"loop", "events"}
  /\ \A w \in Workers : currentClientPtr[w] # NoClient <=> pc[w] \in Writing

LEMMA InitHolds == Init => HoldsInv
BY WorkersAssumption DEF Init, HoldsInv, Writing, Input, Free

LEMMA LoopHeadHolds ==
  ASSUME QueueInv, HoldsInv, NEW w \in Workers, LoopHead(w),
         writeQueuesMutex_ \in {Free, w}, UNCHANGED <<running_, inThread>>,
         currentClientPtr' = [currentClientPtr EXCEPT ![w] = NoClient] \/
           (UNCHANGED currentClientPtr /\ pc[w] \notin Writing)
  PROVE  HoldsInv'
<1>0. /\ pc \in [Workers -> PcValues] /\ Free \notin Workers /\ Input \notin Workers /\ Free # Input
      /\ currentClientPtr = [v \in Workers |-> currentClientPtr[v]]
  BY WorkersAssumption DEF QueueInv, AwakeInv, PcInv, QueueTypes, Free, Input
<1>1. /\ pc'[w] \in {"loop", "done"} /\ \A v \in Workers \ {w} : pc'[v] = pc[v]
      /\ writeQueuesMutex_' = w <=> pc'[w] = "loop"
      /\ writeQueuesMutex_' \in {Free, w}
  BY <1>0 DEF LoopHead
<1>2. inThread # "put"
  BY <1>0 DEF HoldsInv
<1>3. \A v \in Workers \ {w} : currentClientPtr'[v] = currentClientPtr[v]
  BY <1>0
<1>4. currentClientPtr'[w] = NoClient
  BY <1>0 DEF HoldsInv
<1> QED BY <1>0, <1>1, <1>2, <1>3, <1>4 DEF HoldsInv, Writing

LEMMA WorkerHolds ==
  ASSUME QueueInv, HoldsInv, NEW w \in Workers, Worker(w)
  PROVE  HoldsInv'
<1>0. /\ pc \in [Workers -> PcValues] /\ Free \notin Workers /\ Input \notin Workers /\ Free # Input
      /\ currentClientPtr = [v \in Workers |-> currentClientPtr[v]]
      /\ QueueTypes /\ NoClient \notin Objects
  BY WorkersAssumption, NoClientIsNone DEF QueueInv, AwakeInv, PcInv, QueueTypes, Free, Input
<1>1. CASE Lock(w)
  BY <1>1, LoopHeadHolds DEF Lock, Writing
<1>2. CASE LockPolled(w)
  <2>1. CASE LoopHead(w) /\ writefds_ = <<>>
    BY <1>2, <2>1, LoopHeadHolds DEF LockPolled, Writing
  <2>2. CASE writeQueuesMutex_' = w /\ pc' = [pc EXCEPT ![w] = "events"]
    <3>1. /\ pc'[w] = "events" /\ \A v \in Workers \ {w} : pc'[v] = pc[v]
          /\ pc[w] = "polled" /\ writeQueuesMutex_ = Free
          /\ UNCHANGED <<running_, inThread, currentClientPtr>>
      BY <1>0, <1>2, <2>2 DEF LockPolled
    <3> QED BY <1>0, <2>2, <3>1 DEF HoldsInv, Writing
  <2> QED BY <1>2, <2>1, <2>2 DEF LockPolled
<1>3. CASE EndPoll(w)
  BY <1>3, LoopHeadHolds DEF EndPoll, Writing, HoldsInv
<1>4. CASE Requeue(w)
  BY <1>4, LoopHeadHolds DEF Requeue
<1>5. CASE StartPoll(w) \/ Wait(w)
  <2>1. /\ pc'[w] \in {"enter", "wait"} /\ \A v \in Workers \ {w} : pc'[v] = pc[v]
        /\ pc[w] = "loop" /\ writeQueuesMutex_' = Free
        /\ UNCHANGED <<running_, inThread, currentClientPtr>>
    BY <1>0, <1>5 DEF StartPoll, Wait
  <2> QED BY <1>0, <2>1 DEF HoldsInv, Writing
<1>6. CASE TakeReady(w)
  <2>1. /\ pc'[w] = "write" /\ \A v \in Workers \ {w} : pc'[v] = pc[v]
        /\ pc[w] = "loop" /\ writeQueuesMutex_' = Free /\ UNCHANGED <<running_, inThread>>
        /\ \A v \in Workers \ {w} : currentClientPtr'[v] = currentClientPtr[v]
    BY <1>0, <1>6 DEF TakeReady
  <2>2. currentClientPtr'[w] \in Objects
    BY <1>0, <1>6 DEF TakeReady, QueueTypes
  <2> QED BY <1>0, <2>1, <2>2 DEF HoldsInv, Writing
<1>7. CASE \/ EnterPoll(w) \/ PollTimesOut(w) \/ PollReturns(w) \/ PollEvent(w)
           \/ Begin(w) \/ Send(w) \/ End(w)
  <2>1. /\ \/ pc' = pc
           \/ pc[w] = "enter" /\ pc' = [pc EXCEPT ![w] = "poll"]
           \/ pc[w] = "poll" /\ pc' = [pc EXCEPT ![w] = "polled"]
           \/ pc[w] \in Writing /\ \E s \in Writing : pc' = [pc EXCEPT ![w] = s]
        /\ running_' \in {running_, "crashed"}
        /\ UNCHANGED <<inThread, writeQueuesMutex_, currentClientPtr>>
    BY <1>7 DEF EnterPoll, PollTimesOut, PollReturns, PollEvent, Begin, Send, End, Writing
  <2>2. /\ \A v \in Workers \ {w} : pc'[v] = pc[v]
        /\ pc'[w] \in {"loop", "events"} <=> pc[w] \in {"loop", "events"}
        /\ pc'[w] \in Writing <=> pc[w] \in Writing
    BY <1>0, <2>1 DEF Writing
  <2> QED BY <2>1, <2>2 DEF HoldsInv
<1> QED BY <1>1, <1>2, <1>3, <1>4, <1>5, <1>6, <1>7 DEF Worker

LEMMA NextHolds == QueueInv /\ HoldsInv /\ [Next]_vars => HoldsInv'
<1> SUFFICES ASSUME QueueInv, HoldsInv, [Next]_vars PROVE HoldsInv'
  OBVIOUS
<1>0. /\ pc \in [Workers -> PcValues] /\ Free \notin Workers /\ Input \notin Workers /\ Free # Input
  BY WorkersAssumption DEF QueueInv, AwakeInv, PcInv, Free, Input
<1>1. CASE /\ UNCHANGED currentClientPtr /\ running_' \in {running_, "stopping"}
           /\ pc' = pc \/ \A w \in Workers : pc'[w] = pc[w] \/ (pc[w] = "wait" /\ pc'[w] = "lock")
           /\ \/ UNCHANGED <<inThread, writeQueuesMutex_>>
              \/ inThread' # "put" /\ inThread # "put" /\ UNCHANGED writeQueuesMutex_
              \/ inThread' = "put" /\ writeQueuesMutex_ = Free /\ writeQueuesMutex_' = Input
              \/ inThread = "put" /\ inThread' # "put" /\ writeQueuesMutex_' = Free
           /\ inThread' \in {"read", "dispatch", "put", "done"}
  <2>1. \A w \in Workers : /\ pc'[w] \in {"loop", "events"} <=> pc[w] \in {"loop", "events"}
                           /\ pc'[w] \in Writing <=> pc[w] \in Writing
    BY <1>1 DEF Writing
  <2> QED BY <1>0, <1>1, <2>1 DEF HoldsInv
<1>2. CASE InPut
  <2>1. pc' = pc \/ \A w \in Workers : pc'[w] = pc[w] \/ (pc[w] = "wait" /\ pc'[w] = "lock")
    BY <1>0, <1>2 DEF InPut, PutOnQueue, Signal, Sleeping
  <2> QED BY <1>1, <1>2, <2>1 DEF InPut, HoldsInv
<1>3. CASE Broadcast
  BY <1>0, <1>1, <1>3 DEF Broadcast, HoldsInv
<1>4. CASE Discovery \/ InQueue \/ InLock \/ InUnlock \/ InEnds \/ Stop \/ Join \/ UNCHANGED vars
  BY <1>1, <1>4 DEF Discovery, InQueue, InLock, InUnlock, InEnds, Stop, Join, vars, serverVars, HoldsInv
<1> QED BY <1>2, <1>3, <1>4, WorkerHolds DEF Next

-----------------------------------------------------------------------------
(***************************************************************************)
(* What is left of an outBox when the old messages at its front have been  *)
(* pruned is the end of it.                                                *)
(***************************************************************************)
LEMMA Least ==
  ASSUME NEW T, T \subseteq Nat, T # {}
  PROVE  \E m \in T : \A n \in T : m <= n
<1> DEFINE R == OpToRel(<, Nat)
<1>1. IsWellFoundedOn(R, Nat)
  BY NatLessThanWellFounded
<1>2. \A n, m \in Nat : <<n, m>> \in R <=> n < m
  <2>1. R = {p \in Nat \X Nat : p[1] < p[2]}
    BY DEF OpToRel
  <2> HIDE DEF R
  <2> QED BY <2>1
<1> HIDE DEF R
<1>3. PICK m \in T : \A n \in T : ~(<<n, m>> \in R)
  BY <1>1, WFMin
<1>4. ASSUME NEW n \in T PROVE m <= n
  <2>1. n \in Nat /\ m \in Nat
    OBVIOUS
  <2>2. ~(n < m)
    BY <1>2, <1>3, <2>1
  <2> QED BY <2>1, <2>2
<1> QED BY <1>4

LEMMA PrunedIsSuffix ==
  ASSUME NEW S, NEW q \in Seq(S), NEW old
  PROVE  \E i \in 1 .. Len(q) + 1 :
           Pruned(q, old) = SubSeq(q, i, Len(q)) /\ (~staleThresholdValid => i = 1)
<1> DEFINE kept == {i \in 1 .. Len(q) + 1 :
                      \A k \in 1 .. i - 1 : staleThresholdValid /\ q[k] \in old}
           T == {Len(q) + 1 - i : i \in kept}
<1>1. Len(q) \in Nat /\ 1 \in kept /\ kept \subseteq 1 .. Len(q) + 1
  OBVIOUS
<1>2. ~staleThresholdValid => \A i \in kept : i = 1
  BY <1>1
<1>3. Pruned(q, old) = SubSeq(q, CHOOSE i \in kept : \A k \in kept : k <= i, Len(q))
  BY DEF Pruned
<1> HIDE DEF kept
<1>4. T \subseteq Nat /\ T # {}
  <2>1. ASSUME NEW i \in kept PROVE Len(q) + 1 - i \in Nat
    <3>1. i \in 1 .. Len(q) + 1
      BY <1>1
    <3> QED BY <1>1, <3>1
  <2>2. T \subseteq Nat
    BY <2>1
  <2>3. Len(q) + 1 - 1 \in T
    BY <1>1
  <2> QED BY <2>2, <2>3
<1>5. PICK m \in T : \A n \in T : m <= n
  BY <1>4, Least
<1>6. \E i \in kept : \A k \in kept : k <= i
  <2>1. PICK i \in kept : m = Len(q) + 1 - i
    OBVIOUS
  <2>2. ASSUME NEW k \in kept PROVE k <= i
    <3>1. m <= Len(q) + 1 - k
      BY <1>5
    <3> QED BY <1>1, <2>1, <3>1
  <2> QED BY <2>2
<1>7. PICK i \in kept : i = CHOOSE j \in kept : \A k \in kept : k <= j
  BY <1>6
<1> QED BY <1>1, <1>2, <1>3, <1>7

LEMMA SuffixIs ==
  ASSUME NEW S, NEW q \in Seq(S), NEW i \in 1 .. Len(q) + 1
  PROVE  /\ SubSeq(q, i, Len(q)) \in Seq(S)
         /\ Len(SubSeq(q, i, Len(q))) = Len(q) - i + 1
         /\ \A j \in 1 .. Len(q) - i + 1 : SubSeq(q, i, Len(q))[j] = q[j + i - 1]
         /\ i = 1 => SubSeq(q, i, Len(q)) = q
OBVIOUS

-----------------------------------------------------------------------------
(***************************************************************************)
(* The types of a ClientData.                                              *)
(***************************************************************************)
LEMMA OutcomesTyped ==
  ASSUME NEW r \in ClientType
  PROVE  /\ Reset(r) \in ClientType /\ Reset(r).bytesWrittenSoFar = r.bytesWrittenSoFar
         /\ Again(r) \in ClientType /\ Again(r).bytesWrittenSoFar = r.bytesWrittenSoFar
         /\ Full(r) \in ClientType /\ Full(r).bytesWrittenSoFar = 0
         /\ \A n : r.bytesWrittenSoFar + n \in 0 .. FrameLength - 1 =>
              /\ Partial(r, n) \in ClientType
              /\ Partial(r, n).bytesWrittenSoFar = r.bytesWrittenSoFar + n
<1>0. <<>> \in Seq(Messages) /\ FrameLength \in Nat \ {0}
  BY BasePeerAssumption
<1>1. Reset(r) \in ClientType /\ Reset(r).bytesWrittenSoFar = r.bytesWrittenSoFar
  BY <1>0 DEF Reset, ClientType
<1>2. Again(r) \in ClientType /\ Again(r).bytesWrittenSoFar = r.bytesWrittenSoFar
  BY DEF Again, ClientType
<1>3. Full(r) \in ClientType /\ Full(r).bytesWrittenSoFar = 0
  <2> DEFINE box == IF r.outBox # <<>> /\ Head(r.outBox) = r.currentOutboundMessage
                    THEN Tail(r.outBox) ELSE r.outBox
  <2>1. box \in Seq(Messages)
    BY DEF ClientType
  <2>2. ASSUME NEW q \in Seq(Messages), NEW b \in BOOLEAN, NEW s,
               s = [r EXCEPT !.outBox = q, !.currentOutboundMessage = NoMsg,
                             !.bytesWrittenSoFar = 0, !.dataPending = b]
        PROVE  s \in ClientType /\ s.bytesWrittenSoFar = 0
    <3>1. 0 \in 0 .. FrameLength - 1 /\ NoMsg \in Messages \union {NoMsg}
      BY <1>0
    <3> QED BY <2>2, <3>1 DEF ClientType
  <2>3. Full(r) = [r EXCEPT !.outBox = box, !.currentOutboundMessage = NoMsg,
                            !.bytesWrittenSoFar = 0, !.dataPending = box # <<>>]
    BY DEF Full
  <2> HIDE DEF box
  <2>4. (box # <<>>) \in BOOLEAN
    OBVIOUS
  <2> QED BY <2>1, <2>2, <2>3, <2>4
<1>4. ASSUME NEW n, r.bytesWrittenSoFar + n \in 0 .. FrameLength - 1
      PROVE  /\ Partial(r, n) \in ClientType
             /\ Partial(r, n).bytesWrittenSoFar = r.bytesWrittenSoFar + n
  BY <1>4 DEF Partial, ClientType
<1> QED BY <1>1, <1>2, <1>3, <1>4

LEMMA FieldsTyped ==
  ASSUME NEW r \in ClientType
  PROVE  /\ \A b \in BOOLEAN : LET s == [r EXCEPT !.onWriteQueue = b] IN
              s \in ClientType /\ s.bytesWrittenSoFar = r.bytesWrittenSoFar
         /\ \A b \in BOOLEAN : LET s == [r EXCEPT !.readyToWrite = b] IN
              s \in ClientType /\ s.bytesWrittenSoFar = r.bytesWrittenSoFar
         /\ \A m \in Messages : LET s == [r EXCEPT !.currentOutboundMessage = m] IN
              s \in ClientType /\ s.bytesWrittenSoFar = r.bytesWrittenSoFar
         /\ \A fd \in Fds, k \in Connections : LET s == [r EXCEPT !.fd = fd, !.fdStamp = k] IN
              s \in ClientType /\ s.bytesWrittenSoFar = r.bytesWrittenSoFar
BY DEF ClientType

LEMMA QueuedTyped ==
  ASSUME NEW r \in ClientType, NEW msg \in Messages, NEW old
  PROVE  /\ Queued(r, msg, old) \in ClientType
         /\ Queued(r, msg, old).bytesWrittenSoFar = r.bytesWrittenSoFar
<1> DEFINE box == Pruned(Append(r.outBox, msg), old)
<1>1. Append(r.outBox, msg) \in Seq(Messages)
  BY DEF ClientType
<1>2. box \in Seq(Messages) /\ (box # <<>> \/ r.currentOutboundMessage # NoMsg) \in BOOLEAN
  BY <1>1, PrunedIsSuffix, SuffixIs
<1>3. Queued(r, msg, old) = [r EXCEPT !.outBox = box,
                               !.dataPending = box # <<>> \/ r.currentOutboundMessage # NoMsg]
  BY DEF Queued
<1> HIDE DEF box
<1> QED BY <1>2, <1>3 DEF ClientType

-----------------------------------------------------------------------------
(***************************************************************************)
(* The types of the peer's state, and what a worker has under its hands    *)
(* from the choice of a message to the record of what became of it: a part *)
(* of a frame that ends where the frame does, at the latest.               *)
(***************************************************************************)
Sending == {"send", "sent"}
StreamType == [client : Objects, bytes : Seq(Messages \X (1 .. FrameLength))]

PeerTypes ==
  /\ made \in [Hosts -> 0 .. MaxObjects]
  /\ client \in [Objects -> ClientType]
  /\ files \in [Fds -> Connections \union {0}]
  /\ stream \in Seq(StreamType) /\ Len(stream) <= MaxConnections
  /\ broken \subseteq 1 .. Len(stream)
  /\ writing \in [Workers -> WriteType]

Outcome(d) ==
  /\ d.status \in {"again", "error"} => d.sent = 0
  /\ d.status = "partial" => supportsPartialWrites /\ d.sent \in 1 .. FrameLength - 1 - d.offset
  /\ d.status = "full" => d.sent = FrameLength - d.offset
  /\ d.status # "none"

HandOK(w) ==
  /\ writing[w].offset = client[currentClientPtr[w]].bytesWrittenSoFar
  /\ writing[w].fd # Closed /\ writing[w].msg # NoMsg
  /\ pc[w] = "sent" => Outcome(writing[w])

HandInv == \A w \in Workers : pc[w] \in Sending => HandOK(w)
Whole   == ~supportsPartialWrites => \A c \in Objects : client[c].bytesWrittenSoFar = 0

PeerInv == PeerTypes /\ HandInv /\ Whole

(***************************************************************************)
(* The step keeps what every client has written of a frame, and who is     *)
(* writing for whom.                                                       *)
(***************************************************************************)
BytesKept == \A c \in Objects : client'[c].bytesWrittenSoFar = client[c].bytesWrittenSoFar
HandsKept ==
  \A w \in Workers : pc'[w] \in Sending =>
    pc'[w] = pc[w] /\ currentClientPtr'[w] = currentClientPtr[w]

LEMMA InitPeer == Init => PeerInv
<1> SUFFICES ASSUME Init PROVE PeerInv
  OBVIOUS
<1>1. NewClient \in ClientType /\ NewClient.bytesWrittenSoFar = 0 /\ NotWriting \in WriteType
  <2>1. /\ <<>> \in Seq(Messages) /\ 0 \in 0 .. FrameLength - 1 /\ 0 \in 0 .. FrameLength
    BY BasePeerAssumption
  <2> QED BY <2>1 DEF NewClient, ClientType, NotWriting, WriteType, Closed, NoMsg
<1>2. <<>> \in Seq(StreamType) /\ Len(<<>>) = 0 /\ 0 \in 0 .. MaxObjects /\ 0 <= MaxConnections
  BY BasePeerAssumption
<1>3. PeerTypes
  BY <1>1, <1>2 DEF Init, PeerInit, PeerTypes
<1> QED BY <1>1, <1>3 DEF Init, PeerInit, PeerInv, HandInv, Sending, Whole

LEMMA KeptStep ==
  ASSUME QueueTypes, PeerInv, PeerTypes', BytesKept, HandsKept, UNCHANGED writing
  PROVE  PeerInv'
<1>1. ASSUME NEW w \in Workers, pc'[w] \in Sending PROVE HandOK(w)'
  <2>1. /\ pc[w] \in Sending /\ pc'[w] = pc[w]
        /\ currentClientPtr'[w] = currentClientPtr[w] /\ currentClientPtr[w] \in Objects
    BY <1>1 DEF HandsKept, QueueTypes, Sending, Writing
  <2>2. client'[currentClientPtr[w]].bytesWrittenSoFar
          = client[currentClientPtr[w]].bytesWrittenSoFar
    BY <2>1 DEF BytesKept
  <2> QED BY <2>1, <2>2 DEF PeerInv, HandInv, HandOK, Outcome
<1>2. Whole'
  BY DEF PeerInv, Whole, BytesKept
<1> QED BY <1>1, <1>2 DEF PeerInv, HandInv

LEMMA OneTyped ==
  ASSUME client \in [Objects -> ClientType], NEW c, NEW s, client' = [client EXCEPT ![c] = s],
         c \in Objects => s \in ClientType
  PROVE  /\ client' \in [Objects -> ClientType]
         /\ (c \in Objects => s.bytesWrittenSoFar = client[c].bytesWrittenSoFar) => BytesKept
BY DEF BytesKept

(***************************************************************************)
(* One field of one client is set.                                         *)
(***************************************************************************)
LEMMA FieldTyped ==
  ASSUME client \in [Objects -> ClientType], NEW c,
         \/ \E b \in BOOLEAN : client' = [client EXCEPT ![c].onWriteQueue = b]
         \/ \E b \in BOOLEAN : client' = [client EXCEPT ![c].readyToWrite = b]
         \/ \E m \in Messages : client' = [client EXCEPT ![c].currentOutboundMessage = m]
  PROVE  client' \in [Objects -> ClientType] /\ BytesKept
<1>1. PICK s : /\ client' = [client EXCEPT ![c] = s]
               /\ c \in Objects => s \in ClientType /\ s.bytesWrittenSoFar = client[c].bytesWrittenSoFar
  <2>1. CASE \E b \in BOOLEAN : client' = [client EXCEPT ![c].onWriteQueue = b]
    <3>1. PICK b \in BOOLEAN : client' = [client EXCEPT ![c].onWriteQueue = b]
      BY <2>1
    <3>2. client' = [client EXCEPT ![c] = [client[c] EXCEPT !.onWriteQueue = b]]
      BY <3>1
    <3> QED BY <3>2, FieldsTyped
  <2>2. CASE \E b \in BOOLEAN : client' = [client EXCEPT ![c].readyToWrite = b]
    <3>1. PICK b \in BOOLEAN : client' = [client EXCEPT ![c].readyToWrite = b]
      BY <2>2
    <3>2. client' = [client EXCEPT ![c] = [client[c] EXCEPT !.readyToWrite = b]]
      BY <3>1
    <3> QED BY <3>2, FieldsTyped
  <2>3. CASE \E m \in Messages : client' = [client EXCEPT ![c].currentOutboundMessage = m]
    <3>1. PICK m \in Messages : client' = [client EXCEPT ![c].currentOutboundMessage = m]
      BY <2>3
    <3>2. PICK s : s = [client[c] EXCEPT !.currentOutboundMessage = m]
      OBVIOUS
    <3>3. client' = [client EXCEPT ![c] = s]
      BY <3>1, <3>2
    <3>4. c \in Objects => client[c] \in ClientType
      OBVIOUS
    <3>5. c \in Objects => s \in ClientType /\ s.bytesWrittenSoFar = client[c].bytesWrittenSoFar
      BY <3>2, <3>4, FieldsTyped
    <3> QED BY <3>3, <3>5
  <2> QED BY <2>1, <2>2, <2>3
<1> QED BY <1>1, OneTyped

(***************************************************************************)
(* Connections that come and go.                                           *)
(***************************************************************************)
LEMMA ResetPeer ==
  ASSUME QueueTypes, PeerInv, NEW c, NEW b, clientReset(c, b), HandsKept,
         UNCHANGED <<made, stream, broken, writing>>
  PROVE  PeerInv'
<1> USE DEF PeerInv, PeerTypes
<1>1. client' = [client EXCEPT ![c] = Reset(client[c])]
  BY DEF clientReset
<1>2. client' \in [Objects -> ClientType] /\ BytesKept
  <2>1. PICK s : s = Reset(client[c])
    OBVIOUS
  <2>2. c \in Objects => s \in ClientType /\ s.bytesWrittenSoFar = client[c].bytesWrittenSoFar
    BY <2>1, OutcomesTyped
  <2> QED BY <1>1, <2>1, <2>2, OneTyped
<1>3. files' \in [Fds -> Connections \union {0}]
  BY DEF clientReset, Close
<1>4. PeerTypes'
  BY <1>2, <1>3
<1> QED BY <1>2, <1>4, KeptStep

LEMMA ConnectPeer ==
  ASSUME QueueTypes, PeerInv, NEW h \in Hosts, Connect(h), HandsKept
  PROVE  PeerInv'
<1> USE DEF PeerInv, PeerTypes
<1> DEFINE c == Named(h)
           k == Len(stream) + 1
           free == Close(client[c].fd)
           r == IF Connected(c) THEN Reset(client[c]) ELSE client[c]
<1>1. c \in Objects /\ c[2] \in 0 .. MaxObjects /\ k \in Connections
      /\ UNCHANGED <<broken, writing>>
  BY DEF Connect, Objects
<1>2. PICK fd \in Fds : /\ client' = [client EXCEPT ![c] = [r EXCEPT !.fd = fd, !.fdStamp = k]]
                        /\ files' = [free EXCEPT ![fd] = k]
  BY DEF Connect
<1>3. r \in ClientType /\ r.bytesWrittenSoFar = client[c].bytesWrittenSoFar
  BY <1>1, OutcomesTyped
<1>4. made' \in [Hosts -> 0 .. MaxObjects]
  BY <1>1 DEF Connect
<1>5. stream' = Append(stream, [client |-> c, bytes |-> <<>>])
  BY DEF Connect
<1>6. [client |-> c, bytes |-> <<>>] \in StreamType
  BY <1>1 DEF StreamType
<1>7. free \in [Fds -> Connections \union {0}]
  BY DEF Close
<1> HIDE DEF c, r, free, k
<1>8. client' \in [Objects -> ClientType] /\ BytesKept
  <2>1. PICK s : s = [r EXCEPT !.fd = fd, !.fdStamp = k]
    OBVIOUS
  <2>2. s \in ClientType /\ s.bytesWrittenSoFar = r.bytesWrittenSoFar
    <3>1. r \in ClientType /\ fd \in Fds /\ k \in Connections
      BY <1>1, <1>3
    <3> QED BY <2>1, <3>1 DEF ClientType
  <2> QED BY <1>2, <1>3, <2>1, <2>2, OneTyped
<1>9. /\ stream' \in Seq(StreamType) /\ Len(stream') = Len(stream) + 1 /\ Len(stream) \in Nat
      /\ Len(stream') <= MaxConnections
  BY <1>1, <1>5, <1>6 DEF Connections, k
<1>10. files' \in [Fds -> Connections \union {0}]
  BY <1>1, <1>2, <1>7
<1>11. broken' \subseteq 1 .. Len(stream')
  BY <1>1, <1>9
<1>12. PeerTypes'
  BY <1>1, <1>4, <1>8, <1>9, <1>10, <1>11
<1> QED BY <1>1, <1>8, <1>12, KeptStep

LEMMA DiscoveryPeer ==
  ASSUME QueueTypes, PeerInv, Discovery
  PROVE  PeerInv'
<1>1. HandsKept
  BY DEF Discovery, serverVars, HandsKept
<1>2. ASSUME NEW h \in Hosts, Connect(h) PROVE PeerInv'
  BY <1>1, <1>2, ConnectPeer
<1>3. ASSUME NEW h \in Hosts, ConnectFails(h) PROVE PeerInv'
  BY <1>1, <1>3, ResetPeer DEF ConnectFails
<1>4. CASE \E h \in Hosts : Subscribe(h) \/ Unsubscribe(h)
  <2>1. PeerTypes' /\ BytesKept /\ UNCHANGED writing
    BY <1>4 DEF Subscribe, Unsubscribe, PeerInv, PeerTypes, BytesKept
  <2> QED BY <1>1, <2>1, KeptStep
<1>5. ASSUME NEW k \in Connections, Break(k) PROVE PeerInv'
  <2>1. PeerTypes' /\ BytesKept /\ UNCHANGED writing
    BY <1>5 DEF Break, PeerInv, PeerTypes, BytesKept
  <2> QED BY <1>1, <2>1, KeptStep
<1> QED BY <1>2, <1>3, <1>4, <1>5 DEF Discovery

(***************************************************************************)
(* A message is queued with every client that is reached.                  *)
(***************************************************************************)
LEMMA InQueuePeer ==
  ASSUME QueueTypes, PeerInv, received \in 0 .. MaxMessages, InQueue
  PROVE  PeerInv'
<1> USE DEF PeerInv, PeerTypes
<1> DEFINE m == received + 1
<1>1. PICK old : queueMsg(m, old)
  BY DEF InQueue
<1>2. m \in Messages
  BY BasePeerAssumption DEF InQueue, Messages
<1>3. HandsKept
  BY DEF InQueue, HandsKept
<1>4. \A c \in Objects : /\ Queued(client[c], m, old) \in ClientType
                         /\ Queued(client[c], m, old).bytesWrittenSoFar = client[c].bytesWrittenSoFar
  BY <1>2, QueuedTyped
<1>5. client' = [c \in Objects |-> IF c \in Reached THEN Queued(client[c], m, old)
                                   ELSE client[c]]
      /\ UNCHANGED <<made, files, stream, broken, writing>>
  BY <1>1 DEF queueMsg
<1> HIDE DEF m
<1>6. client' \in [Objects -> ClientType] /\ BytesKept
  BY <1>4, <1>5 DEF BytesKept
<1>7. PeerTypes'
  BY <1>5, <1>6
<1> QED BY <1>3, <1>5, <1>6, <1>7, KeptStep

(***************************************************************************)
(* What a worker does with the client in its hands.  Nobody else has it.   *)
(***************************************************************************)
LEMMA OneWorkerTyped ==
  ASSUME writing \in [Workers -> WriteType], NEW w \in Workers, NEW d \in WriteType,
         writing' = [writing EXCEPT ![w] = d]
  PROVE  /\ writing' \in [Workers -> WriteType] /\ writing'[w] = d
         /\ \A v \in Workers \ {w} : writing'[v] = writing[v]
OBVIOUS

LEMMA OthersKept ==
  ASSUME QueueInv, PeerInv, NEW w \in Workers, pc[w] \in Writing, NEW s,
         NEW t, pc' = [pc EXCEPT ![w] = t], UNCHANGED currentClientPtr,
         client' = [client EXCEPT ![currentClientPtr[w]] = s],
         \A v \in Workers \ {w} : writing'[v] = writing[v]
  PROVE  /\ client' = [c \in Objects |-> client'[c]] /\ client'[currentClientPtr[w]] = s
         /\ \A v \in Workers \ {w} : pc'[v] \in Sending => HandOK(v)'
         /\ pc'[w] = t
<1> DEFINE c == currentClientPtr[w]
<1>1. /\ pc \in [Workers -> PcValues] /\ c \in Objects /\ c # NoClient
      /\ client = [o \in Objects |-> client[o]]
  BY NoClientIsNone DEF QueueInv, AwakeInv, PcInv, QueueTypes, PeerInv, PeerTypes
<1>2. ASSUME NEW v \in Workers \ {w}, pc'[v] \in Sending PROVE HandOK(v)'
  <2>1. pc'[v] = pc[v] /\ pc[v] \in Sending /\ currentClientPtr[v] \in Objects
    BY <1>1, <1>2 DEF QueueInv, QueueTypes, Sending, Writing
  <2>2. currentClientPtr[v] # c
    BY <1>1, <2>1 DEF QueueInv, OnceOnQueues
  <2>3. client'[currentClientPtr[v]] = client[currentClientPtr[v]]
    BY <1>1, <2>1, <2>2
  <2> QED BY <2>1, <2>3 DEF PeerInv, HandInv, HandOK, Outcome
<1>3. pc'[w] = t
  BY <1>1
<1> QED BY <1>1, <1>2, <1>3

LEMMA BeginPeer ==
  ASSUME QueueInv, PeerInv, NEW w \in Workers, Begin(w)
  PROVE  PeerInv'
<1> USE DEF PeerInv, PeerTypes
<1> DEFINE c == currentClientPtr[w]
           m == IF client[c].currentOutboundMessage # NoMsg
                THEN client[c].currentOutboundMessage ELSE Head(client[c].outBox)
           d == [fd |-> client[c].fd, fdStamp |-> client[c].fdStamp, msg |-> m, sent |-> 0,
                 offset |-> IF supportsPartialWrites THEN client[c].bytesWrittenSoFar ELSE 0,
                 status |-> "none"]
<1>1. pc[w] = "write" /\ pc \in [Workers -> PcValues] /\ c \in Objects /\ QueueTypes
      /\ UNCHANGED currentClientPtr
  BY DEF Begin, QueueInv, AwakeInv, PcInv, QueueTypes, Writing
<1>2. CASE UNCHANGED peerVars /\ (pc' = pc \/ pc' = [pc EXCEPT ![w] = "requeue"])
  <2>1. HandsKept
    BY <1>1, <1>2 DEF HandsKept, Sending
  <2>2. PeerTypes' /\ BytesKept /\ UNCHANGED writing
    BY <1>2 DEF peerVars, BytesKept
  <2> QED BY <1>1, <2>1, <2>2, KeptStep
<1>3. CASE ChooseMessage(w, c) /\ pc' = [pc EXCEPT ![w] = "send"]
  <2>1. /\ client' = [client EXCEPT ![c].currentOutboundMessage = m]
        /\ writing' = [writing EXCEPT ![w] = d]
        /\ client[c].fd # Closed
        /\ client[c].currentOutboundMessage = NoMsg => client[c].outBox # <<>>
        /\ UNCHANGED <<made, files, stream, broken>>
    BY <1>3 DEF ChooseMessage, NothingToWrite, Connected, FrontOfNothing
  <2>2. client[c] \in ClientType
    BY <1>1
  <2>3. m \in Messages
    BY <2>1, <2>2 DEF ClientType
  <2>4. m # NoMsg
    BY <2>3 DEF Messages, NoMsg
  <2>5. d.offset = client[c].bytesWrittenSoFar
    BY <1>1 DEF Whole
  <2>6. d \in WriteType
    <3>1. 0 \in 0 .. FrameLength /\ 0 \in 0 .. FrameLength - 1
      BY BasePeerAssumption
    <3> HIDE DEF m
    <3> QED BY <2>2, <2>3, <2>5, <3>1 DEF ClientType, WriteType
  <2>7. d.fd = client[c].fd /\ d.msg = m
    OBVIOUS
  <2> HIDE DEF m, d
  <2>8. client' \in [Objects -> ClientType] /\ BytesKept
    BY <2>1, <2>3, FieldTyped
  <2>9. /\ writing' \in [Workers -> WriteType] /\ writing'[w] = d
        /\ \A v \in Workers \ {w} : writing'[v] = writing[v]
    BY <2>1, <2>6, OneWorkerTyped
  <2>10. /\ pc'[w] = "send"
         /\ \A v \in Workers \ {w} : pc'[v] \in Sending => HandOK(v)'
    <3>1. client' = [client EXCEPT ![c] = [client[c] EXCEPT !.currentOutboundMessage = m]]
      BY <2>1
    <3> QED BY <1>1, <1>3, <2>9, <3>1, OthersKept DEF Writing
  <2>11. HandOK(w)'
    BY <1>1, <2>1, <2>4, <2>5, <2>7, <2>8, <2>9, <2>10 DEF HandOK, BytesKept
  <2>12. HandInv' /\ Whole'
    BY <2>8, <2>10, <2>11 DEF HandInv, Whole, BytesKept
  <2> QED BY <2>1, <2>8, <2>9, <2>12
<1> QED BY <1>2, <1>3 DEF Begin

LEMMA BytesTyped ==
  ASSUME NEW m \in Messages, NEW from \in Nat, NEW to \in Nat, from <= to, to <= FrameLength
  PROVE  /\ Bytes(m, from, to) \in Seq(Messages \X (1 .. FrameLength))
         /\ Len(Bytes(m, from, to)) = to - from
         /\ \A i \in 1 .. to - from : Bytes(m, from, to)[i] = <<m, from + i>>
<1>1. FrameLength \in Nat
  BY BasePeerAssumption
<1>2. \A i \in 1 .. to - from : from + i \in 1 .. FrameLength
  BY <1>1
<1>3. Bytes(m, from, to) \in [1 .. to - from -> Messages \X (1 .. FrameLength)]
  BY <1>2 DEF Bytes
<1> QED BY <1>3 DEF Bytes

(***************************************************************************)
(* Bytes are put on a connection.                                          *)
(***************************************************************************)
Puts(k, bs) == stream' = [stream EXCEPT ![k].bytes = stream[k].bytes \o bs]

LEMMA StreamTyped ==
  ASSUME stream \in Seq(StreamType), NEW k, NEW bs \in Seq(Messages \X (1 .. FrameLength)),
         Puts(k, bs)
  PROVE  /\ stream' \in Seq(StreamType) /\ Len(stream') = Len(stream)
         /\ \A i \in DOMAIN stream :
              /\ stream'[i].client = stream[i].client
              /\ i # k => stream'[i] = stream[i]
         /\ k \in DOMAIN stream => stream'[k].bytes = stream[k].bytes \o bs
<1> DEFINE t == [stream[k] EXCEPT !.bytes = stream[k].bytes \o bs]
<1>1. stream' = [stream EXCEPT ![k] = t]
  BY DEF Puts
<1>2. ASSUME k \in DOMAIN stream
      PROVE  t \in StreamType /\ t.client = stream[k].client /\ t.bytes = stream[k].bytes \o bs
  <2>1. stream[k] \in StreamType
    BY <1>2
  <2>2. stream[k].bytes \o bs \in Seq(Messages \X (1 .. FrameLength))
    BY <2>1 DEF StreamType
  <2> QED BY <2>1, <2>2 DEF StreamType
<1> HIDE DEF t
<1>3. stream' \in Seq(StreamType) /\ Len(stream') = Len(stream)
  <2>1. Len(stream) \in Nat /\ DOMAIN stream = 1 .. Len(stream)
        /\ \A i \in 1 .. Len(stream) : stream[i] \in StreamType
    OBVIOUS
  <2>2. stream' \in [1 .. Len(stream) -> StreamType]
    BY <1>1, <1>2, <2>1
  <2> QED BY <2>1, <2>2
<1> QED BY <1>1, <1>2, <1>3

(***************************************************************************)
(* The outcome of send() is noted.                                         *)
(***************************************************************************)
SendOutcome(w, status, n) ==
  writing' = [writing EXCEPT ![w].status = status, ![w].sent = n]

LEMMA SentTyped ==
  ASSUME writing \in [Workers -> WriteType], NEW w \in Workers,
         NEW status \in {"again", "error", "partial", "full"}, NEW n \in 0 .. FrameLength,
         SendOutcome(w, status, n)
  PROVE  /\ writing' \in [Workers -> WriteType]
         /\ \A v \in Workers \ {w} : writing'[v] = writing[v]
         /\ writing'[w].status = status /\ writing'[w].sent = n
         /\ writing'[w].offset = writing[w].offset /\ writing'[w].fd = writing[w].fd
         /\ writing'[w].msg = writing[w].msg /\ writing'[w].fdStamp = writing[w].fdStamp
<1>1. PICK e : e = [writing[w] EXCEPT !.status = status, !.sent = n]
  OBVIOUS
<1>2. writing' = [writing EXCEPT ![w] = e] /\ writing[w] \in WriteType
  BY <1>1 DEF SendOutcome
<1>3. /\ e \in WriteType /\ e.status = status /\ e.sent = n /\ e.offset = writing[w].offset
      /\ e.fd = writing[w].fd /\ e.msg = writing[w].msg /\ e.fdStamp = writing[w].fdStamp
  BY <1>1, <1>2 DEF WriteType
<1> QED BY <1>2, <1>3, OneWorkerTyped

(***************************************************************************)
(* The three outcomes of send(), on the connection behind the descriptor.  *)
(***************************************************************************)
Target(w) == files[writing[w].fd]

LEMMA SendCases ==
  ASSUME PeerInv, NEW w \in Workers, Send(w)
  PROVE  \/ SendOutcome(w, "error", 0) /\ UNCHANGED stream
         \/ SendOutcome(w, "again", 0) /\ UNCHANGED stream
         \/ \E n \in 1 .. FrameLength - writing[w].offset,
               status \in {"partial", "full"} :
              /\ status = "partial" => n < FrameLength - writing[w].offset /\ supportsPartialWrites
              /\ status = "full" => n = FrameLength - writing[w].offset
              /\ SendOutcome(w, status, n)
              /\ Target(w) # 0
              /\ stream' = [stream EXCEPT ![Target(w)].bytes = stream[Target(w)].bytes \o
                     Bytes(writing[w].msg, writing[w].offset, writing[w].offset + n)]
<1>1. /\ writing[w].offset \in 0 .. FrameLength - 1 /\ FrameLength \in Nat
  BY BasePeerAssumption DEF PeerInv, PeerTypes, WriteType
<1>2. CASE \/ SendOutcome(w, "error", 0) /\ UNCHANGED stream
           \/ SendOutcome(w, "again", 0) /\ UNCHANGED stream
  BY <1>2
<1>3. ASSUME NEW n \in 1 .. FrameLength - writing[w].offset,
             n < FrameLength - writing[w].offset => supportsPartialWrites,
             SendOutcome(w, IF n < FrameLength - writing[w].offset THEN "partial" ELSE "full", n),
             Target(w) # 0,
             stream' = [stream EXCEPT ![Target(w)].bytes =
                          @ \o Bytes(writing[w].msg, writing[w].offset, writing[w].offset + n)]
      PROVE  \E m \in 1 .. FrameLength - writing[w].offset,
               status \in {"partial", "full"} :
              /\ status = "partial" => m < FrameLength - writing[w].offset /\ supportsPartialWrites
              /\ status = "full" => m = FrameLength - writing[w].offset
              /\ SendOutcome(w, status, m)
              /\ Target(w) # 0
              /\ stream' = [stream EXCEPT ![Target(w)].bytes = stream[Target(w)].bytes \o
                     Bytes(writing[w].msg, writing[w].offset, writing[w].offset + m)]
  <2>1. CASE n < FrameLength - writing[w].offset
    <3>1. SendOutcome(w, "partial", n)
      BY <1>3, <2>1
    <3> QED BY <1>3, <2>1, <3>1
  <2>2. CASE ~(n < FrameLength - writing[w].offset)
    <3>1. SendOutcome(w, "full", n) /\ n = FrameLength - writing[w].offset
      BY <1>1, <1>3, <2>2
    <3> QED BY <1>3, <3>1
  <2> QED BY <2>1, <2>2
<1> QED BY <1>2, <1>3 DEF Send, send, SendOutcome, Target

LEMMA SendPeer ==
  ASSUME QueueInv, PeerInv, NEW w \in Workers, Send(w)
  PROVE  PeerInv'
<1> DEFINE d == writing[w]
<1>1. /\ pc[w] = "send" /\ pc' = [pc EXCEPT ![w] = "sent"] /\ pc \in [Workers -> PcValues]
      /\ UNCHANGED <<client, currentClientPtr, made, files, broken>>
      /\ client = [client EXCEPT ![currentClientPtr[w]] = client[currentClientPtr[w]]]
      /\ PeerTypes
  BY DEF Send, send, QueueInv, AwakeInv, PcInv, PeerInv, PeerTypes
<1>2. d \in WriteType /\ HandOK(w) /\ FrameLength \in Nat \ {0}
  BY <1>1, BasePeerAssumption DEF HandInv, Sending, PeerInv, PeerTypes
<1>3. d.msg \in Messages /\ d.offset \in 0 .. FrameLength - 1
  BY <1>2 DEF WriteType, HandOK
<1>4. ASSUME NEW status \in {"again", "error", "partial", "full"}, NEW n \in 0 .. FrameLength,
             SendOutcome(w, status, n),
             \/ status \in {"again", "error"} /\ n = 0
             \/ /\ status = "partial" /\ supportsPartialWrites
                /\ n \in 1 .. FrameLength - 1 - d.offset
             \/ status = "full" /\ n = FrameLength - d.offset,
             stream' \in Seq(StreamType), Len(stream') = Len(stream)
      PROVE  PeerInv'
  <2>1. /\ writing' \in [Workers -> WriteType]
        /\ \A v \in Workers \ {w} : writing'[v] = writing[v]
        /\ writing'[w].status = status /\ writing'[w].sent = n
        /\ writing'[w].offset = d.offset /\ writing'[w].fd = d.fd /\ writing'[w].msg = d.msg
    <3>1. writing \in [Workers -> WriteType]
      BY <1>1 DEF PeerTypes
    <3> QED BY <1>4, <3>1, SentTyped
  <2>2. \A v \in Workers \ {w} : pc'[v] \in Sending => HandOK(v)'
    BY <1>1, <2>1, OthersKept DEF Writing
  <2>3. Outcome(writing'[w])
    BY <1>4, <2>1 DEF Outcome
  <2>4. HandOK(w)'
    BY <1>1, <1>2, <2>1, <2>3 DEF HandOK, Outcome
  <2>5. HandInv' /\ Whole'
    BY <1>1, <2>2, <2>4 DEF HandInv, Whole, PeerInv
  <2> QED BY <1>1, <1>4, <2>1, <2>5 DEF PeerInv, PeerTypes
<1>5. 0 \in 0 .. FrameLength /\ stream \in Seq(StreamType)
  BY <1>1, <1>2 DEF PeerTypes
<1>6. CASE SendOutcome(w, "error", 0) /\ UNCHANGED stream
  BY <1>4, <1>5, <1>6
<1>7. CASE SendOutcome(w, "again", 0) /\ UNCHANGED stream
  BY <1>4, <1>5, <1>7
<1>8. ASSUME NEW n \in 1 .. FrameLength - d.offset, NEW status \in {"partial", "full"},
             status = "partial" => n < FrameLength - d.offset /\ supportsPartialWrites,
             status = "full" => n = FrameLength - d.offset,
             SendOutcome(w, status, n),
             stream' = [stream EXCEPT ![Target(w)].bytes = stream[Target(w)].bytes \o
                          Bytes(d.msg, d.offset, d.offset + n)]
      PROVE  PeerInv'
  <2>1. /\ n \in 0 .. FrameLength /\ d.offset \in Nat /\ d.offset + n \in Nat
        /\ d.offset <= d.offset + n /\ d.offset + n <= FrameLength
        /\ status = "partial" => n \in 1 .. FrameLength - 1 - d.offset
    <3>1. n \in Nat /\ d.offset \in Nat /\ n >= 1 /\ n <= FrameLength - d.offset
      BY <1>2, <1>3, <1>8
    <3>2. status = "partial" => n <= FrameLength - 1 - d.offset
      BY <1>2, <1>8, <3>1
    <3> QED BY <1>2, <3>1, <3>2
  <2>2. Bytes(d.msg, d.offset, d.offset + n) \in Seq(Messages \X (1 .. FrameLength))
    BY <1>3, <2>1, BytesTyped
  <2>3. stream' \in Seq(StreamType) /\ Len(stream') = Len(stream)
    <3>1. Puts(Target(w), Bytes(d.msg, d.offset, d.offset + n))
      BY <1>8 DEF Puts
    <3> QED BY <1>5, <2>2, <3>1, StreamTyped
  <2> QED BY <1>4, <1>8, <2>1, <2>3
<1> HIDE DEF d
<1> QED BY <1>6, <1>7, <1>8, SendCases DEF d

LEMMA EndPeer ==
  ASSUME QueueInv, PeerInv, NEW w \in Workers, End(w)
  PROVE  PeerInv'
<1> USE DEF PeerInv, PeerTypes
<1> DEFINE c == currentClientPtr[w]
           d == writing[w]
<1>1. /\ pc[w] = "sent" /\ pc' = [pc EXCEPT ![w] = "requeue"]
      /\ UNCHANGED <<currentClientPtr, made, stream, broken>>
      /\ writing' = [writing EXCEPT ![w] = NotWriting]
  BY DEF End, recordWrite
<1>2. /\ pc \in [Workers -> PcValues] /\ QueueTypes /\ c \in Objects /\ client[c] \in ClientType
      /\ d \in WriteType /\ d.offset = client[c].bytesWrittenSoFar /\ Outcome(d)
      /\ FrameLength \in Nat \ {0}
  BY <1>1, BasePeerAssumption DEF QueueInv, AwakeInv, PcInv, QueueTypes, Writing, HandInv, Sending, HandOK
<1>3. /\ writing' \in [Workers -> WriteType]
      /\ \A v \in Workers \ {w} : writing'[v] = writing[v]
  <2>1. NotWriting \in WriteType
    <3>1. 0 \in 0 .. FrameLength /\ 0 \in 0 .. FrameLength - 1
      BY <1>2
    <3> QED BY <3>1 DEF NotWriting, WriteType, Closed, NoMsg
  <2> QED BY <1>1, <2>1, OneWorkerTyped
<1>4. ASSUME NEW s \in ClientType, client' = [client EXCEPT ![c] = s],
             ~supportsPartialWrites => s.bytesWrittenSoFar = 0,
             files' \in [Fds -> Connections \union {0}]
      PROVE  PeerInv'
  <2>1. client' \in [Objects -> ClientType]
    BY <1>4
  <2>2. /\ pc'[w] = "requeue"
        /\ \A v \in Workers \ {w} : pc'[v] \in Sending => HandOK(v)'
    BY <1>1, <1>3, <1>4, OthersKept DEF Writing
  <2>3. HandInv'
    BY <2>2 DEF HandInv, Sending
  <2>4. Whole'
    BY <1>4 DEF Whole
  <2> QED BY <1>1, <1>3, <1>4, <2>1, <2>3, <2>4
<1>5. ~supportsPartialWrites => client[c].bytesWrittenSoFar = 0
  BY <1>2 DEF Whole
<1>6. CASE UNCHANGED <<client, files>>
  BY <1>2, <1>4, <1>5, <1>6
<1>7. CASE client' = [client EXCEPT ![c] = Again(client[c])] /\ UNCHANGED files
  BY <1>2, <1>4, <1>5, <1>7, OutcomesTyped
<1>8. CASE client' = [client EXCEPT ![c] = Full(client[c])] /\ UNCHANGED files
  BY <1>2, <1>4, <1>8, OutcomesTyped
<1>9. CASE /\ d.status = "partial"
           /\ client' = [client EXCEPT ![c] = Partial(client[c], d.sent)] /\ UNCHANGED files
  <2>1. supportsPartialWrites /\ client[c].bytesWrittenSoFar + d.sent \in 0 .. FrameLength - 1
    BY <1>2, <1>9 DEF Outcome, ClientType
  <2>2. Partial(client[c], d.sent) \in ClientType
    BY <1>2, <2>1, OutcomesTyped
  <2> QED BY <1>4, <1>9, <2>1, <2>2
<1>10. CASE clientReset(c, TRUE)
  <2>1. files' \in [Fds -> Connections \union {0}]
    BY <1>10 DEF clientReset, Close
  <2>2. client' = [client EXCEPT ![c] = Reset(client[c])]
    BY <1>10 DEF clientReset
  <2> QED BY <1>2, <1>4, <1>5, <2>1, <2>2, OutcomesTyped
<1> QED BY <1>6, <1>7, <1>8, <1>9, <1>10 DEF End, recordWrite

(***************************************************************************)
(* Every step keeps PeerInv.                                               *)
(***************************************************************************)
LEMMA WorkerPeer ==
  ASSUME QueueInv, PeerInv, NEW w \in Workers, Worker(w)
  PROVE  PeerInv'
<1>0. QueueTypes /\ pc \in [Workers -> PcValues] /\ PeerTypes
      /\ currentClientPtr = [v \in Workers |-> currentClientPtr[v]]
  BY DEF QueueInv, AwakeInv, PcInv, QueueTypes, PeerInv
<1>1. CASE \/ Lock(w) \/ StartPoll(w) \/ TakeReady(w) \/ Wait(w) \/ EnterPoll(w)
           \/ PollTimesOut(w) \/ PollReturns(w) \/ LockPolled(w) \/ EndPoll(w)
  <2>1. UNCHANGED peerVars
    BY <1>1 DEF Lock, StartPoll, TakeReady, Wait, EnterPoll, PollTimesOut, PollReturns,
                LockPolled, EndPoll
  <2>2. HandsKept
    BY <1>0, <1>1 DEF Lock, StartPoll, TakeReady, Wait, EnterPoll, PollTimesOut, PollReturns,
                      LockPolled, EndPoll, LoopHead, HandsKept, Sending
  <2>3. PeerTypes' /\ BytesKept /\ UNCHANGED writing
    BY <1>0, <2>1 DEF peerVars, PeerTypes, BytesKept
  <2> QED BY <1>0, <2>2, <2>3, KeptStep
<1>2. CASE PollEvent(w)
  <2>1. HandsKept
    BY <1>2 DEF PollEvent, HandsKept
  <2>2. CASE UNCHANGED peerVars
    <3>1. PeerTypes' /\ BytesKept /\ UNCHANGED writing
      BY <1>0, <2>2 DEF peerVars, PeerTypes, BytesKept
    <3> QED BY <1>0, <2>1, <3>1, KeptStep
  <2>3. CASE handleErrors(Head(writeWaiting_))
    <3>1. CASE clientReset(Head(writeWaiting_), TRUE)
      BY <1>0, <2>1, <2>3, <3>1, ResetPeer DEF handleErrors
    <3>2. CASE UNCHANGED <<clients_, client, subscribers, files>>
      BY <2>2, <2>3, <3>2 DEF handleErrors, peerVars
    <3> QED BY <2>3, <3>1, <3>2 DEF handleErrors
  <2>4. CASE PollOut(Head(writeWaiting_))
    <3>1. client' \in [Objects -> ClientType] /\ BytesKept
      BY <1>0, <2>4, FieldTyped DEF PollOut, PeerTypes
    <3>2. PeerTypes' /\ UNCHANGED writing
      BY <1>0, <2>4, <3>1 DEF PollOut, PeerTypes
    <3> QED BY <1>0, <2>1, <3>1, <3>2, KeptStep
  <2> QED BY <1>2, <2>2, <2>3, <2>4 DEF PollEvent, PollError, PollNothing
<1>3. CASE Requeue(w)
  <2>1. HandsKept
    BY <1>0, <1>3 DEF Requeue, LoopHead, HandsKept, Sending
  <2>2. client' \in [Objects -> ClientType] /\ BytesKept
    <3>1. CASE client' = client
      BY <1>0, <3>1 DEF BytesKept, PeerTypes
    <3>2. CASE client' = [client EXCEPT ![currentClientPtr[w]].onWriteQueue = FALSE]
      BY <1>0, <3>2, FieldTyped DEF PeerTypes
    <3> QED BY <1>3, <3>1, <3>2 DEF Requeue, BackOnQueue
  <2>3. PeerTypes' /\ UNCHANGED writing
    BY <1>0, <1>3, <2>2 DEF Requeue, PeerTypes
  <2> QED BY <1>0, <2>1, <2>2, <2>3, KeptStep
<1> QED BY <1>1, <1>2, <1>3, BeginPeer, SendPeer, EndPeer DEF Worker

LEMMA NextPeer ==
  ASSUME QueueInv, PeerInv, received \in 0 .. MaxMessages, [Next]_vars
  PROVE  PeerInv'
<1>0. QueueTypes /\ pc \in [Workers -> PcValues] /\ PeerTypes
  BY DEF QueueInv, AwakeInv, PcInv, PeerInv
<1>1. CASE InPut
  <2>1. HandsKept
    BY <1>0, <1>1 DEF InPut, PutOnQueue, Signal, Sleeping, HandsKept, Sending
  <2>2. client' \in [Objects -> ClientType] /\ BytesKept
    <3>1. CASE client' = client
      BY <1>0, <3>1 DEF BytesKept, PeerTypes
    <3>2. CASE client' = [client EXCEPT ![Head(newPendingClients)].onWriteQueue = TRUE]
      BY <1>0, <3>2, FieldTyped DEF PeerTypes
    <3> QED BY <1>1, <3>1, <3>2 DEF InPut, PutOnQueue
  <2>3. PeerTypes' /\ UNCHANGED writing
    BY <1>0, <1>1, <2>2 DEF InPut, PeerTypes
  <2> QED BY <1>0, <2>1, <2>2, <2>3, KeptStep
<1>2. CASE InLock \/ InUnlock \/ InEnds \/ Stop \/ Broadcast \/ Join \/ UNCHANGED vars
  <2>1. HandsKept
    BY <1>0, <1>2 DEF InLock, InUnlock, InEnds, Stop, Broadcast, Join, vars, serverVars,
                      HandsKept, Sending
  <2>2. PeerTypes' /\ BytesKept /\ UNCHANGED writing
    BY <1>0, <1>2 DEF InLock, InUnlock, InEnds, Stop, Broadcast, Join, vars, peerVars,
                      PeerTypes, BytesKept
  <2> QED BY <1>0, <2>1, <2>2, KeptStep
<1>3. CASE Discovery
  BY <1>0, <1>3, DiscoveryPeer
<1>4. CASE InQueue
  BY <1>0, <1>4, InQueuePeer
<1> QED BY <1>1, <1>2, <1>3, <1>4, WorkerPeer DEF Next

-----------------------------------------------------------------------------
(***************************************************************************)
(* The pipe holds at most one byte for every message that has been put on  *)
(* the queues, and what is polled are descriptors.                         *)
(***************************************************************************)
Unlocking == IF inThread \in {"dispatch", "put"} THEN 1 ELSE 0

PipeInv ==
  /\ received \in 0 .. MaxMessages /\ inToOutPipe_ \in Nat
  /\ inToOutPipe_ + Unlocking <= received

LEMMA NextPipe == PipeInv /\ [Next]_vars => PipeInv'
<1> SUFFICES ASSUME PipeInv, [Next]_vars PROVE PipeInv'
  OBVIOUS
<1> USE BasePeerAssumption DEF PipeInv, Unlocking
<1>1. CASE UNCHANGED <<received, inThread, inToOutPipe_>>
  BY <1>1
<1>2. CASE InQueue
  <2>1. received' = received + 1 /\ received < MaxMessages /\ UNCHANGED inToOutPipe_
        /\ inThread = "read" /\ inThread' = "dispatch"
    BY <1>2 DEF InQueue, queueMsg, queueVars
  <2> QED BY <2>1
<1>3. CASE InUnlock
  <2>1. UNCHANGED received /\ inThread = "put" /\ inThread' = "read"
        /\ (inToOutPipe_' = inToOutPipe_ \/ inToOutPipe_' = inToOutPipe_ + 1)
    BY <1>3 DEF InUnlock, peerVars
  <2>2. Unlocking = 1 /\ Unlocking' = 0
    BY <2>1
  <2> HIDE DEF Unlocking
  <2> QED BY <2>1, <2>2
<1>4. CASE InLock \/ InEnds
  <2>1. UNCHANGED <<received, inToOutPipe_>> /\ Unlocking' = Unlocking
    BY <1>4 DEF InLock, InEnds, peerVars, queueVars
  <2> QED BY <2>1
<1>5. ASSUME NEW w \in Workers, PollReturns(w) PROVE PipeInv'
  <2>1. UNCHANGED <<received, inThread>>
        /\ inToOutPipe_' = IF inToOutPipe_ > 0 THEN inToOutPipe_ - 1 ELSE 0
    BY <1>5 DEF PollReturns, peerVars
  <2> QED BY <2>1
<1>6. ASSUME NEW w \in Workers, Worker(w) PROVE PipeInv'
  <2>1. CASE \/ Lock(w) \/ StartPoll(w) \/ TakeReady(w) \/ Wait(w) \/ EnterPoll(w)
             \/ PollTimesOut(w) \/ LockPolled(w) \/ PollEvent(w) \/ EndPoll(w) \/ Begin(w)
             \/ Send(w) \/ End(w) \/ Requeue(w)
    <3>1. UNCHANGED <<received, inThread, inToOutPipe_>>
      BY <2>1 DEF Lock, StartPoll, TakeReady, Wait, EnterPoll, PollTimesOut, LockPolled, PollEvent,
                  PollError, PollOut, PollNothing, handleErrors, EndPoll, Begin, ChooseMessage,
                  Send, send, End, recordWrite, Requeue, peerVars, queueVars
    <3> QED BY <1>1, <3>1
  <2> QED BY <1>5, <1>6, <2>1 DEF Worker
<1>7. CASE Discovery \/ InPut \/ Stop \/ Broadcast \/ Join \/ UNCHANGED vars
  <2>1. UNCHANGED <<received, inThread, inToOutPipe_>>
    BY <1>7 DEF Discovery, Connect, ConnectFails, Subscribe, Unsubscribe, Break, InPut, Stop,
                Broadcast, Join, vars, serverVars, peerVars, queueVars
  <2> QED BY <2>1
<1> QED BY <1>2, <1>3, <1>4, <1>6, <1>7 DEF Next

DescriptorType ==
  [fd : Fds \union {Closed}, to : Connections \union {0}, revents : {"none", "out", "error"}]

FdsInv == writefds_ \in Seq(DescriptorType)

LEMMA NextFds ==
  ASSUME QueueInv, PeerTypes, FdsInv, [Next]_vars
  PROVE  FdsInv'
<1> USE DEF FdsInv
<1>0. /\ QueueTypes /\ Len(writeWaiting_) \in Nat /\ DOMAIN writefds_ = 1 .. Len(writefds_)
      /\ Len(writefds_) \in Nat
  BY DEF QueueInv, QueueTypes
<1>1. ASSUME NEW n \in Nat, writefds_' = [i \in 1 .. n |-> writefds_'[i]],
             \A i \in 1 .. n : writefds_'[i] \in DescriptorType
      PROVE  FdsInv'
  <2>1. writefds_' \in [1 .. n -> DescriptorType]
    BY <1>1
  <2> QED BY <2>1
<1>2. ASSUME NEW w \in Workers, StartPoll(w) PROVE FdsInv'
  <2>1. writefds_' = [i \in 1 .. Len(writeWaiting_) |->
                        [fd |-> client[writeWaiting_[i]].fd, to |-> 0, revents |-> "none"]]
    BY <1>2 DEF StartPoll
  <2>2. ASSUME NEW i \in 1 .. Len(writeWaiting_) PROVE writefds_'[i] \in DescriptorType
    <3>1. client[writeWaiting_[i]] \in ClientType
      BY <1>0 DEF QueueTypes, PeerTypes
    <3> QED BY <2>1, <3>1 DEF ClientType, DescriptorType
  <2> QED BY <1>0, <1>1, <2>1, <2>2
<1>3. ASSUME NEW w \in Workers, EnterPoll(w) PROVE FdsInv'
  <2> DEFINE to(i) == IF writefds_[i].fd = Closed THEN 0 ELSE files[writefds_[i].fd]
  <2>1. writefds_' = [i \in 1 .. Len(writefds_) |->
                        [fd |-> writefds_[i].fd, to |-> to(i),
                         revents |-> IF writefds_[i].fd # Closed /\ to(i) = 0 THEN "error" ELSE "none"]]
    BY <1>0, <1>3 DEF EnterPoll
  <2>2. ASSUME NEW i \in 1 .. Len(writefds_) PROVE writefds_'[i] \in DescriptorType
    <3>1. writefds_[i] \in DescriptorType
      OBVIOUS
    <3>2. writefds_[i].fd \in Fds \union {Closed} /\ to(i) \in Connections \union {0}
      BY <3>1 DEF DescriptorType, PeerTypes
    <3> HIDE DEF to
    <3> QED BY <2>1, <3>2 DEF DescriptorType
  <2> QED BY <1>0, <1>1, <2>1, <2>2
<1>4. ASSUME NEW w \in Workers, PollReturns(w) PROVE FdsInv'
  <2>1. PICK out : writefds_' = [i \in 1 .. Len(writefds_) |->
                     [fd |-> Closed, to |-> 0,
                      revents |-> CASE InError(i) -> "error" [] i \in out -> "out"
                                    [] OTHER -> "none"]]
    BY <1>0, <1>4 DEF PollReturns
  <2>2. ASSUME NEW i \in 1 .. Len(writefds_) PROVE writefds_'[i] \in DescriptorType
    BY <2>1 DEF DescriptorType
  <2> QED BY <1>0, <1>1, <2>1, <2>2
<1>5. CASE writefds_' = writefds_
  BY <1>5
<1>6. ASSUME NEW w \in Workers, Worker(w) PROVE FdsInv'
  <2>1. CASE \/ Lock(w) \/ TakeReady(w) \/ Wait(w) \/ LockPolled(w) \/ EndPoll(w) \/ Begin(w)
             \/ Send(w) \/ End(w) \/ Requeue(w)
    BY <1>5, <2>1 DEF Lock, TakeReady, Wait, LockPolled, EndPoll, Begin, Send, End, Requeue, queueVars
  <2>2. CASE PollTimesOut(w)
    BY <2>2 DEF PollTimesOut
  <2>3. CASE PollEvent(w)
    BY <2>3 DEF PollEvent
  <2> QED BY <1>2, <1>3, <1>4, <1>6, <2>1, <2>2, <2>3 DEF Worker
<1>7. CASE \/ Discovery \/ InQueue \/ InLock \/ InPut \/ InUnlock \/ InEnds \/ Stop \/ Broadcast
           \/ Join \/ UNCHANGED vars
  BY <1>5, <1>7 DEF Discovery, InQueue, InLock, InPut, InUnlock, InEnds, Stop, Broadcast, Join,
                    vars, serverVars, queueVars
<1> QED BY <1>6, <1>7 DEF Next

-----------------------------------------------------------------------------
(***************************************************************************)
(* The server with all that its type rests on.                             *)
(***************************************************************************)
ServerInv == QueueInv /\ HoldsInv /\ PeerInv /\ PipeInv /\ FdsInv

LEMMA InitServer == Init => ServerInv
<1> SUFFICES ASSUME Init PROVE ServerInv
  OBVIOUS
<1>1. PipeInv /\ FdsInv
  BY BasePeerAssumption DEF Init, PeerInit, PipeInv, Unlocking, FdsInv
<1> QED BY <1>1, InitQueue, InitHolds, InitPeer DEF ServerInv

LEMMA NextServer == ServerInv /\ [Next]_vars => ServerInv'
<1> SUFFICES ASSUME ServerInv, [Next]_vars PROVE ServerInv'
  OBVIOUS
<1>1. QueueInv /\ HoldsInv /\ PeerInv /\ PipeInv /\ FdsInv
  BY DEF ServerInv
<1>2. PeerTypes /\ received \in 0 .. MaxMessages
  BY <1>1 DEF PeerInv, PipeInv
<1> QED BY <1>1, <1>2, NextQueue, NextHolds, NextPeer, NextPipe, NextFds DEF ServerInv

LEMMA ServerTyped == ServerInv => TypeOK
<1> SUFFICES ASSUME ServerInv PROVE TypeOK
  OBVIOUS
<1>1. /\ clients_ \in [Hosts -> 0 .. MaxObjects] /\ made \in [Hosts -> 0 .. MaxObjects]
      /\ client \in [Objects -> ClientType] /\ subscribers \subseteq Objects
      /\ files \in [Fds -> Connections \union {0}]
      /\ Len(stream) <= MaxConnections /\ broken \subseteq 1 .. Len(stream)
      /\ writing \in [Workers -> WriteType] /\ newPendingClients \in Seq(Objects)
  BY DEF ServerInv, QueueInv, WakeInv, PeerInv, PeerTypes
<1>2. /\ running_ \in {"running", "stopping", "crashed"}
      /\ inThread \in {"read", "dispatch", "put", "done"}
      /\ inThread = "put" <=> writeQueuesMutex_ = Input
      /\ writeReady_ \in Seq(Objects) /\ writeWaiting_ \in Seq(Objects)
  BY DEF ServerInv, HoldsInv, QueueInv, QueueTypes
<1>3. received \in 0 .. MaxMessages /\ inToOutPipe_ \in 0 .. MaxMessages
  BY BasePeerAssumption DEF ServerInv, PipeInv, Unlocking
<1>4. writefds_ \in Seq([fd : Fds \union {Closed}, to : Connections \union {0},
                         revents : {"none", "out", "error"}])
  BY DEF ServerInv, FdsInv, DescriptorType
<1>5. \A w \in Workers :
       /\ writeQueuesMutex_ = w <=> pc[w] \in {"loop", "events"}
       /\ writeWaitingMutex_ = w <=> pc[w] \in {"enter", "poll", "polled", "events"}
       /\ currentClientPtr[w] # NoClient <=> pc[w] \in {"write", "send", "sent", "requeue"}
  BY DEF ServerInv, HoldsInv, Writing, QueueInv, AwakeInv, PcInv, Polling
<1> QED BY <1>1, <1>2, <1>3, <1>4, <1>5 DEF TypeOK

\* The state keeps its types, and a mutex is held by the thread, and only by it, that is
\* between its lock and its unlock (Server.cc:240-275, 345-395, 405-450): a partial write
\* leaves bytesWrittenSoFar inside the frame, and the pipe never holds more bytes than
\* messages have been put on the queues.
THEOREM TypeOKAlways == Spec => []TypeOK
BY InitServer, NextServer, ServerTyped, PTL DEF Spec

-----------------------------------------------------------------------------
(***************************************************************************)
(* The streams.  A worker sends without a lock on a descriptor it has read *)
(* before (BasePeer.cc:338); what follows holds as long as the descriptor  *)
(* is not another connection's by then.                                    *)
(***************************************************************************)
NotReused ==
  \A w \in Workers : pc[w] = "send" => files[writing[w].fd] \in {0, writing[w].fdStamp}

(***************************************************************************)
(* A connection, its descriptor and its client know each other.            *)
(***************************************************************************)
NumberOK(c) ==
  /\ Connected(c) => /\ client[c].fdStamp \in DOMAIN stream
                     /\ stream[client[c].fdStamp].client = c
                     /\ files[client[c].fd] = client[c].fdStamp
  /\ ~Connected(c) => client[c].fdStamp = 0

FileOK(fd) ==
  files[fd] # 0 => files[fd] \in DOMAIN stream /\ client[stream[files[fd]].client].fd = fd

(***************************************************************************)
(* What a worker has under its hands is the current message of the client, *)
(* if the client is still on that connection.                              *)
(***************************************************************************)
MatchOK(w) ==
  LET d == writing[w]
      c == currentClientPtr[w]
  IN  /\ d.fdStamp \in DOMAIN stream /\ stream[d.fdStamp].client = c
      /\ client[c].fdStamp = d.fdStamp => client[c].currentOutboundMessage = d.msg
      /\ pc[w] = "sent" /\ d.status = "full" =>
           \E i \in DOMAIN stream[d.fdStamp].bytes :
             stream[d.fdStamp].bytes[i] = <<d.msg, FrameLength>>

(***************************************************************************)
(* The outBox has the messages in the order they were received, the last   *)
(* being at most the n-th, and the current message is not behind any.      *)
(***************************************************************************)
Rising(r, n) ==
  /\ \A i, j \in DOMAIN r.outBox : i < j => r.outBox[i] < r.outBox[j]
  /\ \A i \in DOMAIN r.outBox : r.outBox[i] <= n /\ r.currentOutboundMessage <= r.outBox[i]
  /\ r.currentOutboundMessage <= n

Due(r) ==
  {q \in Messages : q = r.currentOutboundMessage \/ \E i \in DOMAIN r.outBox : q = r.outBox[i]}

(***************************************************************************)
(* What has been sent on the connection of a client is older than what is  *)
(* due, except for the part of a frame that the client or the worker that  *)
(* has it in hand knows of.                                                *)
(***************************************************************************)
Done(c, n) ==
  \/ n <= client[c].bytesWrittenSoFar
  \/ \E w \in Workers : /\ pc[w] = "sent" /\ currentClientPtr[w] = c
                        /\ writing[w].fdStamp = client[c].fdStamp
                        /\ n <= writing[w].offset + writing[w].sent

Recent(c, s, D) ==
  \A i \in DOMAIN s, q \in D : s[i][1] <= q /\ (s[i][1] = q => Done(c, s[i][2]))

FreshOK(c) ==
  Connected(c) => Recent(c, stream[client[c].fdStamp].bytes, Due(client[c]))

Before(a, b) == a[1] < b[1] \/ (a[1] = b[1] /\ a[2] < b[2])

StreamOK(k) ==
  LET s == stream[k].bytes
  IN  /\ \A i \in DOMAIN s : s[i][1] <= received
      /\ \A i, j \in DOMAIN s : i < j => Before(s[i], s[j])

ClientOK(c) == NumberOK(c) /\ Rising(client[c], received) /\ FreshOK(c)

StreamInv ==
  /\ \A c \in Objects : ClientOK(c)
  /\ \A fd \in Fds : FileOK(fd)
  /\ \A w \in Workers : pc[w] \in Sending => MatchOK(w)
  /\ \A k \in DOMAIN stream : StreamOK(k)

LEMMA InitStream == Init => StreamInv
<1> SUFFICES ASSUME Init PROVE StreamInv
  OBVIOUS
<1>1. /\ client = [c \in Objects |-> NewClient] /\ stream = <<>> /\ received = 0
      /\ files = [n \in Fds |-> 0] /\ pc = [w \in Workers |-> "lock"]
  BY DEF Init, PeerInit
<1>2. ASSUME NEW c \in Objects PROVE ClientOK(c)
  BY <1>1 DEF ClientOK, NumberOK, Connected, NewClient, Closed, NoMsg, Rising, FreshOK
<1> QED BY <1>1, <1>2 DEF StreamInv, FileOK, Sending

-----------------------------------------------------------------------------
(***************************************************************************)
(* The outBox, by what is done to it.                                      *)
(***************************************************************************)
LEMMA TypedClient ==
  ASSUME NEW r \in ClientType
  PROVE  /\ r.outBox \in Seq(Messages) /\ DOMAIN r.outBox = 1 .. Len(r.outBox)
         /\ Len(r.outBox) \in Nat
         /\ \A i \in DOMAIN r.outBox : r.outBox[i] \in Messages /\ r.outBox[i] \in Nat
         /\ r.currentOutboundMessage \in Nat /\ r.bytesWrittenSoFar \in Nat
         /\ r.currentOutboundMessage # NoMsg => r.currentOutboundMessage \in Messages
BY BasePeerAssumption DEF ClientType, Messages, NoMsg

LEMMA RisingReset ==
  ASSUME NEW r \in ClientType, NEW n \in Nat
  PROVE  /\ Rising(Reset(r), n) /\ Reset(r).fd = Closed /\ Reset(r).fdStamp = 0
BY DEF Reset, ClientType, Rising, NoMsg

LEMMA RisingQueued ==
  ASSUME NEW r \in ClientType, NEW n \in Nat, n + 1 \in Messages, Rising(r, n), NEW old
  PROVE  LET s == Queued(r, n + 1, old) IN
         /\ Rising(s, n + 1) /\ s.fd = r.fd /\ s.fdStamp = r.fdStamp
         /\ s.currentOutboundMessage = r.currentOutboundMessage
         /\ s.bytesWrittenSoFar = r.bytesWrittenSoFar
         /\ \A q \in Due(s) : q \in Due(r) \/ q = n + 1
         /\ ~staleThresholdValid => s.outBox = Append(r.outBox, n + 1)
<1> DEFINE box == Pruned(Append(r.outBox, n + 1), old)
           all == Append(r.outBox, n + 1)
<1>0. /\ r.outBox \in Seq(Messages) /\ DOMAIN r.outBox = 1 .. Len(r.outBox)
      /\ Len(r.outBox) \in Nat /\ r.currentOutboundMessage \in Nat
      /\ \A i \in DOMAIN r.outBox : r.outBox[i] \in Nat
  BY TypedClient
<1>1. PICK s : s = Queued(r, n + 1, old)
  OBVIOUS
<1>2. /\ s.outBox = box /\ s.fd = r.fd /\ s.fdStamp = r.fdStamp
      /\ s.currentOutboundMessage = r.currentOutboundMessage
      /\ s.bytesWrittenSoFar = r.bytesWrittenSoFar
  BY <1>1 DEF Queued, ClientType
<1>3. /\ all \in Seq(Messages) /\ Len(all) = Len(r.outBox) + 1 /\ DOMAIN all = 1 .. Len(all)
      /\ all[Len(all)] = n + 1 /\ \A i \in 1 .. Len(r.outBox) : all[i] = r.outBox[i]
  BY <1>0
<1>4. /\ \A i, j \in 1 .. Len(all) : i < j => all[i] < all[j]
      /\ \A i \in 1 .. Len(all) : all[i] <= n + 1 /\ r.currentOutboundMessage <= all[i]
  <2>1. ASSUME NEW i \in 1 .. Len(all)
        PROVE  /\ all[i] <= n + 1 /\ r.currentOutboundMessage <= all[i]
               /\ i # Len(all) => all[i] < n + 1
    <3>1. CASE i \in 1 .. Len(r.outBox)
      BY <1>0, <1>3, <3>1 DEF Rising
    <3>2. CASE i = Len(all)
      BY <1>0, <1>3, <3>2 DEF Rising
    <3> HIDE DEF all
    <3> QED BY <1>0, <1>3, <3>1, <3>2
  <2>2. ASSUME NEW i \in 1 .. Len(all), NEW j \in 1 .. Len(all), i < j PROVE all[i] < all[j]
    <3> HIDE DEF all
    <3>1. CASE j = Len(all)
      BY <1>0, <1>3, <2>1, <2>2, <3>1
    <3>2. CASE j # Len(all)
      <4>1. i \in DOMAIN r.outBox /\ j \in DOMAIN r.outBox
        BY <1>0, <1>3, <2>2, <3>2
      <4> QED BY <1>0, <1>3, <2>2, <4>1 DEF Rising
    <3> QED BY <3>1, <3>2
  <2> QED BY <2>1, <2>2
<1>5. PICK i \in 1 .. Len(all) + 1 : box = SubSeq(all, i, Len(all)) /\ (~staleThresholdValid => i = 1)
  BY <1>3, PrunedIsSuffix
<1> HIDE DEF all
<1>6. /\ box \in Seq(Messages) /\ Len(box) = Len(all) - i + 1 /\ DOMAIN box = 1 .. Len(box)
      /\ \A j \in 1 .. Len(box) : box[j] = all[j + i - 1] /\ j + i - 1 \in 1 .. Len(all)
      /\ i = 1 => box = all
  <2>1. /\ SubSeq(all, i, Len(all)) \in Seq(Messages)
        /\ Len(SubSeq(all, i, Len(all))) = Len(all) - i + 1
        /\ \A j \in 1 .. Len(all) - i + 1 : SubSeq(all, i, Len(all))[j] = all[j + i - 1]
        /\ i = 1 => SubSeq(all, i, Len(all)) = all
    BY <1>3, SuffixIs
  <2>2. Len(all) \in Nat
    BY <1>3
  <2> HIDE DEF box
  <2> QED BY <1>5, <2>1, <2>2
<1> HIDE DEF box
<1>7. Rising(s, n + 1)
  <2>1. ASSUME NEW j \in DOMAIN box PROVE box[j] <= n + 1 /\ r.currentOutboundMessage <= box[j]
    BY <1>4, <1>6
  <2>2. ASSUME NEW j \in DOMAIN box, NEW k \in DOMAIN box, j < k PROVE box[j] < box[k]
    <3>1. j + i - 1 < k + i - 1
      BY <1>6, <2>2
    <3> QED BY <1>4, <1>6, <3>1
  <2>3. r.currentOutboundMessage <= n + 1
    BY <1>0 DEF Rising
  <2> QED BY <1>2, <2>1, <2>2, <2>3 DEF Rising
<1>8. ASSUME NEW q \in Due(s) PROVE q \in Due(r) \/ q = n + 1
  <2>1. CASE q = s.currentOutboundMessage
    BY <1>2, <1>8, <2>1 DEF Due
  <2>2. ASSUME NEW j \in DOMAIN s.outBox, q = s.outBox[j] PROVE q \in Due(r) \/ q = n + 1
    <3>1. PICK m \in 1 .. Len(all) : q = all[m]
      BY <1>2, <1>6, <2>2
    <3>2. CASE m = Len(all)
      BY <1>3, <3>1, <3>2
    <3>3. CASE m # Len(all)
      <4>1. m \in DOMAIN r.outBox /\ q = r.outBox[m]
        BY <1>0, <1>3, <3>1, <3>3
      <4> QED BY <1>8, <4>1 DEF Due
    <3> QED BY <3>2, <3>3
  <2> QED BY <1>8, <2>1, <2>2 DEF Due
<1>9. ~staleThresholdValid => s.outBox = Append(r.outBox, n + 1)
  BY <1>2, <1>5, <1>6 DEF all
<1> QED BY <1>1, <1>2, <1>7, <1>8, <1>9

LEMMA RisingChosen ==
  ASSUME NEW r \in ClientType, NEW n \in Nat, Rising(r, n),
         NEW m,
         \/ r.currentOutboundMessage # NoMsg /\ m = r.currentOutboundMessage
         \/ r.currentOutboundMessage = NoMsg /\ r.outBox # <<>> /\ m = Head(r.outBox),
         NEW s, s.outBox = r.outBox, s.currentOutboundMessage = m
  PROVE  Rising(s, n) /\ Due(s) \subseteq Due(r)
<1>0. /\ r.outBox \in Seq(Messages) /\ DOMAIN r.outBox = 1 .. Len(r.outBox)
      /\ Len(r.outBox) \in Nat /\ r.currentOutboundMessage \in Nat
      /\ \A i \in DOMAIN r.outBox : r.outBox[i] \in Nat
  BY TypedClient
<1>2. CASE r.currentOutboundMessage # NoMsg
  BY <1>2 DEF Rising, Due
<1>3. CASE r.currentOutboundMessage = NoMsg
  <2>1. 1 \in DOMAIN r.outBox /\ m = r.outBox[1]
    BY <1>0, <1>3
  <2>2. \A i \in DOMAIN r.outBox : m <= r.outBox[i]
    BY <1>0, <2>1 DEF Rising
  <2>3. Rising(s, n)
    BY <1>0, <2>1, <2>2 DEF Rising
  <2> QED BY <2>1, <2>3 DEF Due
<1> QED BY <1>2, <1>3

LEMMA RisingFull ==
  ASSUME NEW r \in ClientType, NEW n \in Nat, Rising(r, n), r.currentOutboundMessage # NoMsg
  PROVE  LET s == Full(r) IN
         /\ Rising(s, n) /\ s.fd = r.fd /\ s.fdStamp = r.fdStamp
         /\ \A q \in Due(s) : r.currentOutboundMessage < q
         /\ \A i \in DOMAIN r.outBox :
              \/ r.outBox[i] = r.currentOutboundMessage
              \/ \E j \in DOMAIN s.outBox : s.outBox[j] = r.outBox[i]
<1> DEFINE cur == r.currentOutboundMessage
           box == IF r.outBox # <<>> /\ Head(r.outBox) = cur THEN Tail(r.outBox) ELSE r.outBox
<1>0. /\ r.outBox \in Seq(Messages) /\ DOMAIN r.outBox = 1 .. Len(r.outBox)
      /\ Len(r.outBox) \in Nat /\ cur \in Nat
      /\ \A i \in DOMAIN r.outBox : r.outBox[i] \in Nat
  BY TypedClient
<1>1. PICK s : s = Full(r)
  OBVIOUS
<1>2. /\ s.outBox = box /\ s.fd = r.fd /\ s.fdStamp = r.fdStamp /\ s.currentOutboundMessage = NoMsg
  BY <1>1 DEF Full, ClientType
<1>3. \E e \in {0, 1} : /\ DOMAIN box = 1 .. Len(r.outBox) - e
                        /\ \A i \in 1 .. Len(r.outBox) - e :
                             i + e \in DOMAIN r.outBox /\ box[i] = r.outBox[i + e]
                        /\ e = 1 => r.outBox[1] = cur
                        /\ e = 0 => r.outBox = <<>> \/ r.outBox[1] # cur
  <2>1. CASE r.outBox # <<>> /\ Head(r.outBox) = cur
    <3>1. /\ DOMAIN box = 1 .. Len(r.outBox) - 1 /\ r.outBox[1] = cur
          /\ \A i \in 1 .. Len(r.outBox) - 1 : i + 1 \in DOMAIN r.outBox /\ box[i] = r.outBox[i + 1]
      BY <1>0, <2>1
    <3> QED BY <3>1
  <2>2. CASE ~(r.outBox # <<>> /\ Head(r.outBox) = cur)
    <3>1. /\ DOMAIN box = 1 .. Len(r.outBox) - 0 /\ (r.outBox = <<>> \/ r.outBox[1] # cur)
          /\ \A i \in 1 .. Len(r.outBox) - 0 : i + 0 \in DOMAIN r.outBox /\ box[i] = r.outBox[i + 0]
      BY <1>0, <2>2
    <3> QED BY <3>1
  <2> QED BY <2>1, <2>2
<1> HIDE DEF box
<1>4. PICK e \in {0, 1} : /\ DOMAIN box = 1 .. Len(r.outBox) - e
                          /\ \A i \in 1 .. Len(r.outBox) - e :
                               i + e \in DOMAIN r.outBox /\ box[i] = r.outBox[i + e]
                          /\ e = 1 => r.outBox[1] = cur
                          /\ e = 0 => r.outBox = <<>> \/ r.outBox[1] # cur
  BY <1>3
<1>5. ASSUME NEW i \in DOMAIN r.outBox, i > e PROVE cur < r.outBox[i]
  <2>1. 1 \in DOMAIN r.outBox /\ cur <= r.outBox[1] /\ cur <= r.outBox[i]
    BY <1>0 DEF Rising
  <2>2. CASE i = 1
    <3>1. e = 0 /\ r.outBox # <<>>
      BY <1>0, <1>5, <2>2
    <3> QED BY <1>0, <1>4, <2>1, <2>2, <3>1
  <2>3. CASE i # 1
    <3>1. r.outBox[1] < r.outBox[i]
      BY <1>0, <2>1, <2>3 DEF Rising
    <3> QED BY <1>0, <2>1, <3>1
  <2> QED BY <2>2, <2>3
<1>6. \A i \in DOMAIN box : i + e \in DOMAIN r.outBox /\ i + e > e /\ box[i] = r.outBox[i + e] /\ i \in Nat
  BY <1>0, <1>4
<1>7. Rising(s, n)
  <2>1. ASSUME NEW i \in DOMAIN box, NEW j \in DOMAIN box, i < j PROVE box[i] < box[j]
    <3>1. i + e < j + e
      BY <1>6, <2>1
    <3> QED BY <1>6, <3>1 DEF Rising
  <2>2. ASSUME NEW i \in DOMAIN box PROVE box[i] <= n /\ NoMsg <= box[i]
    BY <1>0, <1>6 DEF Rising, NoMsg
  <2> QED BY <1>2, <2>1, <2>2 DEF Rising, NoMsg
<1>8. ASSUME NEW q \in Due(s) PROVE cur < q
  <2>1. q # NoMsg
    BY DEF Due, Messages, NoMsg
  <2>2. PICK i \in DOMAIN box : q = box[i]
    BY <1>2, <1>8, <2>1 DEF Due
  <2> QED BY <1>5, <1>6, <2>2
<1>9. ASSUME NEW i \in DOMAIN r.outBox, r.outBox[i] # cur
      PROVE  \E j \in DOMAIN s.outBox : s.outBox[j] = r.outBox[i]
  <2>1. i - e \in DOMAIN box
    BY <1>0, <1>4, <1>9
  <2>2. box[i - e] = r.outBox[(i - e) + e] /\ (i - e) + e = i
    BY <1>0, <1>6, <2>1
  <2> QED BY <1>2, <2>1, <2>2
<1> QED BY <1>1, <1>2, <1>7, <1>8, <1>9

-----------------------------------------------------------------------------
(***************************************************************************)
(* What a step leaves alone.                                               *)
(***************************************************************************)
HandSame(w) ==
  pc'[w] = pc[w] /\ currentClientPtr'[w] = currentClientPtr[w] /\ writing'[w] = writing[w]

SameWrite(c) ==
  /\ client'[c].fd = client[c].fd /\ client'[c].fdStamp = client[c].fdStamp
  /\ client'[c].outBox = client[c].outBox
  /\ client'[c].currentOutboundMessage = client[c].currentOutboundMessage
  /\ client'[c].bytesWrittenSoFar = client[c].bytesWrittenSoFar

LEMMA DoneKept ==
  ASSUME NEW c, NEW n, client'[c].fdStamp = client[c].fdStamp,
         client'[c].bytesWrittenSoFar = client[c].bytesWrittenSoFar,
         \A w \in Workers : pc[w] = "sent" /\ currentClientPtr[w] = c => HandSame(w),
         Done(c, n)
  PROVE  Done(c, n)'
<1>1. CASE n <= client[c].bytesWrittenSoFar
  BY <1>1 DEF Done
<1>2. ASSUME NEW w \in Workers, pc[w] = "sent", currentClientPtr[w] = c,
             writing[w].fdStamp = client[c].fdStamp, n <= writing[w].offset + writing[w].sent
      PROVE  Done(c, n)'
  <2>1. HandSame(w)
    BY <1>2
  <2> QED BY <1>2, <2>1 DEF HandSame, Done
<1> QED BY <1>1, <1>2 DEF Done

LEMMA ClientKept ==
  ASSUME NEW c \in Objects, client[c] \in ClientType, ClientOK(c), SameWrite(c),
         received \in Nat, received' \in Nat, received <= received',
         Connected(c) =>
           /\ files'[client[c].fd] = files[client[c].fd]
           /\ client[c].fdStamp \in DOMAIN stream'
           /\ stream'[client[c].fdStamp] = stream[client[c].fdStamp],
         \A w \in Workers : pc[w] = "sent" /\ currentClientPtr[w] = c => HandSame(w)
  PROVE  ClientOK(c)'
<1>0. /\ client[c].currentOutboundMessage \in Nat
      /\ \A i \in DOMAIN client[c].outBox : client[c].outBox[i] \in Nat
  BY TypedClient
<1>1. NumberOK(c)'
  BY DEF ClientOK, NumberOK, SameWrite, Connected
<1>2. Rising(client'[c], received')
  BY <1>0 DEF ClientOK, SameWrite, Rising
<1>3. Due(client'[c]) = Due(client[c])
  BY DEF SameWrite, Due
<1>4. FreshOK(c)'
  <2>1. CASE ~Connected(c)
    BY <2>1 DEF FreshOK, Connected, SameWrite
  <2>2. CASE Connected(c)
    <3>1. PICK s, D : s = stream[client[c].fdStamp].bytes /\ D = Due(client[c])
      OBVIOUS
    <3>2. Recent(c, s, D)
      BY <2>2, <3>1 DEF ClientOK, FreshOK
    <3>3. ASSUME NEW n, Done(c, n) PROVE Done(c, n)'
      BY <3>3, DoneKept DEF SameWrite
    <3>4. Recent(c, s, D)'
      BY <3>2, <3>3 DEF Recent
    <3>5. stream'[client'[c].fdStamp].bytes = s /\ Due(client'[c]) = D
      BY <1>3, <2>2, <3>1 DEF SameWrite
    <3> QED BY <3>4, <3>5 DEF FreshOK, Recent, Done
  <2> QED BY <2>1, <2>2
<1> QED BY <1>1, <1>2, <1>4 DEF ClientOK

LEMMA MatchKept ==
  ASSUME NEW w \in Workers, MatchOK(w), HandSame(w),
         writing[w].fdStamp \in DOMAIN stream',
         stream'[writing[w].fdStamp] = stream[writing[w].fdStamp],
         client'[currentClientPtr[w]].fdStamp = writing[w].fdStamp =>
           /\ client[currentClientPtr[w]].fdStamp = writing[w].fdStamp
           /\ client'[currentClientPtr[w]].currentOutboundMessage
                = client[currentClientPtr[w]].currentOutboundMessage
  PROVE  MatchOK(w)'
BY DEF MatchOK, HandSame

LEMMA StreamKept ==
  ASSUME NEW k \in DOMAIN stream, stream \in Seq(StreamType), StreamOK(k), stream'[k] = stream[k],
         received \in Nat, received' \in Nat, received <= received'
  PROVE  StreamOK(k)'
<1>1. stream[k] \in StreamType
  OBVIOUS
<1>2. stream[k].bytes \in Seq(Messages \X (1 .. FrameLength))
  BY <1>1 DEF StreamType
<1>3. \A i \in DOMAIN stream[k].bytes : stream[k].bytes[i][1] \in Nat
  BY <1>2 DEF Messages
<1> QED BY <1>3 DEF StreamOK

LEMMA StreamFacts ==
  ASSUME ServerInv
  PROVE  /\ stream \in Seq(StreamType) /\ DOMAIN stream = 1 .. Len(stream) /\ Len(stream) \in Nat
         /\ \A k \in DOMAIN stream : stream[k].client \in Objects /\ k \in Nat /\ k # 0
         /\ \A c \in Objects : client[c] \in ClientType
         /\ files \in [Fds -> Connections \union {0}]
         /\ client = [c \in Objects |-> client[c]]
         /\ received \in Nat
         /\ pc \in [Workers -> PcValues]
         /\ \A w \in Workers : pc[w] \in Sending =>
              /\ currentClientPtr[w] \in Objects /\ writing[w] \in WriteType
              /\ HandOK(w)
         /\ \A v, w \in Workers : pc[v] \in Sending /\ pc[w] \in Sending
              /\ currentClientPtr[v] = currentClientPtr[w] => v = w
<1>1. /\ stream \in Seq(StreamType) /\ client \in [Objects -> ClientType]
      /\ files \in [Fds -> Connections \union {0}] /\ writing \in [Workers -> WriteType]
      /\ received \in Nat /\ pc \in [Workers -> PcValues] /\ HandInv
  BY DEF ServerInv, PeerInv, PeerTypes, PipeInv, QueueInv, AwakeInv, PcInv
<1>2. \A k \in DOMAIN stream : stream[k] \in StreamType /\ k \in Nat /\ k # 0
  BY <1>1
<1>3. \A k \in DOMAIN stream : stream[k].client \in Objects
  BY <1>2 DEF StreamType
<1>4. \A w \in Workers : pc[w] \in Sending => currentClientPtr[w] \in Objects
  BY DEF ServerInv, QueueInv, QueueTypes, Sending, Writing
<1>5. ASSUME NEW v \in Workers, NEW w \in Workers, pc[v] \in Sending, pc[w] \in Sending,
             currentClientPtr[v] = currentClientPtr[w]
      PROVE  v = w
  BY <1>4, <1>5, NoClientIsNone DEF ServerInv, QueueInv, OnceOnQueues
<1> QED BY <1>1, <1>2, <1>3, <1>4, <1>5 DEF HandInv

(***************************************************************************)
(* A step that changes no client in what the streams depend on.            *)
(***************************************************************************)
LEMMA QuietStream ==
  ASSUME ServerInv, StreamInv, \A c \in Objects : SameWrite(c),
         UNCHANGED <<files, stream, received>>,
         \A w \in Workers : pc'[w] \in Sending => HandSame(w),
         \A w \in Workers : pc[w] \in Sending => HandSame(w)
  PROVE  StreamInv'
<1>0. /\ stream \in Seq(StreamType) /\ \A k \in DOMAIN stream : stream[k].client \in Objects
      /\ \A c \in Objects : client[c] \in ClientType
      /\ files \in [Fds -> Connections \union {0}]
      /\ received \in Nat /\ received <= received'
      /\ \A w \in Workers : pc[w] \in Sending => currentClientPtr[w] \in Objects
  BY StreamFacts
<1>1. ASSUME NEW c \in Objects PROVE ClientOK(c)'
  <2>1. ClientOK(c) /\ SameWrite(c)
    BY DEF StreamInv
  <2>2. \A w \in Workers : pc[w] = "sent" /\ currentClientPtr[w] = c => HandSame(w)
    BY DEF Sending
  <2>3. Connected(c) => client[c].fdStamp \in DOMAIN stream
    BY <2>1 DEF ClientOK, NumberOK
  <2> QED BY <1>0, <2>1, <2>2, <2>3, ClientKept
<1>2. ASSUME NEW fd \in Fds PROVE FileOK(fd)'
  <2>1. FileOK(fd) /\ files'[fd] = files[fd] /\ stream' = stream
    BY DEF StreamInv
  <2> QED BY <1>0, <2>1 DEF FileOK, SameWrite
<1>3. ASSUME NEW w \in Workers, pc'[w] \in Sending PROVE MatchOK(w)'
  <2>1. HandSame(w) /\ pc[w] \in Sending
    BY <1>3 DEF HandSame
  <2>2. MatchOK(w) /\ SameWrite(currentClientPtr[w]) /\ writing[w].fdStamp \in DOMAIN stream
    BY <1>0, <2>1 DEF StreamInv, MatchOK
  <2> QED BY <2>1, <2>2, MatchKept DEF SameWrite
<1>4. ASSUME NEW k \in DOMAIN stream' PROVE StreamOK(k)'
  BY <1>0, StreamKept DEF StreamInv
<1> QED BY <1>1, <1>2, <1>3, <1>4 DEF StreamInv

(***************************************************************************)
(* Two clients are not on one connection, nor on one descriptor.           *)
(***************************************************************************)
LEMMA Apart ==
  ASSUME StreamInv, NEW c \in Objects, NEW d \in Objects, c # d, Connected(c), Connected(d)
  PROVE  client[c].fdStamp # client[d].fdStamp /\ client[c].fd # client[d].fd
BY DEF StreamInv, ClientOK, NumberOK

(***************************************************************************)
(* A connection is closed.                                                 *)
(***************************************************************************)
LEMMA ResetStream ==
  ASSUME ServerInv, StreamInv, NEW c \in Objects, clientReset(c, TRUE),
         UNCHANGED <<stream, received>>,
         \A w \in Workers : pc'[w] \in Sending => HandSame(w),
         \A w \in Workers : pc[w] \in Sending /\ currentClientPtr[w] # c => HandSame(w)
  PROVE  StreamInv'
<1>0. /\ stream \in Seq(StreamType)
      /\ \A k \in DOMAIN stream : stream[k].client \in Objects /\ k # 0
      /\ \A d \in Objects : client[d] \in ClientType
      /\ files \in [Fds -> Connections \union {0}]
      /\ received \in Nat /\ received <= received'
      /\ client = [d \in Objects |-> client[d]]
      /\ \A w \in Workers : pc[w] \in Sending => currentClientPtr[w] \in Objects
  BY StreamFacts
<1>1. /\ client'[c] = Reset(client[c]) /\ \A d \in Objects \ {c} : client'[d] = client[d]
      /\ files' = IF client[c].fd = Closed THEN files ELSE [files EXCEPT ![client[c].fd] = 0]
  BY <1>0 DEF clientReset, Close
<1>2. Rising(client'[c], received) /\ client'[c].fd = Closed /\ client'[c].fdStamp = 0
  BY <1>0, <1>1, RisingReset
<1>3. ASSUME NEW d \in Objects PROVE ClientOK(d)'
  <2>1. CASE d = c
    BY <1>2, <2>1 DEF ClientOK, NumberOK, FreshOK, Connected
  <2>2. CASE d # c
    <3>1. ClientOK(d) /\ SameWrite(d)
      BY <1>1, <2>2 DEF StreamInv, SameWrite
    <3>2. Connected(d) => /\ files'[client[d].fd] = files[client[d].fd]
                          /\ client[d].fdStamp \in DOMAIN stream
      <4>1. SUFFICES ASSUME Connected(d) PROVE files'[client[d].fd] = files[client[d].fd]
        BY <3>1 DEF ClientOK, NumberOK
      <4>2. Connected(c) => client[c].fd # client[d].fd
        BY <2>2, <4>1, Apart
      <4> QED BY <1>0, <1>1, <4>2 DEF Connected
    <3>3. \A w \in Workers : pc[w] = "sent" /\ currentClientPtr[w] = d => HandSame(w)
      BY <2>2 DEF Sending
    <3> QED BY <1>0, <3>1, <3>2, <3>3, ClientKept
  <2> QED BY <2>1, <2>2
<1>4. ASSUME NEW fd \in Fds PROVE FileOK(fd)'
  <2>1. FileOK(fd)
    BY DEF StreamInv
  <2>2. CASE files'[fd] # 0
    <3>1. files'[fd] = files[fd] /\ (Connected(c) => client[c].fd # fd)
      BY <1>0, <1>1, <2>2 DEF Connected
    <3>2. files[fd] \in DOMAIN stream /\ client[stream[files[fd]].client].fd = fd /\ fd # Closed
      BY <2>1, <2>2, <3>1 DEF FileOK, Fds, Closed
    <3>3. stream[files[fd]].client # c /\ stream[files[fd]].client \in Objects
      BY <1>0, <3>1, <3>2 DEF Connected
    <3> QED BY <1>1, <3>1, <3>2, <3>3 DEF FileOK
  <2> QED BY <2>2 DEF FileOK
<1>5. ASSUME NEW w \in Workers, pc'[w] \in Sending PROVE MatchOK(w)'
  <2>1. HandSame(w) /\ pc[w] \in Sending
    BY <1>5 DEF HandSame
  <2>2. MatchOK(w) /\ writing[w].fdStamp \in DOMAIN stream /\ writing[w].fdStamp # 0
    BY <1>0, <2>1 DEF StreamInv, MatchOK
  <2>3. client'[currentClientPtr[w]] = client[currentClientPtr[w]]
          \/ client'[currentClientPtr[w]].fdStamp = 0
    BY <1>0, <1>1, <1>2, <2>1
  <2> QED BY <2>1, <2>2, <2>3, MatchKept
<1>6. ASSUME NEW k \in DOMAIN stream' PROVE StreamOK(k)'
  BY <1>0, StreamKept DEF StreamInv
<1> QED BY <1>3, <1>4, <1>5, <1>6 DEF StreamInv

(***************************************************************************)
(* A connection is made: nothing has been sent on it.                      *)
(***************************************************************************)
LEMMA ConnectStream ==
  ASSUME ServerInv, StreamInv, NEW h \in Hosts, Connect(h),
         \A w \in Workers : HandSame(w)
  PROVE  StreamInv'
<1>0. /\ stream \in Seq(StreamType) /\ DOMAIN stream = 1 .. Len(stream) /\ Len(stream) \in Nat
      /\ \A k \in DOMAIN stream : stream[k].client \in Objects /\ k \in Nat /\ k # 0
      /\ \A d \in Objects : client[d] \in ClientType
      /\ files \in [Fds -> Connections \union {0}]
      /\ received \in Nat
      /\ client = [d \in Objects |-> client[d]]
      /\ \A w \in Workers : pc[w] \in Sending => currentClientPtr[w] \in Objects
  BY StreamFacts
<1>1. PICK c : c = Named(h)
  OBVIOUS
<1>2. PICK r : r = IF Connected(c) THEN Reset(client[c]) ELSE client[c]
  OBVIOUS
<1>3. PICK k : k = Len(stream) + 1
  OBVIOUS
<1>4. PICK free : free = Close(client[c].fd)
  OBVIOUS
<1>5. /\ c \in Objects /\ k \in Connections /\ k # 0
      /\ stream' = Append(stream, [client |-> c, bytes |-> <<>>]) /\ received' = received
  BY <1>0, <1>1, <1>3 DEF Connect
<1>6. PICK fd \in Fds : /\ LowestFree(fd, free)
                        /\ client' = [client EXCEPT ![c] = [r EXCEPT !.fd = fd, !.fdStamp = k]]
                        /\ files' = [free EXCEPT ![fd] = k]
  BY <1>1, <1>2, <1>3, <1>4 DEF Connect
<1>7. /\ DOMAIN stream' = 1 .. Len(stream) + 1 /\ stream'[k].client = c /\ stream'[k].bytes = <<>>
      /\ \A n \in DOMAIN stream : stream'[n] = stream[n] /\ n \in DOMAIN stream' /\ n # k
      /\ k \in DOMAIN stream' /\ \A n \in DOMAIN stream' : n # k => n \in DOMAIN stream
  BY <1>0, <1>3, <1>5
<1>8. Rising(r, received) /\ r \in ClientType
  <2>1. Rising(client[c], received) /\ client[c] \in ClientType
    BY <1>0, <1>5 DEF StreamInv, ClientOK
  <2> QED BY <1>0, <1>2, <2>1, RisingReset, OutcomesTyped
<1>9. /\ client'[c].fd = fd /\ client'[c].fdStamp = k /\ Rising(client'[c], received)
      /\ \A d \in Objects \ {c} : client'[d] = client[d]
  <2>1. PICK s : s = [r EXCEPT !.fd = fd, !.fdStamp = k]
    OBVIOUS
  <2>2. s.fd = fd /\ s.fdStamp = k /\ s.outBox = r.outBox
        /\ s.currentOutboundMessage = r.currentOutboundMessage
    BY <1>8, <2>1 DEF ClientType
  <2>3. client' = [client EXCEPT ![c] = s]
    BY <1>6, <2>1
  <2> QED BY <1>0, <1>5, <1>8, <2>2, <2>3 DEF Rising
<1>10. /\ free[fd] = 0 /\ files'[fd] = k /\ \A f \in Fds \ {fd} : files'[f] = free[f]
       /\ \A f \in Fds : f # client[c].fd => free[f] = files[f]
       /\ Connected(c) /\ client[c].fd \in Fds => free[client[c].fd] = 0
       /\ fd # Closed
  BY <1>0, <1>4, <1>6 DEF LowestFree, Close, Connected, Fds, Closed
<1>11. ASSUME NEW d \in Objects PROVE ClientOK(d)'
  <2>1. CASE d = c
    <3>1. FreshOK(c)'
      BY <1>7, <1>9 DEF FreshOK, Recent
    <3> QED BY <1>5, <1>7, <1>9, <1>10, <2>1, <3>1 DEF ClientOK, NumberOK, Connected
  <2>2. CASE d # c
    <3>1. ClientOK(d) /\ SameWrite(d)
      BY <1>9, <2>2 DEF StreamInv, SameWrite
    <3>2. Connected(d) => /\ files'[client[d].fd] = files[client[d].fd]
                          /\ client[d].fdStamp \in DOMAIN stream
      <4>1. SUFFICES ASSUME Connected(d) PROVE files'[client[d].fd] = files[client[d].fd]
        BY <3>1 DEF ClientOK, NumberOK
      <4>2. /\ files[client[d].fd] = client[d].fdStamp /\ client[d].fdStamp # 0
            /\ client[d].fd \in Fds
        BY <1>0, <3>1, <4>1 DEF ClientOK, NumberOK, ClientType, Connected
      <4>3. client[c].fd # client[d].fd
        BY <1>5, <2>2, <4>1, Apart DEF Connected
      <4> QED BY <1>10, <4>2, <4>3
    <3>3. Connected(d) => /\ client[d].fdStamp \in DOMAIN stream'
                          /\ stream'[client[d].fdStamp] = stream[client[d].fdStamp]
      BY <1>7, <3>2
    <3>4. received <= received' /\ received' \in Nat
      BY <1>0, <1>5
    <3> QED BY <1>0, <3>1, <3>2, <3>3, <3>4, ClientKept
  <2> QED BY <2>1, <2>2
<1>12. ASSUME NEW f \in Fds PROVE FileOK(f)'
  <2>1. CASE f = fd
    BY <1>7, <1>9, <1>10, <2>1 DEF FileOK
  <2>2. CASE f # fd
    <3>1. FileOK(f) /\ f # Closed
      BY DEF StreamInv, Fds, Closed
    <3>2. SUFFICES ASSUME files'[f] # 0
                   PROVE  files'[f] \in DOMAIN stream' /\ client'[stream'[files'[f]].client].fd = f
      BY DEF FileOK
    <3>3. f # client[c].fd /\ files'[f] = files[f]
      BY <1>10, <2>2, <3>1, <3>2 DEF Connected
    <3>4. files[f] \in DOMAIN stream /\ client[stream[files[f]].client].fd = f
      BY <3>1, <3>2, <3>3 DEF FileOK
    <3>5. stream[files[f]].client # c /\ stream[files[f]].client \in Objects
      BY <1>0, <3>3, <3>4
    <3> QED BY <1>7, <1>9, <3>3, <3>4, <3>5
  <2> QED BY <2>1, <2>2
<1>13. ASSUME NEW w \in Workers, pc'[w] \in Sending PROVE MatchOK(w)'
  <2>1. HandSame(w) /\ pc[w] \in Sending
    BY <1>13 DEF HandSame
  <2>2. MatchOK(w) /\ writing[w].fdStamp \in DOMAIN stream
    BY <2>1 DEF StreamInv, MatchOK
  <2>3. client'[currentClientPtr[w]] = client[currentClientPtr[w]]
          \/ client'[currentClientPtr[w]].fdStamp = k
    BY <1>0, <1>9, <2>1
  <2> QED BY <1>7, <2>1, <2>2, <2>3, MatchKept
<1>14. ASSUME NEW n \in DOMAIN stream' PROVE StreamOK(n)'
  <2>1. CASE n = k
    BY <1>7, <2>1 DEF StreamOK
  <2>2. CASE n # k
    <3>1. n \in DOMAIN stream /\ StreamOK(n) /\ stream'[n] = stream[n]
      BY <1>7, <1>14, <2>2 DEF StreamInv
    <3> QED BY <1>0, <1>5, <3>1, StreamKept
  <2> QED BY <2>1, <2>2
<1> QED BY <1>11, <1>12, <1>13, <1>14 DEF StreamInv

(***************************************************************************)
(* A message is queued: it is newer than all that has been sent.           *)
(***************************************************************************)
LEMMA InQueueStream ==
  ASSUME ServerInv, StreamInv, InQueue
  PROVE  StreamInv'
<1>0. /\ stream \in Seq(StreamType)
      /\ \A k \in DOMAIN stream : stream[k].client \in Objects
      /\ \A d \in Objects : client[d] \in ClientType
      /\ files \in [Fds -> Connections \union {0}]
      /\ received \in Nat
      /\ \A w \in Workers : pc[w] \in Sending => currentClientPtr[w] \in Objects
  BY StreamFacts
<1>1. PICK old : queueMsg(received + 1, old)
  BY DEF InQueue
<1>2. received + 1 \in Messages /\ received' = received + 1
  BY <1>0, <1>1, BasePeerAssumption DEF InQueue, Messages, queueMsg
<1>3. /\ UNCHANGED <<files, stream>>
      /\ \A w \in Workers : HandSame(w)
  BY <1>1 DEF queueMsg, InQueue, HandSame
<1>4. \A c \in Objects : client'[c] = client[c]
                         \/ client'[c] = Queued(client[c], received + 1, old)
  BY <1>1 DEF queueMsg
<1>5. received' \in Nat /\ received <= received'
  BY <1>0, <1>2
<1>6. ASSUME NEW c \in Objects
      PROVE  /\ ClientOK(c)'
             /\ client'[c].fd = client[c].fd /\ client'[c].fdStamp = client[c].fdStamp
             /\ client'[c].currentOutboundMessage = client[c].currentOutboundMessage
  <2>1. ClientOK(c) /\ client[c] \in ClientType
    BY <1>0 DEF StreamInv
  <2>2. CASE client'[c] = client[c]
    <3>1. SameWrite(c)
      BY <2>2 DEF SameWrite
    <3>2. Connected(c) => client[c].fdStamp \in DOMAIN stream
      BY <2>1 DEF ClientOK, NumberOK
    <3> QED BY <1>0, <1>3, <1>5, <2>1, <2>2, <3>1, <3>2, ClientKept
  <2>3. CASE client'[c] = Queued(client[c], received + 1, old)
    <3>1. /\ Rising(client'[c], received') /\ client'[c].fd = client[c].fd
          /\ client'[c].fdStamp = client[c].fdStamp
          /\ client'[c].currentOutboundMessage = client[c].currentOutboundMessage
          /\ client'[c].bytesWrittenSoFar = client[c].bytesWrittenSoFar
          /\ \A q \in Due(client'[c]) : q \in Due(client[c]) \/ q = received + 1
      BY <1>0, <1>2, <2>1, <2>3, RisingQueued DEF ClientOK
    <3>2. NumberOK(c)'
      BY <1>3, <2>1, <3>1 DEF ClientOK, NumberOK, Connected
    <3>3. CASE ~Connected(c)
      BY <3>1, <3>2, <3>3 DEF ClientOK, FreshOK, Connected
    <3>4. CASE Connected(c)
      <4>1. PICK s, D : s = stream[client[c].fdStamp].bytes /\ D = Due(client'[c])
        OBVIOUS
      <4>2. Recent(c, s, Due(client[c])) /\ client[c].fdStamp \in DOMAIN stream
        BY <2>1, <3>4, <4>1 DEF ClientOK, FreshOK, NumberOK
      <4>3. \A i \in DOMAIN s : s[i][1] <= received /\ s[i][1] \in Nat
        <5>1. StreamOK(client[c].fdStamp) /\ stream[client[c].fdStamp] \in StreamType
          BY <1>0, <4>2 DEF StreamInv
        <5>2. s \in Seq(Messages \X (1 .. FrameLength))
          BY <4>1, <5>1 DEF StreamType
        <5> QED BY <4>1, <5>1, <5>2 DEF StreamOK, Messages
      <4>4. ASSUME NEW n, Done(c, n) PROVE Done(c, n)'
        BY <1>3, <3>1, <4>4, DoneKept
      <4>5. Recent(c, s, D)'
        <5>1. ASSUME NEW i \in DOMAIN s, NEW q \in D
              PROVE  s[i][1] <= q /\ (s[i][1] = q => Done(c, s[i][2])')
          <6>1. CASE q \in Due(client[c])
            BY <4>2, <4>4, <6>1 DEF Recent
          <6>2. CASE q = received + 1
            BY <1>0, <4>3, <6>2
          <6> QED BY <3>1, <4>1, <6>1, <6>2
        <5> QED BY <5>1 DEF Recent
      <4>6. stream'[client'[c].fdStamp].bytes = s
        BY <1>3, <3>1, <4>1
      <4>7. FreshOK(c)'
        BY <4>1, <4>5, <4>6 DEF FreshOK, Recent, Done
      <4> QED BY <3>1, <3>2, <4>7 DEF ClientOK
    <3> QED BY <3>1, <3>3, <3>4
  <2> QED BY <1>4, <2>2, <2>3
<1>7. ASSUME NEW fd \in Fds PROVE FileOK(fd)'
  <2>1. FileOK(fd)
    BY DEF StreamInv
  <2> QED BY <1>0, <1>3, <1>6, <2>1 DEF FileOK
<1>8. ASSUME NEW w \in Workers, pc'[w] \in Sending PROVE MatchOK(w)'
  <2>1. HandSame(w) /\ pc[w] \in Sending
    BY <1>3, <1>8 DEF HandSame
  <2>2. MatchOK(w) /\ writing[w].fdStamp \in DOMAIN stream
    BY <2>1 DEF StreamInv, MatchOK
  <2>3. currentClientPtr[w] \in Objects
    BY <1>0, <2>1
  <2>4. client'[currentClientPtr[w]].fdStamp = client[currentClientPtr[w]].fdStamp
        /\ client'[currentClientPtr[w]].currentOutboundMessage
             = client[currentClientPtr[w]].currentOutboundMessage
    BY <1>6, <2>3
  <2> QED BY <1>3, <2>1, <2>2, <2>4, MatchKept
<1>9. ASSUME NEW k \in DOMAIN stream' PROVE StreamOK(k)'
  BY <1>0, <1>3, <1>5, StreamKept DEF StreamInv
<1> QED BY <1>6, <1>7, <1>8, <1>9 DEF StreamInv

(***************************************************************************)
(* A step of the worker that has the client in hand.                       *)
(***************************************************************************)
LEMMA OneStream ==
  ASSUME ServerInv, StreamInv, NEW c \in Objects,
         \A d \in Objects \ {c} : client'[d] = client[d],
         UNCHANGED <<files, stream, received>>,
         client'[c].fd = client[c].fd, ClientOK(c)',
         \A w \in Workers : pc[w] \in Sending /\ currentClientPtr[w] # c => HandSame(w),
         \A w \in Workers : pc'[w] \in Sending =>
           (HandSame(w) /\ currentClientPtr[w] # c) \/ MatchOK(w)'
  PROVE  StreamInv'
<1>0. /\ stream \in Seq(StreamType)
      /\ \A k \in DOMAIN stream : stream[k].client \in Objects
      /\ \A d \in Objects : client[d] \in ClientType
      /\ files \in [Fds -> Connections \union {0}]
      /\ received \in Nat /\ received <= received'
      /\ \A w \in Workers : pc[w] \in Sending => currentClientPtr[w] \in Objects
  BY StreamFacts
<1>1. ASSUME NEW d \in Objects, d # c PROVE ClientOK(d)'
  <2>1. ClientOK(d) /\ SameWrite(d)
    BY <1>1 DEF StreamInv, SameWrite
  <2>2. Connected(d) => client[d].fdStamp \in DOMAIN stream
    BY <2>1 DEF ClientOK, NumberOK
  <2>3. \A w \in Workers : pc[w] = "sent" /\ currentClientPtr[w] = d => HandSame(w)
    BY <1>1 DEF Sending
  <2> QED BY <1>0, <2>1, <2>2, <2>3, ClientKept
<1>2. ASSUME NEW fd \in Fds PROVE FileOK(fd)'
  <2>1. FileOK(fd) /\ \A d \in Objects : client'[d].fd = client[d].fd
    BY DEF StreamInv
  <2> QED BY <1>0, <2>1 DEF FileOK
<1>3. ASSUME NEW w \in Workers, pc'[w] \in Sending, HandSame(w), currentClientPtr[w] # c
      PROVE  MatchOK(w)'
  <2>1. pc[w] \in Sending
    BY <1>3 DEF HandSame
  <2>2. MatchOK(w) /\ writing[w].fdStamp \in DOMAIN stream /\ currentClientPtr[w] \in Objects
    BY <1>0, <2>1 DEF StreamInv, MatchOK
  <2>3. client'[currentClientPtr[w]] = client[currentClientPtr[w]]
    BY <1>3, <2>2
  <2> QED BY <1>3, <2>2, <2>3, MatchKept
<1>4. ASSUME NEW k \in DOMAIN stream' PROVE StreamOK(k)'
  BY <1>0, StreamKept DEF StreamInv
<1> QED BY <1>1, <1>2, <1>3, <1>4 DEF StreamInv

LEMMA ByteFacts ==
  ASSUME ServerInv, NEW k \in DOMAIN stream
  PROVE  /\ stream[k].bytes \in Seq(Messages \X (1 .. FrameLength))
         /\ \A i \in DOMAIN stream[k].bytes :
              /\ stream[k].bytes[i] = <<stream[k].bytes[i][1], stream[k].bytes[i][2]>>
              /\ stream[k].bytes[i][1] \in Nat /\ stream[k].bytes[i][2] \in Nat
<1>1. stream[k] \in StreamType
  BY StreamFacts
<1>2. stream[k].bytes \in Seq(Messages \X (1 .. FrameLength))
  BY <1>1 DEF StreamType
<1> QED BY <1>2 DEF Messages

LEMMA FreshShrinks ==
  ASSUME ServerInv, NEW c, client'[c].fd = client[c].fd, client'[c].fdStamp = client[c].fdStamp,
         stream' = stream, Due(client'[c]) \subseteq Due(client[c]),
         \A n \in Nat : Done(c, n) => Done(c, n)', FreshOK(c), NumberOK(c)
  PROVE  FreshOK(c)'
<1>1. CASE ~Connected(c)
  BY <1>1 DEF FreshOK, Connected
<1>2. CASE Connected(c)
  <2>1. PICK s, D : s = stream[client[c].fdStamp].bytes /\ D = Due(client'[c])
    OBVIOUS
  <2>2. \A i \in DOMAIN s : s[i][2] \in Nat
    BY <1>2, <2>1, ByteFacts DEF NumberOK
  <2>3. Recent(c, s, D)'
    BY <1>2, <2>1, <2>2 DEF FreshOK, Recent
  <2> QED BY <2>1, <2>3 DEF FreshOK, Recent, Done
<1> QED BY <1>1, <1>2

LEMMA BeginStream ==
  ASSUME ServerInv, StreamInv, NEW w \in Workers, Begin(w)
  PROVE  StreamInv'
<1>0. /\ \A d \in Objects : client[d] \in ClientType
      /\ received \in Nat /\ pc \in [Workers -> PcValues] /\ client = [d \in Objects |-> client[d]]
      /\ QueueTypes /\ QueueInv /\ writing \in [Workers -> WriteType]
  BY StreamFacts DEF ServerInv, QueueInv, PeerInv, PeerTypes
<1>1. PICK c : c = currentClientPtr[w]
  OBVIOUS
<1>2. pc[w] = "write" /\ c \in Objects /\ UNCHANGED currentClientPtr
  BY <1>0, <1>1 DEF Begin, QueueTypes, Writing
<1>3. CASE UNCHANGED peerVars /\ (pc' = pc \/ pc' = [pc EXCEPT ![w] = "requeue"])
  <2>1. /\ \A v \in Workers : pc'[v] \in Sending => HandSame(v)
        /\ \A v \in Workers : pc[v] \in Sending => HandSame(v)
    BY <1>0, <1>2, <1>3 DEF HandSame, Sending, peerVars
  <2>2. (\A d \in Objects : SameWrite(d)) /\ UNCHANGED <<files, stream, received>>
    BY <1>3 DEF SameWrite, peerVars
  <2> QED BY <2>1, <2>2, QuietStream
<1>4. CASE ChooseMessage(w, c) /\ pc' = [pc EXCEPT ![w] = "send"]
  <2>1. PICK m : m = IF client[c].currentOutboundMessage # NoMsg
                     THEN client[c].currentOutboundMessage ELSE Head(client[c].outBox)
    OBVIOUS
  <2>2. /\ client' = [client EXCEPT ![c].currentOutboundMessage = m]
        /\ client[c].fd # Closed
        /\ client[c].currentOutboundMessage = NoMsg => client[c].outBox # <<>>
        /\ UNCHANGED <<files, stream, received>>
    BY <1>4, <2>1 DEF ChooseMessage, NothingToWrite, Connected, FrontOfNothing
  <2>3. /\ writing'[w].fdStamp = client[c].fdStamp /\ writing'[w].msg = m
        /\ \A v \in Workers \ {w} : HandSame(v)
        /\ pc'[w] = "send" /\ currentClientPtr'[w] = c
    BY <1>0, <1>1, <1>2, <1>4, <2>1 DEF ChooseMessage, HandSame
  <2>4. PICK s : s = [client[c] EXCEPT !.currentOutboundMessage = m]
    OBVIOUS
  <2>5. client'[c] = s /\ \A d \in Objects \ {c} : client'[d] = client[d]
    BY <1>0, <1>2, <2>2, <2>4
  <2>6. ClientOK(c) /\ client[c] \in ClientType
    BY <1>0, <1>2 DEF StreamInv
  <2>7. /\ Rising(s, received) /\ s.fd = client[c].fd /\ s.fdStamp = client[c].fdStamp
        /\ s.currentOutboundMessage = m /\ s.bytesWrittenSoFar = client[c].bytesWrittenSoFar
        /\ Due(s) \subseteq Due(client[c])
    <3>1. PICK r \in ClientType : r = client[c]
      BY <2>6
    <3>2. /\ Rising(r, received) /\ s.fd = r.fd /\ s.fdStamp = r.fdStamp /\ s.outBox = r.outBox
          /\ s.currentOutboundMessage = m /\ s.bytesWrittenSoFar = r.bytesWrittenSoFar
      BY <2>4, <2>6, <3>1 DEF ClientOK, ClientType
    <3>3. \/ r.currentOutboundMessage # NoMsg /\ m = r.currentOutboundMessage
          \/ r.currentOutboundMessage = NoMsg /\ r.outBox # <<>> /\ m = Head(r.outBox)
      BY <2>1, <2>2, <3>1
    <3>4. Rising(s, received) /\ Due(s) \subseteq Due(r)
      BY <1>0, <3>2, <3>3, RisingChosen
    <3> QED BY <3>1, <3>2, <3>4
  <2>8. \A v \in Workers : pc[v] = "sent" /\ currentClientPtr[v] = c => HandSame(v)
    BY <1>2, <2>3
  <2>9. ASSUME NEW n, Done(c, n) PROVE Done(c, n)'
    BY <2>5, <2>7, <2>8, <2>9, DoneKept
  <2>10. FreshOK(c)'
    BY <2>2, <2>5, <2>6, <2>7, <2>9, FreshShrinks DEF ClientOK
  <2>11. NumberOK(c)'
    BY <2>2, <2>5, <2>6, <2>7 DEF ClientOK, NumberOK, Connected
  <2>12. ClientOK(c)'
    BY <2>2, <2>5, <2>7, <2>10, <2>11 DEF ClientOK
  <2>13. MatchOK(w)'
    BY <2>2, <2>3, <2>5, <2>6, <2>7 DEF MatchOK, ClientOK, NumberOK, Connected
  <2>14. \A v \in Workers : pc[v] \in Sending => v # w
    BY <1>2 DEF Sending
  <2>15. \A v \in Workers : pc'[v] \in Sending /\ v # w => HandSame(v) /\ currentClientPtr[v] # c
    <3>1. SUFFICES ASSUME NEW v \in Workers, pc'[v] \in Sending, v # w PROVE currentClientPtr[v] # c
      BY <2>3
    <3>2. pc[v] \in Writing /\ pc[w] \in Writing
      BY <1>2, <2>3, <3>1 DEF HandSame, Sending, Writing
    <3> QED BY <1>0, <1>1, <1>2, <3>1, <3>2, NoClientIsNone DEF QueueInv, OnceOnQueues
  <2> QED BY <1>2, <2>2, <2>3, <2>5, <2>7, <2>12, <2>13, <2>14, <2>15, OneStream
<1> QED BY <1>1, <1>3, <1>4 DEF Begin

(***************************************************************************)
(* The outcome of a send() is recorded.                                    *)
(***************************************************************************)
LEMMA EndStream ==
  ASSUME ServerInv, StreamInv, NEW w \in Workers, End(w)
  PROVE  StreamInv'
<1>0. /\ \A d \in Objects : client[d] \in ClientType
      /\ received \in Nat /\ pc \in [Workers -> PcValues] /\ client = [d \in Objects |-> client[d]]
      /\ writing \in [Workers -> WriteType] /\ FrameLength \in Nat
  BY StreamFacts, BasePeerAssumption DEF ServerInv, PeerInv, PeerTypes
<1>1. PICK c : c = currentClientPtr[w]
  OBVIOUS
<1>2. PICK d : d = writing[w]
  OBVIOUS
<1>3. /\ pc[w] = "sent" /\ pc' = [pc EXCEPT ![w] = "requeue"] /\ UNCHANGED currentClientPtr
      /\ writing' = [writing EXCEPT ![w] = NotWriting] /\ UNCHANGED <<stream, received>>
  BY DEF End, recordWrite
<1>4. /\ c \in Objects /\ d \in WriteType /\ d.offset = client[c].bytesWrittenSoFar /\ Outcome(d)
      /\ MatchOK(w) /\ ClientOK(c) /\ d.msg # NoMsg /\ client[c] \in ClientType
  BY <1>0, <1>1, <1>2, <1>3, StreamFacts DEF Sending, HandOK, StreamInv
<1>5. /\ \A v \in Workers : pc'[v] \in Sending => v # w /\ pc[v] \in Sending
      /\ \A v \in Workers \ {w} : HandSame(v)
      /\ \A v \in Workers : pc[v] \in Sending /\ v # w => currentClientPtr[v] # c
  <2>1. \A v \in Workers : pc[v] \in Sending /\ v # w => currentClientPtr[v] # c
    BY <1>1, <1>3, StreamFacts DEF Sending
  <2> QED BY <1>0, <1>3, <2>1 DEF HandSame, Sending
<1>6. ASSUME UNCHANGED files, NEW s, client' = [client EXCEPT ![c] = s], s.fd = client[c].fd,
             s.fdStamp = client[c].fdStamp, Rising(s, received), Due(s) \subseteq Due(client[c]),
             \A n \in Nat : Done(c, n) => n <= s.bytesWrittenSoFar
      PROVE  StreamInv'
  <2>1. client'[c] = s /\ \A e \in Objects \ {c} : client'[e] = client[e]
    BY <1>0, <1>4, <1>6
  <2>2. \A n \in Nat : Done(c, n) => Done(c, n)'
    BY <1>6, <2>1 DEF Done
  <2>3. FreshOK(c)'
    BY <1>3, <1>4, <1>6, <2>1, <2>2, FreshShrinks DEF ClientOK
  <2>4. NumberOK(c)'
    BY <1>3, <1>4, <1>6, <2>1 DEF ClientOK, NumberOK, Connected
  <2>5. ClientOK(c)'
    BY <1>3, <1>6, <2>1, <2>3, <2>4 DEF ClientOK
  <2>6. /\ \A v \in Workers : pc[v] \in Sending /\ currentClientPtr[v] # c => HandSame(v)
        /\ \A v \in Workers : pc'[v] \in Sending =>
             (HandSame(v) /\ currentClientPtr[v] # c) \/ MatchOK(v)'
    BY <1>1, <1>5
  <2> QED BY <1>3, <1>4, <1>6, <2>1, <2>5, <2>6, OneStream
<1>7. \A n : Done(c, n) => \/ n <= client[c].bytesWrittenSoFar
                           \/ d.fdStamp = client[c].fdStamp /\ n <= d.offset + d.sent
  BY <1>2, <1>5 DEF Done, Sending
<1>8. CASE d.fdStamp # client[c].fdStamp
  <2>1. UNCHANGED <<client, files>>
    BY <1>1, <1>2, <1>8 DEF End, recordWrite
  <2>2. client' = [client EXCEPT ![c] = client[c]]
    BY <1>0, <2>1
  <2> QED BY <1>4, <1>6, <1>7, <1>8, <2>1, <2>2 DEF ClientOK
<1>9. CASE d.status = "again" /\ client' = [client EXCEPT ![c] = Again(client[c])] /\ UNCHANGED files
  <2>1. PICK s : s = Again(client[c])
    OBVIOUS
  <2>2. /\ s.fd = client[c].fd /\ s.fdStamp = client[c].fdStamp /\ s.outBox = client[c].outBox
        /\ s.currentOutboundMessage = NoMsg /\ s.bytesWrittenSoFar = client[c].bytesWrittenSoFar
    BY <1>4, <2>1 DEF Again, ClientType
  <2>3. /\ \A i \in DOMAIN client[c].outBox : client[c].outBox[i] \in Nat
        /\ client[c].bytesWrittenSoFar \in Nat
    BY <1>4, TypedClient
  <2>4. Rising(s, received)
    BY <1>0, <1>4, <2>2, <2>3 DEF ClientOK, Rising, NoMsg
  <2>5. Due(s) \subseteq Due(client[c])
    BY <2>2 DEF Due, Messages, NoMsg
  <2>6. d.sent = 0
    BY <1>4, <1>9 DEF Outcome
  <2>7. \A n : Done(c, n) => n <= s.bytesWrittenSoFar
    BY <1>4, <1>7, <2>2, <2>3, <2>6
  <2> QED BY <1>6, <1>9, <2>1, <2>2, <2>4, <2>5, <2>7
<1>10. CASE /\ d.status = "partial" /\ UNCHANGED files
            /\ client' = [client EXCEPT ![c] = Partial(client[c], d.sent)]
  <2>1. PICK s : s = Partial(client[c], d.sent)
    OBVIOUS
  <2>2. /\ s.fd = client[c].fd /\ s.fdStamp = client[c].fdStamp /\ s.outBox = client[c].outBox
        /\ s.currentOutboundMessage = client[c].currentOutboundMessage
        /\ s.bytesWrittenSoFar = client[c].bytesWrittenSoFar + d.sent
    BY <1>4, <2>1 DEF Partial, ClientType
  <2>3. d.sent \in 1 .. FrameLength - 1 - d.offset /\ d.offset \in 0 .. FrameLength - 1
    BY <1>4, <1>10 DEF Outcome, WriteType
  <2>4. Rising(s, received) /\ Due(s) \subseteq Due(client[c])
    BY <1>4, <2>2 DEF ClientOK, Rising, Due
  <2>5. ASSUME NEW n \in Nat, Done(c, n) PROVE n <= s.bytesWrittenSoFar
    <3>1. n <= d.offset \/ n <= d.offset + d.sent
      BY <1>4, <1>7, <2>5
    <3>2. CASE n <= d.offset + d.sent
      BY <1>4, <2>2, <3>2
    <3>3. CASE n <= d.offset
      BY <1>4, <2>2, <2>3, <3>3
    <3> QED BY <3>1, <3>2, <3>3
  <2>6. \A n \in Nat : Done(c, n) => n <= s.bytesWrittenSoFar
    BY <2>5
  <2>7. client' = [client EXCEPT ![c] = s] /\ UNCHANGED files
    BY <1>10, <2>1
  <2>8. s.fd = client[c].fd /\ s.fdStamp = client[c].fdStamp
    BY <2>2
  <2> QED BY <1>6, <2>4, <2>6, <2>7, <2>8
<1>11. CASE clientReset(c, TRUE)
  <2>1. /\ \A v \in Workers : pc'[v] \in Sending => HandSame(v)
        /\ \A v \in Workers : pc[v] \in Sending /\ currentClientPtr[v] # c => HandSame(v)
    BY <1>1, <1>5
  <2> QED BY <1>3, <1>4, <1>11, <2>1, ResetStream
<1>12. CASE /\ d.fdStamp = client[c].fdStamp /\ d.status = "full" /\ UNCHANGED files
            /\ client' = [client EXCEPT ![c] = Full(client[c])]
  <2>1. client[c].currentOutboundMessage = d.msg
    BY <1>1, <1>2, <1>4, <1>12 DEF MatchOK
  <2>2. PICK s : s = Full(client[c])
    OBVIOUS
  <2>3. /\ Rising(s, received) /\ s.fd = client[c].fd /\ s.fdStamp = client[c].fdStamp
        /\ \A q \in Due(s) : client[c].currentOutboundMessage < q
    BY <1>0, <1>4, <2>1, <2>2, RisingFull DEF ClientOK
  <2>4. client'[c] = s /\ \A e \in Objects \ {c} : client'[e] = client[e]
    BY <1>0, <1>4, <1>12, <2>2
  <2>5. NumberOK(c)'
    BY <1>3, <1>4, <1>12, <2>3, <2>4 DEF ClientOK, NumberOK, Connected
  <2>6. FreshOK(c)'
    <3>1. CASE ~Connected(c)
      BY <2>3, <2>4, <3>1 DEF FreshOK, Connected
    <3>2. CASE Connected(c)
      <4>1. PICK bs, D : bs = stream[client[c].fdStamp].bytes /\ D = Due(s)
        OBVIOUS
      <4>2. d.msg \in Due(client[c])
        BY <1>4, <2>1 DEF WriteType, Due
      <4>3. /\ client[c].fdStamp \in DOMAIN stream
            /\ \A i \in DOMAIN bs : bs[i][1] <= d.msg
        BY <1>4, <3>2, <4>1, <4>2 DEF ClientOK, FreshOK, Recent, NumberOK
      <4>4. \A i \in DOMAIN bs : bs[i][1] \in Nat
        <5>1. stream[client[c].fdStamp] \in StreamType
          BY <4>3, StreamFacts
        <5>2. bs \in Seq(Messages \X (1 .. FrameLength))
          BY <4>1, <5>1 DEF StreamType
        <5> QED BY <5>2 DEF Messages
      <4>5. \A i \in DOMAIN bs, q \in D : bs[i][1] <= q /\ bs[i][1] # q
        <5>1. SUFFICES ASSUME NEW i \in DOMAIN bs, NEW q \in D PROVE bs[i][1] < q
          BY <4>1, <4>4 DEF Due, Messages
        <5>2. q \in Nat /\ d.msg \in Nat /\ d.msg < q
          BY <2>1, <2>3, <4>1, <4>2, <5>1 DEF Due, Messages
        <5> QED BY <4>3, <4>4, <5>2
      <4>6. Recent(c, bs, D)'
        BY <4>5 DEF Recent
      <4>7. stream'[client'[c].fdStamp].bytes = bs /\ Due(client'[c]) = D
        BY <1>3, <2>3, <2>4, <4>1
      <4> QED BY <4>6, <4>7 DEF FreshOK, Recent, Done
    <3> QED BY <3>1, <3>2
  <2>7. ClientOK(c)'
    BY <1>3, <2>3, <2>4, <2>5, <2>6 DEF ClientOK
  <2>8. /\ \A v \in Workers : pc[v] \in Sending /\ currentClientPtr[v] # c => HandSame(v)
        /\ \A v \in Workers : pc'[v] \in Sending =>
             (HandSame(v) /\ currentClientPtr[v] # c) \/ MatchOK(v)'
    BY <1>1, <1>5
  <2> QED BY <1>3, <1>4, <1>12, <2>3, <2>4, <2>7, <2>8, OneStream
<1> QED BY <1>1, <1>2, <1>8, <1>9, <1>10, <1>11, <1>12 DEF End, recordWrite

(***************************************************************************)
(* A part of a frame goes behind what has been sent on the connection: by  *)
(* NotReused it is still the one that the worker has chosen.               *)
(***************************************************************************)
LEMMA SendsOnOwn ==
  ASSUME ServerInv, StreamInv, NotReused, NEW w \in Workers, pc[w] = "send", Target(w) # 0
  PROVE  /\ Target(w) = writing[w].fdStamp /\ Target(w) \in DOMAIN stream
         /\ stream[Target(w)].client = currentClientPtr[w]
         /\ client[currentClientPtr[w]].fdStamp = Target(w) /\ Connected(currentClientPtr[w])
         /\ client[currentClientPtr[w]].currentOutboundMessage = writing[w].msg
<1>1. PICK d, c, k : d = writing[w] /\ c = currentClientPtr[w] /\ k = Target(w)
  OBVIOUS
<1>2. c \in Objects /\ d \in WriteType /\ d.fd # Closed /\ MatchOK(w) /\ ClientOK(c)
  BY <1>1, StreamFacts DEF Sending, HandOK, StreamInv
<1>3. k = d.fdStamp
  BY <1>1 DEF NotReused, Target
<1>4. k \in DOMAIN stream /\ stream[k].client = c
  BY <1>1, <1>2, <1>3 DEF MatchOK
<1>5. d.fd \in Fds
  BY <1>2 DEF WriteType
<1>6. client[c].fd = d.fd
  BY <1>1, <1>4, <1>5 DEF StreamInv, FileOK, Target
<1>7. Connected(c) /\ client[c].fdStamp = k
  BY <1>1, <1>2, <1>6 DEF ClientOK, NumberOK, Connected, Target
<1>8. client[c].currentOutboundMessage = d.msg
  BY <1>1, <1>2, <1>3, <1>7 DEF MatchOK
<1> QED BY <1>1, <1>3, <1>4, <1>7, <1>8

LEMMA Joined ==
  ASSUME NEW a \in Seq(Messages \X (1 .. FrameLength)),
         NEW b \in Seq(Messages \X (1 .. FrameLength)), NEW s, s = a \o b
  PROVE  /\ DOMAIN s = 1 .. Len(a) + Len(b) /\ Len(s) = Len(a) + Len(b)
         /\ Len(a) \in Nat /\ DOMAIN a = 1 .. Len(a)
         /\ \A i \in 1 .. Len(a) : s[i] = a[i]
         /\ \A i \in 1 .. Len(b) : s[Len(a) + i] = b[i]
OBVIOUS

LEMMA SendStream ==
  ASSUME ServerInv, StreamInv, NotReused, NEW w \in Workers, Send(w)
  PROVE  StreamInv'
<1>0. /\ stream \in Seq(StreamType) /\ DOMAIN stream = 1 .. Len(stream) /\ Len(stream) \in Nat
      /\ \A k \in DOMAIN stream : stream[k].client \in Objects
      /\ \A e \in Objects : client[e] \in ClientType
      /\ files \in [Fds -> Connections \union {0}]
      /\ received \in Nat /\ pc \in [Workers -> PcValues] /\ writing \in [Workers -> WriteType]
      /\ \A v \in Workers : pc[v] \in Sending => currentClientPtr[v] \in Objects
      /\ PeerInv /\ FrameLength \in Nat \ {0}
  BY StreamFacts, BasePeerAssumption DEF ServerInv, PeerInv, PeerTypes
<1>1. PICK c : c = currentClientPtr[w]
  OBVIOUS
<1>2. PICK d : d = writing[w]
  OBVIOUS
<1>3. /\ pc[w] = "send" /\ pc' = [pc EXCEPT ![w] = "sent"]
      /\ UNCHANGED <<client, files, received, currentClientPtr>>
  BY DEF Send, send
<1>4. /\ c \in Objects /\ d \in WriteType /\ d.offset = client[c].bytesWrittenSoFar
      /\ d.fd # Closed /\ d.msg # NoMsg /\ MatchOK(w) /\ ClientOK(c) /\ client[c] \in ClientType
      /\ d.offset \in Nat /\ d.msg \in Messages /\ d.msg \in Nat /\ d.offset < FrameLength
  <2>1. /\ c \in Objects /\ d \in WriteType /\ HandOK(w) /\ MatchOK(w) /\ ClientOK(c)
        /\ client[c] \in ClientType
    BY <1>0, <1>1, <1>2, <1>3, StreamFacts DEF Sending, StreamInv
  <2> QED BY <1>0, <1>1, <1>2, <2>1 DEF HandOK, WriteType, Messages
<1>5. /\ \A v \in Workers : pc[v] \in Sending /\ v # w => currentClientPtr[v] # c
      /\ \A v \in Workers : pc[v] = "sent" => currentClientPtr[v] # c
  <2>1. \A v \in Workers : pc[v] \in Sending /\ v # w => currentClientPtr[v] # c
    BY <1>1, <1>3, StreamFacts DEF Sending
  <2> QED BY <1>3, <2>1 DEF Sending
<1>6. ASSUME NEW status \in {"again", "error", "partial", "full"}, NEW n \in 0 .. FrameLength,
             SendOutcome(w, status, n)
      PROVE  /\ \A v \in Workers \ {w} : HandSame(v)
             /\ pc'[w] = "sent" /\ writing'[w].status = status /\ writing'[w].sent = n
             /\ writing'[w].offset = d.offset /\ writing'[w].msg = d.msg
             /\ writing'[w].fdStamp = d.fdStamp
  <2>1. /\ \A v \in Workers \ {w} : writing'[v] = writing[v]
        /\ writing'[w].status = status /\ writing'[w].sent = n
        /\ writing'[w].offset = writing[w].offset /\ writing'[w].msg = writing[w].msg
        /\ writing'[w].fdStamp = writing[w].fdStamp
    BY <1>0, <1>6, SentTyped
  <2>2. pc'[w] = "sent" /\ \A v \in Workers \ {w} : pc'[v] = pc[v]
    BY <1>0, <1>3
  <2> QED BY <1>2, <1>3, <2>1, <2>2 DEF HandSame
<1>7. ASSUME NEW status \in {"again", "error"}, SendOutcome(w, status, 0), UNCHANGED stream
      PROVE  StreamInv'
  <2>1. /\ \A v \in Workers \ {w} : HandSame(v)
        /\ writing'[w].status = status /\ writing'[w].msg = d.msg /\ writing'[w].fdStamp = d.fdStamp
    BY <1>0, <1>6, <1>7
  <2>2. MatchOK(w)'
    BY <1>1, <1>2, <1>3, <1>4, <1>7, <2>1 DEF MatchOK
  <2>3. ClientOK(c)'
    <3>1. SameWrite(c)
      BY <1>3 DEF SameWrite
    <3>2. Connected(c) => client[c].fdStamp \in DOMAIN stream
      BY <1>4 DEF ClientOK, NumberOK
    <3> QED BY <1>0, <1>3, <1>4, <1>5, <1>7, <3>1, <3>2, ClientKept
  <2>4. /\ \A v \in Workers : pc[v] \in Sending /\ currentClientPtr[v] # c => HandSame(v)
        /\ \A v \in Workers : pc'[v] \in Sending =>
             (HandSame(v) /\ currentClientPtr[v] # c) \/ MatchOK(v)'
    BY <1>1, <1>5, <2>1, <2>2 DEF HandSame
  <2> QED BY <1>3, <1>4, <1>7, <2>3, <2>4, OneStream
<1>8. ASSUME NEW n \in 1 .. FrameLength - writing[w].offset, NEW status \in {"partial", "full"},
             status = "partial" => n < FrameLength - writing[w].offset /\ supportsPartialWrites,
             status = "full" => n = FrameLength - writing[w].offset,
             SendOutcome(w, status, n), Target(w) # 0,
             stream' = [stream EXCEPT ![Target(w)].bytes = stream[Target(w)].bytes \o
                          Bytes(writing[w].msg, writing[w].offset, writing[w].offset + n)]
      PROVE  StreamInv'
  <2>1. PICK k, old, new : k = Target(w) /\ old = stream[k].bytes
                           /\ new = Bytes(d.msg, d.offset, d.offset + n)
    OBVIOUS
  <2>2. /\ k = d.fdStamp /\ k \in DOMAIN stream /\ stream[k].client = c
        /\ client[c].fdStamp = k /\ Connected(c)
        /\ client[c].currentOutboundMessage = d.msg
    BY <1>1, <1>2, <1>3, <1>8, <2>1, SendsOnOwn
  <2>3. /\ n \in Nat /\ n \in 0 .. FrameLength /\ d.offset + n \in Nat
        /\ d.offset + n <= FrameLength /\ d.offset <= d.offset + n
        /\ (d.offset + n) - d.offset = n /\ 1 <= n
    BY <1>0, <1>2, <1>4, <1>8
  <2>4. /\ new \in Seq(Messages \X (1 .. FrameLength)) /\ Len(new) = n
        /\ \A i \in 1 .. n : new[i] = <<d.msg, d.offset + i>>
    <3>1. PICK to \in Nat : to = d.offset + n
      BY <2>3
    <3>2. d.offset <= to /\ to <= FrameLength /\ to - d.offset = n
      BY <2>3, <3>1
    <3>3. /\ Bytes(d.msg, d.offset, to) \in Seq(Messages \X (1 .. FrameLength))
          /\ Len(Bytes(d.msg, d.offset, to)) = to - d.offset
          /\ \A i \in 1 .. to - d.offset : Bytes(d.msg, d.offset, to)[i] = <<d.msg, d.offset + i>>
      BY <1>4, <3>2, BytesTyped
    <3> QED BY <2>1, <3>1, <3>2, <3>3
  <2>5. /\ DOMAIN stream' = DOMAIN stream /\ Len(stream') = Len(stream)
        /\ \A i \in DOMAIN stream : stream'[i].client = stream[i].client
        /\ \A i \in DOMAIN stream : i # k => stream'[i] = stream[i]
        /\ stream'[k].bytes = old \o new
    <3>1. Puts(k, new)
      BY <1>2, <1>8, <2>1 DEF Puts
    <3>2. new \in Seq(Messages \X (1 .. FrameLength))
      BY <2>4
    <3>3. stream' \in Seq(StreamType) /\ Len(stream') = Len(stream)
      BY <1>0, <3>1, <3>2, StreamTyped
    <3>4. \A i \in DOMAIN stream : /\ stream'[i].client = stream[i].client
                                   /\ i # k => stream'[i] = stream[i]
      BY <1>0, <3>1, <3>2, StreamTyped
    <3>5. DOMAIN stream' = DOMAIN stream
      BY <1>0, <3>3
    <3>6. k \in DOMAIN stream /\ old = stream[k].bytes
      BY <2>1, <2>2
    <3>7. stream'[k].bytes = old \o new
      BY <1>0, <3>1, <3>2, <3>6, StreamTyped
    <3> QED BY <3>3, <3>4, <3>5, <3>7
  <2>6. /\ old \in Seq(Messages \X (1 .. FrameLength))
        /\ \A i \in DOMAIN old : old[i][1] \in Nat /\ old[i][2] \in Nat
    BY <2>1, <2>2, ByteFacts
  <2>7. PICK D : D = Due(client[c])
    OBVIOUS
  <2>8. d.msg \in D /\ \A q \in D : d.msg <= q
    BY <1>0, <1>4, <2>2, <2>7 DEF ClientOK, Rising, Due
  <2>9. Recent(c, old, D)
    BY <1>4, <2>1, <2>2, <2>7 DEF ClientOK, FreshOK
  <2>10. \A i \in DOMAIN old : old[i][1] <= d.msg /\ (old[i][1] = d.msg => old[i][2] <= d.offset)
    BY <1>4, <1>5, <2>8, <2>9 DEF Recent, Done
  <2>11. \A i, j \in DOMAIN old : i < j => Before(old[i], old[j])
    BY <2>1, <2>2 DEF StreamInv, StreamOK
  <2>12. PICK s : s = old \o new
    OBVIOUS
  <2>13. /\ DOMAIN s = 1 .. Len(old) + n /\ Len(old) \in Nat /\ DOMAIN old = 1 .. Len(old)
         /\ \A i \in 1 .. Len(old) : s[i] = old[i]
         /\ \A i \in 1 .. n : s[Len(old) + i] = <<d.msg, d.offset + i>>
         /\ \A i, j \in DOMAIN s : i < j => Before(s[i], s[j])
    <3>1. /\ DOMAIN s = 1 .. Len(old) + n /\ Len(old) \in Nat /\ DOMAIN old = 1 .. Len(old)
          /\ \A i \in 1 .. Len(old) : s[i] = old[i]
          /\ \A i \in 1 .. n : s[Len(old) + i] = new[i]
      <4>1. /\ DOMAIN s = 1 .. Len(old) + Len(new) /\ Len(old) \in Nat
            /\ DOMAIN old = 1 .. Len(old) /\ \A i \in 1 .. Len(old) : s[i] = old[i]
            /\ \A i \in 1 .. Len(new) : s[Len(old) + i] = new[i]
        <5>1. new \in Seq(Messages \X (1 .. FrameLength))
          BY <2>4
        <5> QED BY <2>6, <2>12, <5>1, Joined
      <4>2. Len(new) = n
        BY <2>4
      <4> QED BY <4>1, <4>2
    <3>2. ASSUME NEW i \in DOMAIN s, ~(i <= Len(old)) PROVE \E q \in 1 .. n : i = Len(old) + q
      <4>1. i - Len(old) \in 1 .. n /\ i = Len(old) + (i - Len(old))
        BY <2>3, <3>1, <3>2
      <4> QED BY <4>1
    <3>3. ASSUME NEW i \in DOMAIN s, NEW j \in DOMAIN s, i < j PROVE Before(s[i], s[j])
      <4>1. CASE j <= Len(old)
        <5>1. i \in DOMAIN old /\ j \in DOMAIN old /\ s[i] = old[i] /\ s[j] = old[j]
          BY <3>1, <3>3, <4>1
        <5> QED BY <2>11, <3>3, <5>1
      <4>2. CASE ~(j <= Len(old))
        <5>1. PICK q \in 1 .. n : j = Len(old) + q
          BY <3>2, <4>2
        <5>2. s[j] = <<d.msg, d.offset + q>> /\ q \in Nat /\ 1 <= q
          BY <2>4, <3>1, <5>1
        <5>3. PICK e : e = d.offset + q
          OBVIOUS
        <5>4. e \in Nat /\ d.offset < e /\ s[j][1] = d.msg /\ s[j][2] = e
          BY <1>4, <5>2, <5>3
        <5>5. CASE i <= Len(old)
          <6>1. i \in DOMAIN old /\ s[i] = old[i]
            BY <3>1, <5>5
          <6>2. /\ s[i][1] <= d.msg /\ (s[i][1] = d.msg => s[i][2] <= d.offset)
                /\ s[i][1] \in Nat /\ s[i][2] \in Nat
            BY <2>6, <2>10, <6>1
          <6>3. s[i][1] < d.msg \/ (s[i][1] = d.msg /\ s[i][2] < e)
            BY <1>4, <5>4, <6>2
          <6> QED BY <5>4, <6>3 DEF Before
        <5>6. CASE ~(i <= Len(old))
          <6>1. PICK o \in 1 .. n : i = Len(old) + o
            BY <3>2, <5>6
          <6>2. s[i] = <<d.msg, d.offset + o>>
            BY <2>4, <3>1, <6>1
          <6>3. o \in Nat /\ o < q
            BY <2>3, <3>1, <3>3, <5>1, <6>1
          <6>4. s[i][1] = d.msg /\ s[i][2] < e
            BY <1>4, <5>2, <5>3, <6>2, <6>3
          <6> QED BY <5>4, <6>4 DEF Before
        <5> QED BY <5>5, <5>6
      <4> QED BY <4>1, <4>2
    <3>4. \A i \in 1 .. n : s[Len(old) + i] = <<d.msg, d.offset + i>>
      BY <2>4, <3>1
    <3> QED BY <3>1, <3>3, <3>4
  <2>14. ASSUME NEW i \in DOMAIN s
         PROVE  \/ i \in DOMAIN old /\ s[i] = old[i]
                \/ \E j \in 1 .. n : i = Len(old) + j /\ s[i] = <<d.msg, d.offset + j>>
    <3>1. CASE i <= Len(old)
      BY <2>13, <3>1
    <3>2. CASE ~(i <= Len(old))
      <4>1. i - Len(old) \in 1 .. n /\ i = Len(old) + (i - Len(old))
        BY <2>3, <2>13, <3>2
      <4> QED BY <2>13, <4>1
    <3> QED BY <3>1, <3>2
  <2>15. /\ \A v \in Workers \ {w} : HandSame(v)
         /\ pc'[w] = "sent" /\ writing'[w].status = status /\ writing'[w].sent = n
         /\ writing'[w].offset = d.offset /\ writing'[w].msg = d.msg
         /\ writing'[w].fdStamp = d.fdStamp
    BY <1>6, <1>8, <2>3
  <2>16. StreamOK(k)'
    <3>1. ASSUME NEW i \in DOMAIN s PROVE s[i][1] <= received
      <4>1. CASE i \in DOMAIN old /\ s[i] = old[i]
        BY <2>1, <2>2, <4>1 DEF StreamInv, StreamOK
      <4>2. CASE \E j \in 1 .. n : i = Len(old) + j /\ s[i] = <<d.msg, d.offset + j>>
        BY <1>4, <2>2, <4>2 DEF ClientOK, Rising
      <4> QED BY <2>14, <4>1, <4>2
    <3>2. stream'[k].bytes = s
      BY <2>5, <2>12
    <3> QED BY <1>3, <2>13, <3>1, <3>2 DEF StreamOK
  <2>17. ClientOK(c)'
    <3>1. NumberOK(c)' /\ Rising(client'[c], received')
      BY <1>3, <1>4, <2>2, <2>5 DEF ClientOK, NumberOK, Connected
    <3>2. ASSUME NEW b, Done(c, b) PROVE Done(c, b)'
      BY <1>3, <1>5, <3>2, DoneKept
    <3>3. ASSUME NEW j \in 1 .. n PROVE Done(c, d.offset + j)'
      <4>1. d.offset + j <= d.offset + n
        BY <1>4, <2>3
      <4> QED BY <1>1, <1>3, <2>2, <2>15, <4>1 DEF Done
    <3>4. ASSUME NEW i \in DOMAIN s, NEW q \in D
          PROVE  s[i][1] <= q /\ (s[i][1] = q => Done(c, s[i][2])')
      <4>1. CASE i \in DOMAIN old /\ s[i] = old[i]
        BY <2>9, <3>2, <4>1 DEF Recent
      <4>2. ASSUME NEW j \in 1 .. n, s[i] = <<d.msg, d.offset + j>>
            PROVE  s[i][1] <= q /\ (s[i][1] = q => Done(c, s[i][2])')
        <5>1. s[i][1] = d.msg /\ s[i][2] = d.offset + j
          BY <4>2
        <5>2. Done(c, s[i][2])'
          BY <3>3, <5>1
        <5> QED BY <2>8, <5>1, <5>2
      <4> QED BY <2>14, <4>1, <4>2
    <3>5. Recent(c, s, D)'
      BY <3>4 DEF Recent
    <3>6. stream'[client'[c].fdStamp].bytes = s /\ Due(client'[c]) = D
      BY <1>3, <2>2, <2>5, <2>7, <2>12
    <3>7. FreshOK(c)'
      BY <3>5, <3>6 DEF FreshOK, Recent, Done
    <3> QED BY <3>1, <3>7 DEF ClientOK
  <2>18. ASSUME NEW e \in Objects, e # c PROVE ClientOK(e)'
    <3>1. ClientOK(e) /\ SameWrite(e)
      BY <1>3 DEF StreamInv, SameWrite
    <3>2. Connected(e) => /\ client[e].fdStamp \in DOMAIN stream'
                          /\ stream'[client[e].fdStamp] = stream[client[e].fdStamp]
      <4>1. SUFFICES ASSUME Connected(e)
                     PROVE  client[e].fdStamp # k /\ client[e].fdStamp \in DOMAIN stream
        BY <2>5
      <4> QED BY <1>4, <2>2, <2>18, <3>1, <4>1, Apart DEF ClientOK, NumberOK
    <3>3. \A v \in Workers : pc[v] = "sent" /\ currentClientPtr[v] = e => HandSame(v)
      BY <1>3, <2>15
    <3> QED BY <1>0, <1>3, <3>1, <3>2, <3>3, ClientKept
  <2>19. ASSUME NEW fd \in Fds PROVE FileOK(fd)'
    <3>1. FileOK(fd)
      BY DEF StreamInv
    <3> QED BY <1>3, <2>5, <3>1 DEF FileOK
  <2>20. MatchOK(w)'
    <3>1. status = "full" => Len(old) + n \in DOMAIN s /\ s[Len(old) + n] = <<d.msg, FrameLength>>
      <4>1. SUFFICES ASSUME status = "full"
                     PROVE  Len(old) + n \in DOMAIN s /\ s[Len(old) + n] = <<d.msg, FrameLength>>
        OBVIOUS
      <4>2. d.offset + n = FrameLength
        BY <1>0, <1>2, <1>4, <1>8, <4>1
      <4>3. Len(old) + n \in 1 .. Len(old) + n /\ n \in 1 .. n
        BY <2>3, <2>13
      <4> QED BY <2>13, <4>2, <4>3
    <3>2. stream'[k].bytes = s /\ k \in DOMAIN stream' /\ stream'[k].client = c
      BY <2>2, <2>5, <2>12
    <3>3. /\ writing'[w].fdStamp = k /\ writing'[w].msg = d.msg /\ writing'[w].status = status
          /\ currentClientPtr'[w] = c /\ client'[c] = client[c]
      BY <1>1, <1>3, <2>2, <2>15
    <3>4. client[c].currentOutboundMessage = d.msg
      BY <2>2
    <3>5. status = "full" => \E i \in DOMAIN s : s[i] = <<d.msg, FrameLength>>
      BY <3>1
    <3> QED BY <3>2, <3>3, <3>4, <3>5 DEF MatchOK
  <2>21. ASSUME NEW v \in Workers, v # w, pc'[v] \in Sending PROVE MatchOK(v)'
    <3>1. HandSame(v) /\ pc[v] \in Sending
      BY <2>15, <2>21 DEF HandSame
    <3>2. MatchOK(v) /\ currentClientPtr[v] # c
      BY <1>5, <2>21, <3>1 DEF StreamInv
    <3>3. writing[v].fdStamp \in DOMAIN stream /\ writing[v].fdStamp # k
      BY <2>2, <3>2 DEF MatchOK
    <3> QED BY <1>3, <2>5, <3>1, <3>2, <3>3, MatchKept
  <2>22. ASSUME NEW j \in DOMAIN stream', j # k PROVE StreamOK(j)'
    BY <1>0, <1>3, <2>5, <2>22, StreamKept DEF StreamInv
  <2> QED BY <2>16, <2>17, <2>18, <2>19, <2>20, <2>21, <2>22 DEF StreamInv
<1>9. CASE SendOutcome(w, "error", 0) /\ UNCHANGED stream
  BY <1>7, <1>9
<1>10. CASE SendOutcome(w, "again", 0) /\ UNCHANGED stream
  BY <1>7, <1>10
<1>11. PeerInv
  BY <1>0
<1> QED BY <1>8, <1>9, <1>10, <1>11, SendCases

-----------------------------------------------------------------------------
(***************************************************************************)
(* One step of the program.                                                *)
(***************************************************************************)
LEMMA FieldSame ==
  ASSUME \A e \in Objects : client[e] \in ClientType, client = [e \in Objects |-> client[e]],
         NEW c,
         \/ client' = client
         \/ \E b \in BOOLEAN : client' = [client EXCEPT ![c].onWriteQueue = b]
         \/ \E b \in BOOLEAN : client' = [client EXCEPT ![c].readyToWrite = b]
  PROVE  \A e \in Objects : SameWrite(e)
<1>1. CASE client' = client
  BY <1>1 DEF SameWrite
<1>2. ASSUME NEW b \in BOOLEAN, client' = [client EXCEPT ![c].onWriteQueue = b], NEW e \in Objects
      PROVE  SameWrite(e)
  <2>1. client'[e] = IF e = c THEN [client[e] EXCEPT !.onWriteQueue = b] ELSE client[e]
    BY <1>2
  <2> QED BY <2>1 DEF SameWrite, ClientType
<1>3. ASSUME NEW b \in BOOLEAN, client' = [client EXCEPT ![c].readyToWrite = b], NEW e \in Objects
      PROVE  SameWrite(e)
  <2>1. client'[e] = IF e = c THEN [client[e] EXCEPT !.readyToWrite = b] ELSE client[e]
    BY <1>3
  <2> QED BY <2>1 DEF SameWrite, ClientType
<1> QED BY <1>1, <1>2, <1>3

HandsSame ==
  \A w \in Workers : pc[w] \in Sending \/ pc'[w] \in Sending => HandSame(w)

LEMMA FieldStream ==
  ASSUME ServerInv, StreamInv, HandsSame, UNCHANGED <<files, stream, received>>, NEW c,
         \/ client' = client
         \/ \E b \in BOOLEAN : client' = [client EXCEPT ![c].onWriteQueue = b]
         \/ \E b \in BOOLEAN : client' = [client EXCEPT ![c].readyToWrite = b]
  PROVE  StreamInv'
<1>1. \A e \in Objects : SameWrite(e)
  BY StreamFacts, FieldSame
<1>2. /\ \A w \in Workers : pc'[w] \in Sending => HandSame(w)
      /\ \A w \in Workers : pc[w] \in Sending => HandSame(w)
  BY DEF HandsSame
<1> QED BY <1>1, <1>2, QuietStream

LEMMA DiscoveryStream ==
  ASSUME ServerInv, StreamInv, Discovery
  PROVE  StreamInv'
<1>1. \A w \in Workers : HandSame(w)
  BY DEF Discovery, Connect, ConnectFails, Subscribe, Unsubscribe, Break, serverVars, HandSame
<1>2. HandsSame
  BY <1>1 DEF HandsSame
<1>3. ASSUME NEW h \in Hosts, Connect(h) PROVE StreamInv'
  BY <1>1, <1>3, ConnectStream
<1>4. ASSUME NEW h \in Hosts, ConnectFails(h) PROVE StreamInv'
  <2>1. clients_[h] \in 1 .. MaxObjects
    BY <1>4, ServerTyped, BasePeerAssumption DEF TypeOK, ConnectFails
  <2>2. PICK c \in Objects : c = Entry(h)
    BY <2>1 DEF Entry, Objects
  <2>3. clientReset(c, TRUE) /\ UNCHANGED <<stream, received>>
    BY <1>4, <2>2 DEF ConnectFails
  <2> QED BY <1>1, <2>3, ResetStream
<1>5. CASE \/ \E h \in Hosts : Subscribe(h) \/ Unsubscribe(h)
           \/ \E k \in Connections : Break(k)
  <2>1. UNCHANGED <<client, files, stream, received>>
    BY <1>5 DEF Subscribe, Unsubscribe, Break
  <2>2. PICK c : c = NoClient
    OBVIOUS
  <2> QED BY <1>2, <2>1, FieldStream
<1> QED BY <1>3, <1>4, <1>5 DEF Discovery

LEMMA WorkerStream ==
  ASSUME ServerInv, StreamInv, NotReused, NEW w \in Workers, Worker(w)
  PROVE  StreamInv'
<1>0. /\ pc \in [Workers -> PcValues]
      /\ currentClientPtr = [v \in Workers |-> currentClientPtr[v]]
      /\ writeWaiting_ \in Seq(Objects)
  BY DEF ServerInv, QueueInv, AwakeInv, PcInv, QueueTypes
<1>1. CASE \/ Lock(w) \/ StartPoll(w) \/ TakeReady(w) \/ Wait(w) \/ EnterPoll(w)
           \/ PollTimesOut(w) \/ PollReturns(w) \/ LockPolled(w) \/ EndPoll(w)
  <2>1. UNCHANGED peerVars
    BY <1>1 DEF Lock, StartPoll, TakeReady, Wait, EnterPoll, PollTimesOut, PollReturns,
                LockPolled, EndPoll
  <2>2. HandsSame
    BY <1>0, <1>1, <2>1 DEF Lock, StartPoll, TakeReady, Wait, EnterPoll, PollTimesOut, PollReturns,
                      LockPolled, EndPoll, LoopHead, HandsSame, HandSame, Sending, peerVars
  <2>3. UNCHANGED <<client, files, stream, received>>
    BY <2>1 DEF peerVars
  <2>4. PICK c : c = NoClient
    OBVIOUS
  <2> QED BY <2>2, <2>3, FieldStream
<1>2. CASE PollEvent(w)
  <2>1. PICK c : c = Head(writeWaiting_)
    OBVIOUS
  <2>2. \A v \in Workers : HandSame(v)
    BY <1>2 DEF PollEvent, PollError, PollOut, PollNothing, handleErrors, peerVars, HandSame
  <2>3. HandsSame
    BY <2>2 DEF HandsSame
  <2>4. CASE PollNothing(c)
    BY <2>3, <2>4, FieldStream DEF PollNothing, peerVars
  <2>5. CASE PollOut(c)
    <3>1. UNCHANGED <<files, stream, received>>
      BY <2>5 DEF PollOut
    <3>2. \E b \in BOOLEAN : client' = [client EXCEPT ![c].readyToWrite = b]
      BY <2>5 DEF PollOut
    <3> QED BY <2>3, <3>1, <3>2, FieldStream
  <2>6. CASE PollError(c)
    <3>1. c \in Objects
      <4>1. writefds_ # <<>> /\ Behind
        BY <1>2 DEF PollEvent, ServerInv, QueueInv
      <4>2. Len(writeWaiting_) # 0
        BY <4>1 DEF Behind
      <4> QED BY <1>0, <2>1, <4>2, HeadAndTail
    <3>2. UNCHANGED <<stream, received>>
      BY <2>6 DEF PollError, handleErrors
    <3>3. CASE clientReset(c, TRUE)
      BY <2>2, <3>1, <3>2, <3>3, ResetStream
    <3>4. CASE UNCHANGED <<clients_, client, subscribers, files>>
      BY <2>3, <3>2, <3>4, FieldStream
    <3> QED BY <2>6, <3>3, <3>4 DEF PollError, handleErrors
  <2> QED BY <1>2, <2>1, <2>4, <2>5, <2>6 DEF PollEvent
<1>3. CASE Requeue(w)
  <2>1. HandsSame
    BY <1>0, <1>3 DEF Requeue, LoopHead, HandsSame, HandSame, Sending
  <2>2. PICK c : c = currentClientPtr[w]
    OBVIOUS
  <2>3. UNCHANGED <<files, stream, received>>
    BY <1>3 DEF Requeue
  <2>4. client' = client \/ \E b \in BOOLEAN : client' = [client EXCEPT ![c].onWriteQueue = b]
    BY <1>3, <2>2 DEF Requeue, BackOnQueue
  <2> QED BY <2>1, <2>3, <2>4, FieldStream
<1> QED BY <1>1, <1>2, <1>3, BeginStream, SendStream, EndStream DEF Worker

LEMMA NextStream ==
  ASSUME ServerInv, StreamInv, NotReused, [Next]_vars
  PROVE  StreamInv'
<1>0. pc \in [Workers -> PcValues]
  BY DEF ServerInv, QueueInv, AwakeInv, PcInv
<1>1. CASE InPut
  <2>1. HandsSame
    BY <1>0, <1>1 DEF InPut, PutOnQueue, Signal, Sleeping, HandsSame, HandSame, Sending
  <2>2. PICK c : c = Head(newPendingClients)
    OBVIOUS
  <2>3. client' = client \/ \E b \in BOOLEAN : client' = [client EXCEPT ![c].onWriteQueue = b]
    BY <1>1, <2>2 DEF InPut, PutOnQueue
  <2>4. UNCHANGED <<files, stream, received>>
    BY <1>1 DEF InPut
  <2> QED BY <2>1, <2>3, <2>4, FieldStream
<1>2. CASE InLock \/ InUnlock \/ InEnds \/ Stop \/ Broadcast \/ Join \/ UNCHANGED vars
  <2>1. HandsSame
    BY <1>0, <1>2 DEF InLock, InUnlock, InEnds, Stop, Broadcast, Join, vars, serverVars,
                      peerVars, HandsSame, HandSame, Sending
  <2>2. UNCHANGED <<client, files, stream, received>>
    BY <1>2 DEF InLock, InUnlock, InEnds, Stop, Broadcast, Join, vars, peerVars
  <2>3. PICK c : c = NoClient
    OBVIOUS
  <2> QED BY <2>1, <2>2, FieldStream
<1> QED BY <1>1, <1>2, DiscoveryStream, InQueueStream, WorkerStream DEF Next

-----------------------------------------------------------------------------
(***************************************************************************)
(* What leaves an outBox in one step, by the step.                         *)
(***************************************************************************)
Drops(c) ==
  \A m \in Messages :
    m \in ToSet(client[c].outBox) /\ m \notin ToSet(client'[c].outBox) =>
      \/ client'[c].fdStamp # client[c].fdStamp
      \/ <<m, FrameLength>> \in ToSet(stream[client[c].fdStamp].bytes)
      \/ staleThresholdValid /\ received' # received

LEMMA DropsNothing ==
  ASSUME NEW c, client'[c].outBox = client[c].outBox
  PROVE  Drops(c)
BY DEF Drops

LEMMA DropsOf ==
  ASSUME ServerInv, StreamInv, NEW c \in Objects
  PROVE  /\ Connected(c) => client[c].fdStamp \in DOMAIN stream /\ client[c].fdStamp # 0
         /\ ~Connected(c) => client[c].outBox = <<>>
<1>1. NumberOK(c) /\ PendingOK(client[c])
  BY DEF StreamInv, ClientOK, ServerInv, QueueInv, WakeInv
<1> QED BY <1>1, StreamFacts DEF NumberOK, PendingOK, Connected

LEMMA ResetDrops ==
  ASSUME ServerInv, StreamInv, NEW c \in Objects, clientReset(c, TRUE), NEW e \in Objects
  PROVE  Drops(e)
<1>0. client[c] \in ClientType /\ client = [d \in Objects |-> client[d]] /\ received \in Nat
  BY StreamFacts
<1>1. client'[c] = Reset(client[c]) /\ \A d \in Objects \ {c} : client'[d] = client[d]
  BY <1>0 DEF clientReset
<1>2. CASE e # c
  BY <1>1, <1>2, DropsNothing
<1>3. CASE e = c
  <2>1. client'[c].fdStamp = 0 /\ client'[c].outBox = <<>>
    BY <1>0, <1>1 DEF Reset, ClientType
  <2>2. CASE Connected(c)
    BY <1>3, <2>1, <2>2, DropsOf DEF Drops
  <2>3. CASE ~Connected(c)
    BY <1>3, <2>1, <2>3, DropsOf, DropsNothing
  <2> QED BY <2>2, <2>3
<1> QED BY <1>2, <1>3

LEMMA ConnectDrops ==
  ASSUME ServerInv, StreamInv, NEW h \in Hosts, Connect(h), NEW e \in Objects
  PROVE  Drops(e)
<1>0. /\ client = [d \in Objects |-> client[d]] /\ \A d \in Objects : client[d] \in ClientType
      /\ DOMAIN stream = 1 .. Len(stream) /\ Len(stream) \in Nat
  BY StreamFacts
<1>1. PICK c : c = Named(h)
  OBVIOUS
<1>2. PICK r : r = IF Connected(c) THEN Reset(client[c]) ELSE client[c]
  OBVIOUS
<1>3. PICK k : k = Len(stream) + 1
  OBVIOUS
<1>4. PICK fd \in Fds : client' = [client EXCEPT ![c] = [r EXCEPT !.fd = fd, !.fdStamp = k]]
  BY <1>1, <1>2, <1>3 DEF Connect
<1>5. c \in Objects
  BY <1>1 DEF Connect
<1>6. r \in ClientType
  BY <1>0, <1>2, <1>5, OutcomesTyped
<1>7. PICK s : s = [r EXCEPT !.fd = fd, !.fdStamp = k]
  OBVIOUS
<1>8. s.fdStamp = k /\ s.outBox = r.outBox
  BY <1>6, <1>7 DEF ClientType
<1>9. client' = [client EXCEPT ![c] = s]
  BY <1>4, <1>7
<1>10. client'[c] = s /\ \A d \in Objects \ {c} : client'[d] = client[d]
  BY <1>0, <1>5, <1>9
<1>11. CASE e # c
  BY <1>10, <1>11, DropsNothing
<1>12. CASE e = c /\ Connected(c)
  <2>1. client[c].fdStamp # k
    BY <1>0, <1>3, <1>5, <1>12, DropsOf
  <2> QED BY <1>8, <1>10, <1>12, <2>1 DEF Drops
<1>13. CASE e = c /\ ~Connected(c)
  BY <1>2, <1>8, <1>10, <1>13, DropsNothing
<1> QED BY <1>11, <1>12, <1>13

LEMMA InQueueDrops ==
  ASSUME ServerInv, StreamInv, InQueue, NEW e \in Objects
  PROVE  Drops(e)
<1>0. received \in Nat /\ client[e] \in ClientType /\ ClientOK(e)
  BY StreamFacts DEF StreamInv
<1>1. PICK old : queueMsg(received + 1, old)
  BY DEF InQueue
<1>2. received + 1 \in Messages /\ received' = received + 1
  BY <1>0, <1>1, BasePeerAssumption DEF InQueue, Messages, queueMsg
<1>3. client'[e] = client[e] \/ client'[e] = Queued(client[e], received + 1, old)
  BY <1>1 DEF queueMsg
<1>4. CASE staleThresholdValid
  BY <1>0, <1>2, <1>4 DEF Drops
<1>5. CASE ~staleThresholdValid /\ client'[e] = Queued(client[e], received + 1, old)
  <2>1. PICK box : box = client[e].outBox
    OBVIOUS
  <2>2. client'[e].outBox = Append(box, received + 1) /\ box \in Seq(Messages)
    BY <1>0, <1>2, <1>5, <2>1, RisingQueued, TypedClient DEF ClientOK
  <2>3. \A i \in DOMAIN box : /\ i \in DOMAIN Append(box, received + 1)
                              /\ Append(box, received + 1)[i] = box[i]
    BY <2>2
  <2>4. ToSet(client[e].outBox) \subseteq ToSet(client'[e].outBox)
    BY <2>1, <2>2, <2>3 DEF ToSet
  <2> QED BY <2>4 DEF Drops
<1>6. CASE client'[e] = client[e]
  BY <1>6, DropsNothing
<1> QED BY <1>3, <1>4, <1>5, <1>6

LEMMA EndDrops ==
  ASSUME ServerInv, StreamInv, NEW w \in Workers, End(w), NEW e \in Objects
  PROVE  Drops(e)
<1>0. client = [d \in Objects |-> client[d]] /\ received \in Nat
  BY StreamFacts
<1>1. PICK c : c = currentClientPtr[w]
  OBVIOUS
<1>2. PICK d : d = writing[w]
  OBVIOUS
<1>3. /\ c \in Objects /\ MatchOK(w) /\ ClientOK(c) /\ client[c] \in ClientType
      /\ pc[w] = "sent" /\ d.msg # NoMsg /\ d \in WriteType
  <2>1. pc[w] = "sent"
    BY DEF End
  <2> QED BY <1>1, <1>2, <2>1, StreamFacts DEF Sending, HandOK, StreamInv
<1>4. CASE client' = client
  BY <1>4, DropsNothing
<1>5. CASE clientReset(c, TRUE)
  BY <1>3, <1>5, ResetDrops
<1>6. ASSUME NEW s, client' = [client EXCEPT ![c] = s], s.outBox = client[c].outBox
      PROVE  Drops(e)
  BY <1>0, <1>3, <1>6, DropsNothing
<1>7. CASE client' = [client EXCEPT ![c] = Again(client[c])]
  <2>1. PICK s : s = Again(client[c])
    OBVIOUS
  <2>2. s.outBox = client[c].outBox
    BY <1>3, <2>1 DEF Again, ClientType
  <2> QED BY <1>6, <1>7, <2>1, <2>2
<1>8. CASE client' = [client EXCEPT ![c] = Partial(client[c], d.sent)]
  <2>1. PICK s : s = Partial(client[c], d.sent)
    OBVIOUS
  <2>2. s.outBox = client[c].outBox
    BY <1>3, <2>1 DEF Partial, ClientType
  <2> QED BY <1>6, <1>8, <2>1, <2>2
<1>9. CASE /\ d.fdStamp = client[c].fdStamp /\ d.status = "full"
           /\ client' = [client EXCEPT ![c] = Full(client[c])]
  <2>1. PICK s : s = Full(client[c])
    OBVIOUS
  <2>2. client'[c] = s /\ \A o \in Objects \ {c} : client'[o] = client[o]
    BY <1>0, <1>3, <1>9, <2>1
  <2>3. CASE e # c
    BY <2>2, <2>3, DropsNothing
  <2>4. CASE e = c
    <3>1. client[c].currentOutboundMessage = d.msg
      BY <1>1, <1>2, <1>3, <1>9 DEF MatchOK
    <3>2. \A i \in DOMAIN client[c].outBox :
            \/ client[c].outBox[i] = d.msg
            \/ \E j \in DOMAIN s.outBox : s.outBox[j] = client[c].outBox[i]
      BY <1>0, <1>3, <2>1, <3>1, RisingFull DEF ClientOK
    <3>3. \E i \in DOMAIN stream[client[c].fdStamp].bytes :
            stream[client[c].fdStamp].bytes[i] = <<d.msg, FrameLength>>
      BY <1>2, <1>3, <1>9 DEF MatchOK
    <3>4. <<d.msg, FrameLength>> \in ToSet(stream[client[c].fdStamp].bytes)
      BY <3>3 DEF ToSet
    <3>5. ASSUME NEW m \in Messages, m \in ToSet(client[c].outBox), m \notin ToSet(client'[c].outBox)
          PROVE  m = d.msg
      BY <2>2, <3>2, <3>5 DEF ToSet
    <3> QED BY <2>4, <3>4, <3>5 DEF Drops
  <2> QED BY <2>3, <2>4
<1> QED BY <1>1, <1>2, <1>4, <1>5, <1>7, <1>8, <1>9 DEF End, recordWrite

LEMMA NextDrops ==
  ASSUME ServerInv, StreamInv, [Next]_vars, NEW e \in Objects
  PROVE  Drops(e)
<1>0. /\ \A d \in Objects : client[d] \in ClientType
      /\ client = [d \in Objects |-> client[d]] /\ writeWaiting_ \in Seq(Objects)
  BY StreamFacts DEF ServerInv, QueueInv, QueueTypes
<1>1. CASE client' = client
  BY <1>1, DropsNothing
<1>2. ASSUME NEW c, \/ \E b \in BOOLEAN : client' = [client EXCEPT ![c].onWriteQueue = b]
                    \/ \E b \in BOOLEAN : client' = [client EXCEPT ![c].readyToWrite = b]
      PROVE  Drops(e)
  <2>1. SameWrite(e)
    BY <1>0, <1>2, FieldSame
  <2> QED BY <2>1, DropsNothing DEF SameWrite
<1>3. CASE Discovery
  <2>1. ASSUME NEW h \in Hosts, Connect(h) PROVE Drops(e)
    BY <2>1, ConnectDrops
  <2>2. ASSUME NEW h \in Hosts, ConnectFails(h) PROVE Drops(e)
    <3>1. clients_[h] \in 1 .. MaxObjects
      BY <2>2, ServerTyped, BasePeerAssumption DEF TypeOK, ConnectFails
    <3>2. PICK c \in Objects : c = Entry(h)
      BY <3>1 DEF Entry, Objects
    <3> QED BY <2>2, <3>2, ResetDrops DEF ConnectFails
  <2> QED BY <1>1, <1>3, <2>1, <2>2 DEF Discovery, Subscribe, Unsubscribe, Break
<1>4. CASE InPut
  BY <1>1, <1>2, <1>4 DEF InPut, PutOnQueue
<1>5. CASE InLock \/ InUnlock \/ InEnds \/ Stop \/ Broadcast \/ Join \/ UNCHANGED vars
  BY <1>1, <1>5 DEF InLock, InUnlock, InEnds, Stop, Broadcast, Join, vars, peerVars
<1>6. ASSUME NEW w \in Workers, Worker(w) PROVE Drops(e)
  <2>1. CASE \/ Lock(w) \/ StartPoll(w) \/ TakeReady(w) \/ Wait(w) \/ EnterPoll(w)
             \/ PollTimesOut(w) \/ PollReturns(w) \/ LockPolled(w) \/ EndPoll(w) \/ Send(w)
    BY <1>1, <2>1 DEF Lock, StartPoll, TakeReady, Wait, EnterPoll, PollTimesOut, PollReturns,
                      LockPolled, EndPoll, Send, send, peerVars
  <2>2. CASE Requeue(w)
    BY <1>1, <1>2, <2>2 DEF Requeue, BackOnQueue
  <2>3. CASE PollEvent(w)
    <3>1. PICK c : c = Head(writeWaiting_)
      OBVIOUS
    <3>2. c \in Objects
      <4>1. writefds_ # <<>> /\ Behind
        BY <2>3 DEF PollEvent, ServerInv, QueueInv
      <4>2. Len(writeWaiting_) # 0
        BY <4>1 DEF Behind
      <4> QED BY <1>0, <3>1, <4>2, HeadAndTail
    <3>3. CASE PollOut(c)
      BY <1>2, <3>3 DEF PollOut
    <3>4. CASE PollError(c)
      BY <1>1, <3>2, <3>4, ResetDrops DEF PollError, handleErrors
    <3>5. CASE PollNothing(c)
      BY <1>1, <3>5 DEF PollNothing, peerVars
    <3> QED BY <2>3, <3>1, <3>3, <3>4, <3>5 DEF PollEvent
  <2>4. CASE Begin(w)
    <3>1. CASE ChooseMessage(w, currentClientPtr[w])
      <4>1. PICK c, m : client' = [client EXCEPT ![c].currentOutboundMessage = m]
        BY <3>1 DEF ChooseMessage
      <4>2. client'[e] = IF e = c THEN [client[e] EXCEPT !.currentOutboundMessage = m] ELSE client[e]
        BY <1>0, <4>1
      <4>3. client'[e].outBox = client[e].outBox
        BY <1>0, <4>2 DEF ClientType
      <4> QED BY <4>3, DropsNothing
    <3> QED BY <1>1, <2>4, <3>1 DEF Begin, peerVars
  <2>5. CASE End(w)
    BY <2>5, EndDrops
  <2> QED BY <1>6, <2>1, <2>2, <2>3, <2>4, <2>5 DEF Worker
<1> QED BY <1>3, <1>4, <1>5, <1>6, InQueueDrops DEF Next

-----------------------------------------------------------------------------
(***************************************************************************)
(* When a host connects once only, the descriptor a worker is about to     *)
(* send on is not closed meanwhile: nobody but that worker records an      *)
(* error for its client, which is on no queue, and no Connect is about it. *)
(***************************************************************************)
Fixed(e) == client'[e].fd = client[e].fd /\ client'[e].fdStamp = client[e].fdStamp

LEMMA EndFixed ==
  ASSUME ServerInv, NEW w \in Workers, End(w), NEW e \in Objects
  PROVE  Fixed(e) \/ (client'[e].fd = Closed /\ pc[w] = "sent" /\ e = currentClientPtr[w])
<1>0. client = [d \in Objects |-> client[d]] /\ \A d \in Objects : client[d] \in ClientType
  BY StreamFacts
<1>1. PICK c : c = currentClientPtr[w]
  OBVIOUS
<1>2. PICK d : d = writing[w]
  OBVIOUS
<1>3. pc[w] = "sent"
  BY DEF End
<1>4. ASSUME NEW s, client' = [client EXCEPT ![c] = s], e # c PROVE Fixed(e)
  BY <1>0, <1>4 DEF Fixed
<1>5. CASE e # c
  BY <1>1, <1>4, <1>5 DEF End, recordWrite, clientReset, Fixed
<1>6. CASE e = c
  <2>1. PICK r \in ClientType : r = client[c]
    BY <1>0, <1>6
  <2>2. /\ Again(r).fd = r.fd /\ Again(r).fdStamp = r.fdStamp
        /\ Partial(r, d.sent).fd = r.fd /\ Partial(r, d.sent).fdStamp = r.fdStamp
        /\ Full(r).fd = r.fd /\ Full(r).fdStamp = r.fdStamp /\ Reset(r).fd = Closed
    BY DEF Again, Partial, Full, Reset, ClientType
  <2>3. \/ client' = client
        \/ client'[c] \in {Again(r), Partial(r, d.sent), Full(r), Reset(r)}
    BY <1>0, <1>1, <1>2, <1>6, <2>1 DEF End, recordWrite, clientReset
  <2> QED BY <1>1, <1>3, <1>6, <2>1, <2>2, <2>3 DEF Fixed
<1> QED BY <1>5, <1>6

LEMMA NextFixed ==
  ASSUME ServerInv, ~Reconnects, [Next]_vars, NEW e \in Objects
  PROVE  \/ Fixed(e)
         \/ client'[e].fd = Closed /\ writefds_ # <<>> /\ e = Head(writeWaiting_)
         \/ client'[e].fd = Closed /\ \E w \in Workers : pc[w] = "sent" /\ e = currentClientPtr[w]
         \/ \E h \in Hosts : Connect(h) /\ e = Named(h)
<1>0. /\ \A d \in Objects : client[d] \in ClientType
      /\ client = [d \in Objects |-> client[d]] /\ received \in Nat
  BY StreamFacts
<1>1. ASSUME client' = client PROVE Fixed(e)
  BY <1>1 DEF Fixed
<1>2. ASSUME NEW c, \/ \E b \in BOOLEAN : client' = [client EXCEPT ![c].onWriteQueue = b]
                    \/ \E b \in BOOLEAN : client' = [client EXCEPT ![c].readyToWrite = b]
      PROVE  Fixed(e)
  <2>1. SameWrite(e)
    BY <1>0, <1>2, FieldSame
  <2> QED BY <2>1 DEF SameWrite, Fixed
<1>3. CASE Discovery
  <2>1. ASSUME NEW h \in Hosts, Connect(h), e # Named(h) PROVE Fixed(e)
    BY <1>0, <2>1 DEF Connect, Fixed
  <2> QED BY <1>1, <1>3, <2>1 DEF Discovery, ConnectFails, Subscribe, Unsubscribe, Break
<1>4. CASE InPut
  BY <1>1, <1>2, <1>4 DEF InPut, PutOnQueue
<1>5. CASE InLock \/ InUnlock \/ InEnds \/ Stop \/ Broadcast \/ Join \/ UNCHANGED vars
  BY <1>1, <1>5 DEF InLock, InUnlock, InEnds, Stop, Broadcast, Join, vars, peerVars
<1>6. CASE InQueue
  <2>1. PICK old : client'[e] = client[e] \/ client'[e] = Queued(client[e], received + 1, old)
    BY <1>6 DEF InQueue, queueMsg
  <2>2. PICK r \in ClientType : r = client[e]
    BY <1>0
  <2>3. Queued(r, received + 1, old).fd = r.fd /\ Queued(r, received + 1, old).fdStamp = r.fdStamp
    BY DEF Queued, ClientType
  <2> QED BY <2>1, <2>2, <2>3 DEF Fixed
<1>7. ASSUME NEW w \in Workers, Worker(w)
      PROVE  \/ Fixed(e)
             \/ client'[e].fd = Closed /\ writefds_ # <<>> /\ e = Head(writeWaiting_)
             \/ client'[e].fd = Closed /\ pc[w] = "sent" /\ e = currentClientPtr[w]
  <2>1. CASE \/ Lock(w) \/ StartPoll(w) \/ TakeReady(w) \/ Wait(w) \/ EnterPoll(w)
             \/ PollTimesOut(w) \/ PollReturns(w) \/ LockPolled(w) \/ EndPoll(w) \/ Send(w)
    BY <1>1, <2>1 DEF Lock, StartPoll, TakeReady, Wait, EnterPoll, PollTimesOut, PollReturns,
                      LockPolled, EndPoll, Send, send, peerVars
  <2>2. CASE Requeue(w)
    BY <1>1, <1>2, <2>2 DEF Requeue, BackOnQueue
  <2>3. CASE PollEvent(w)
    <3>1. PICK c : c = Head(writeWaiting_)
      OBVIOUS
    <3>2. CASE PollOut(c)
      BY <1>2, <3>2 DEF PollOut
    <3>3. CASE clientReset(c, TRUE)
      <4>1. client'[e] = IF e = c THEN Reset(client[e]) ELSE client[e]
        BY <1>0, <3>3 DEF clientReset
      <4>2. Reset(client[e]).fd = Closed
        BY <1>0, RisingReset
      <4> QED BY <2>3, <3>1, <4>1, <4>2 DEF PollEvent, Fixed
    <3>4. CASE PollNothing(c)
      BY <1>1, <3>4 DEF PollNothing, peerVars
    <3> QED BY <1>1, <2>3, <3>1, <3>2, <3>3, <3>4 DEF PollEvent, PollError, handleErrors
  <2>4. CASE Begin(w)
    <3>1. CASE ChooseMessage(w, currentClientPtr[w])
      <4>1. PICK c, m : client' = [client EXCEPT ![c].currentOutboundMessage = m]
        BY <3>1 DEF ChooseMessage
      <4>2. client'[e] = IF e = c THEN [client[e] EXCEPT !.currentOutboundMessage = m] ELSE client[e]
        BY <1>0, <4>1
      <4>3. Fixed(e)
        BY <1>0, <4>2 DEF ClientType, Fixed
      <4> QED BY <4>3
    <3> QED BY <1>1, <2>4, <3>1 DEF Begin, peerVars
  <2>5. CASE End(w)
    BY <2>5, EndFixed
  <2> QED BY <1>7, <2>1, <2>2, <2>3, <2>4, <2>5 DEF Worker
<1> QED BY <1>3, <1>4, <1>5, <1>6, <1>7 DEF Next

Stays(w) ==
  pc[w] = "send" => /\ client[currentClientPtr[w]].fd = writing[w].fd
                    /\ client[currentClientPtr[w]].fdStamp = writing[w].fdStamp

StayInv ==
  /\ \A c \in Objects : Connected(c) => made[c[1]] # 0
  /\ \A w \in Workers : Stays(w)

LEMMA InitStay == Init => StayInv
BY DEF Init, PeerInit, StayInv, Stays, Connected, NewClient, Closed

LEMMA NextMade ==
  ASSUME ServerInv, [Next]_vars
  PROVE  /\ \A h \in Hosts : made[h] # 0 => made'[h] # 0
         /\ \A h \in Hosts : Connect(h) => made'[h] # 0
<1>0. made \in [Hosts -> 0 .. MaxObjects] /\ MaxObjects \in Nat
  BY BasePeerAssumption DEF ServerInv, PeerInv, PeerTypes
<1>1. ASSUME NEW h \in Hosts, Connect(h)
      PROVE  made'[h] # 0 /\ \A g \in Hosts : g # h => made'[g] = made[g]
  <2>1. PICK n : n = Named(h)[2]
    OBVIOUS
  <2>2. n \in 1 .. MaxObjects
    BY <1>1, <2>1 DEF Connect, Objects
  <2>3. made' = [made EXCEPT ![h] = IF n > made[h] THEN n ELSE made[h]]
    BY <1>1, <2>1 DEF Connect
  <2>4. made[h] \in Nat /\ (n > made[h] \/ made[h] # 0)
    BY <1>0, <2>2
  <2> QED BY <1>0, <2>2, <2>3, <2>4
<1>2. ASSUME \A h \in Hosts : ~Connect(h) PROVE made' = made
  <2>1. ASSUME NEW w \in Workers, Worker(w) PROVE made' = made
    <3>1. CASE \/ Lock(w) \/ StartPoll(w) \/ TakeReady(w) \/ Wait(w) \/ EnterPoll(w)
               \/ PollTimesOut(w) \/ PollReturns(w) \/ LockPolled(w) \/ EndPoll(w)
      BY <3>1 DEF Lock, StartPoll, TakeReady, Wait, EnterPoll, PollTimesOut, PollReturns,
                  LockPolled, EndPoll, peerVars
    <3>2. CASE PollEvent(w)
      BY <3>2 DEF PollEvent, PollError, PollOut, PollNothing, handleErrors, peerVars
    <3>3. CASE Begin(w) \/ Send(w) \/ End(w) \/ Requeue(w)
      BY <3>3 DEF Begin, ChooseMessage, Send, send, End, recordWrite, handleErrors, Requeue, peerVars
    <3> QED BY <2>1, <3>1, <3>2, <3>3 DEF Worker
  <2>2. CASE Discovery \/ UNCHANGED vars
    BY <1>2, <2>2 DEF Discovery, ConnectFails, Subscribe, Unsubscribe, Break, vars, peerVars
  <2>3. CASE InQueue \/ InLock \/ InPut \/ InUnlock \/ InEnds \/ Stop \/ Broadcast \/ Join
    BY <2>3 DEF InQueue, queueMsg, InLock, InPut, InUnlock, InEnds, Stop, Broadcast, Join, peerVars
  <2> QED BY <2>1, <2>2, <2>3 DEF Next
<1> QED BY <1>1, <1>2

LEMMA NextHand ==
  ASSUME ServerInv, [Next]_vars, NEW w \in Workers, pc'[w] = "send"
  PROVE  \/ pc[w] = "send" /\ HandSame(w)
         \/ Begin(w) /\ ChooseMessage(w, currentClientPtr[w]) /\ UNCHANGED currentClientPtr
<1>0. /\ pc \in [Workers -> PcValues]
      /\ currentClientPtr = [v \in Workers |-> currentClientPtr[v]]
      /\ writing \in [Workers -> WriteType]
  BY DEF ServerInv, QueueInv, AwakeInv, PcInv, QueueTypes, PeerInv, PeerTypes
<1>1. ASSUME HandSame(w) PROVE pc[w] = "send" /\ HandSame(w)
  BY <1>1 DEF HandSame
<1>2. CASE Discovery
  BY <1>1, <1>2 DEF Discovery, Connect, ConnectFails, Subscribe, Unsubscribe, Break, serverVars,
                    HandSame
<1>3. CASE \/ InQueue \/ InLock \/ InUnlock \/ InEnds \/ Stop \/ Join \/ UNCHANGED vars
  BY <1>1, <1>3 DEF InQueue, queueMsg, InLock, InUnlock, InEnds, Stop, Join, vars, serverVars,
                    peerVars, HandSame
<1>4. CASE Broadcast
  BY <1>0, <1>1, <1>4 DEF Broadcast, peerVars, HandSame
<1>5. CASE InPut
  BY <1>0, <1>1, <1>5 DEF InPut, PutOnQueue, Signal, Sleeping, HandSame
<1>6. ASSUME NEW v \in Workers, Worker(v)
      PROVE  HandSame(w) \/ (v = w /\ Begin(v))
  <2>1. CASE \/ Lock(v) \/ StartPoll(v) \/ TakeReady(v) \/ Wait(v) \/ EnterPoll(v)
             \/ PollTimesOut(v) \/ PollReturns(v) \/ LockPolled(v) \/ EndPoll(v)
    BY <1>0, <2>1 DEF Lock, StartPoll, TakeReady, Wait, EnterPoll, PollTimesOut, PollReturns,
                      LockPolled, EndPoll, LoopHead, HandSame, peerVars
  <2>2. CASE Requeue(v)
    BY <1>0, <2>2 DEF Requeue, LoopHead, HandSame
  <2>3. CASE PollEvent(v)
    BY <2>3 DEF PollEvent, PollError, PollOut, PollNothing, handleErrors, peerVars, HandSame
  <2>4. CASE Send(v)
    <3>1. v # w
      BY <1>0, <2>4 DEF Send
    <3>2. writing'[w] = writing[w]
      BY <1>0, <2>4, <3>1 DEF Send, send
    <3> QED BY <1>0, <2>4, <3>1, <3>2 DEF Send, HandSame
  <2>5. CASE End(v)
    <3>1. v # w
      BY <1>0, <2>5 DEF End
    <3> QED BY <1>0, <2>5, <3>1 DEF End, recordWrite, HandSame
  <2>6. CASE Begin(v) /\ v # w
    BY <1>0, <2>6 DEF Begin, ChooseMessage, peerVars, HandSame
  <2> QED BY <1>6, <2>1, <2>2, <2>3, <2>4, <2>5, <2>6 DEF Worker
<1>7. CASE Begin(w)
  <2>1. CASE ~ChooseMessage(w, currentClientPtr[w])
    BY <1>0, <1>1, <1>7, <2>1 DEF Begin, peerVars, HandSame
  <2> QED BY <1>7, <2>1 DEF Begin
<1> QED BY <1>1, <1>2, <1>3, <1>4, <1>5, <1>6, <1>7 DEF Next

LEMMA NextStay ==
  ASSUME ServerInv, StayInv, ~Reconnects, [Next]_vars
  PROVE  StayInv'
<1>1. ASSUME NEW c \in Objects, client'[c].fd # Closed PROVE made'[c[1]] # 0
  <2>1. c[1] \in Hosts
    BY DEF Objects
  <2>2. CASE Fixed(c)
    BY <1>1, <2>1, <2>2, NextMade DEF Fixed, StayInv, Connected
  <2>3. ASSUME NEW h \in Hosts, Connect(h), c = Named(h) PROVE made'[c[1]] # 0
    <3>1. c[1] = h
      BY <2>3 DEF Named, Entry
    <3> QED BY <2>3, <3>1, NextMade
  <2> QED BY <1>1, <2>2, <2>3, NextFixed
<1>2. ASSUME NEW w \in Workers, pc'[w] = "send"
      PROVE  /\ client'[currentClientPtr'[w]].fd = writing'[w].fd
             /\ client'[currentClientPtr'[w]].fdStamp = writing'[w].fdStamp
  <2>1. PICK c : c = currentClientPtr[w]
    OBVIOUS
  <2>2. CASE pc[w] = "send" /\ HandSame(w)
    <3>1. c \in Objects /\ writing[w].fd # Closed /\ Connected(c)
      BY <2>1, <2>2, StreamFacts DEF Sending, HandOK, StayInv, Stays, Connected
    <3>2. Fixed(c)
      <4>1. CASE writefds_ # <<>> /\ c = Head(writeWaiting_)
        <5>1. writeWaiting_ \in Seq(Objects) /\ Len(writeWaiting_) # 0 /\ OnceOnQueues
          BY <4>1 DEF ServerInv, QueueInv, QueueTypes, Behind
        <5>2. c \in OnQueues
          BY <4>1, <5>1, HeadAndTail DEF OnQueues
        <5>3. c \in InHand
          BY <2>1, <3>1, NoClientIsNone DEF InHand
        <5> QED BY <5>1, <5>2, <5>3 DEF OnceOnQueues
      <4>2. ASSUME NEW v \in Workers, pc[v] = "sent", c = currentClientPtr[v] PROVE FALSE
        BY <2>1, <2>2, <4>2, StreamFacts DEF Sending
      <4>3. ASSUME NEW h \in Hosts, Connect(h), c = Named(h) PROVE FALSE
        <5>1. c[1] = h
          BY <4>3 DEF Named, Entry
        <5>2. made[h] = 0
          BY <4>3 DEF Connect
        <5> QED BY <3>1, <5>1, <5>2 DEF StayInv
      <4> QED BY <3>1, <4>1, <4>2, <4>3, NextFixed
    <3> QED BY <2>1, <2>2, <3>2 DEF HandSame, Fixed, StayInv, Stays
  <2>3. CASE ChooseMessage(w, c) /\ currentClientPtr' = currentClientPtr /\ Begin(w)
    <3>1. PICK m : client' = [client EXCEPT ![c].currentOutboundMessage = m]
      BY <2>3 DEF ChooseMessage
    <3>2. pc[w] = "write" /\ c \in Objects
      BY <2>1, <2>3 DEF Begin, ServerInv, QueueInv, QueueTypes, Writing
    <3>3. /\ client[c] \in ClientType /\ client = [d \in Objects |-> client[d]]
          /\ writing \in [Workers -> WriteType]
      BY <3>2, StreamFacts DEF ServerInv, PeerInv, PeerTypes
    <3>4. client'[c] = [client[c] EXCEPT !.currentOutboundMessage = m]
      BY <3>1, <3>2, <3>3
    <3>5. client'[c].fd = client[c].fd /\ client'[c].fdStamp = client[c].fdStamp
      BY <3>3, <3>4 DEF ClientType
    <3>6. writing'[w].fd = client[c].fd /\ writing'[w].fdStamp = client[c].fdStamp
      BY <2>3, <3>3 DEF ChooseMessage
    <3> QED BY <2>1, <2>3, <3>5, <3>6
  <2> QED BY <1>2, <2>1, <2>2, <2>3, NextHand
<1> QED BY <1>1, <1>2 DEF StayInv, Stays, Connected

(***************************************************************************)
(* A worker finds its own connection, or none, behind the descriptor.      *)
(***************************************************************************)
LEMMA StayedNotReused ==
  ASSUME ServerInv, StreamInv, StayInv
  PROVE  NotReused
<1> SUFFICES ASSUME NEW w \in Workers, pc[w] = "send"
             PROVE  files[writing[w].fd] \in {0, writing[w].fdStamp}
  BY DEF NotReused
<1>1. PICK c : c = currentClientPtr[w]
  OBVIOUS
<1>2. c \in Objects /\ writing[w].fd # Closed
  BY <1>1, StreamFacts DEF Sending, HandOK
<1>3. client[c].fd = writing[w].fd /\ client[c].fdStamp = writing[w].fdStamp
  BY <1>1 DEF StayInv, Stays
<1>4. NumberOK(c)
  BY <1>2 DEF StreamInv, ClientOK
<1> QED BY <1>2, <1>3, <1>4 DEF NumberOK, Connected

LEMMA OneConnectionNotReused ==
  ASSUME ServerInv, StreamInv, MaxConnections <= 1
  PROVE  NotReused
<1> SUFFICES ASSUME NEW w \in Workers, pc[w] = "send"
             PROVE  files[writing[w].fd] \in {0, writing[w].fdStamp}
  BY DEF NotReused
<1>1. writing[w] \in WriteType /\ writing[w].fd # Closed /\ writing[w].fdStamp \in DOMAIN stream
  BY StreamFacts DEF Sending, HandOK, StreamInv, MatchOK
<1>2. writing[w].fd \in Fds /\ writing[w].fdStamp \in 1 .. MaxConnections
  BY <1>1, StreamFacts DEF WriteType, Connections
<1>3. files[writing[w].fd] \in 1 .. MaxConnections \union {0}
  BY <1>2, StreamFacts DEF Connections
<1> QED BY <1>2, <1>3, BasePeerAssumption

-----------------------------------------------------------------------------
(***************************************************************************)
(* What the streams show.                                                  *)
(***************************************************************************)
LEMMA StreamShows == ServerInv /\ StreamInv => EachOnce /\ InOrder
<1> SUFFICES ASSUME ServerInv, StreamInv, NEW k \in DOMAIN stream,
                    NEW i \in DOMAIN stream[k].bytes, NEW j \in DOMAIN stream[k].bytes
             PROVE  /\ stream[k].bytes[i] = stream[k].bytes[j] => i = j
                    /\ i < j => stream[k].bytes[i][1] <= stream[k].bytes[j][1]
  BY DEF EachOnce, InOrder
<1>1. PICK s : s = stream[k].bytes
  OBVIOUS
<1>2. /\ \A n \in DOMAIN s : s[n][1] \in Nat /\ s[n][2] \in Nat
      /\ s \in Seq(Messages \X (1 .. FrameLength))
  BY <1>1, ByteFacts
<1>3. \A m, n \in DOMAIN s : m < n => Before(s[m], s[n])
  BY <1>1 DEF StreamInv, StreamOK
<1>4. i \in DOMAIN s /\ j \in DOMAIN s /\ i \in Nat /\ j \in Nat
  BY <1>1, <1>2
<1>5. i < j => s[i][1] <= s[j][1]
  BY <1>2, <1>3, <1>4 DEF Before
<1>6. ASSUME s[i] = s[j] PROVE i = j
  <2>1. ~Before(s[i], s[j]) /\ ~Before(s[j], s[i])
    BY <1>2, <1>4, <1>6 DEF Before
  <2> QED BY <1>3, <1>4, <2>1
<1> QED BY <1>1, <1>5, <1>6

LEMMA StreamAlways == Spec /\ []NotReused => [](ServerInv /\ StreamInv)
<1>1. Init => ServerInv /\ StreamInv
  BY InitServer, InitStream
<1>2. ServerInv /\ StreamInv /\ NotReused /\ [Next]_vars => (ServerInv /\ StreamInv)'
  BY NextServer, NextStream
<1> QED BY <1>1, <1>2, PTL DEF Spec

\* A worker finds its own connection, or none, behind the descriptor it has read before
\* send() (BasePeer.cc:338) when no host connects a second time, or only one connection is
\* ever made: then nobody gets the number of a descriptor that was closed under its hands.
THEOREM NotReusedAlways ==
  ASSUME ~Reconnects \/ MaxConnections <= 1
  PROVE  Spec => []NotReused
<1>1. CASE MaxConnections <= 1
  <2>1. ServerInv /\ StreamInv => NotReused
    BY <1>1, OneConnectionNotReused
  <2>2. Init => ServerInv /\ StreamInv
    BY InitServer, InitStream
  <2>3. ServerInv /\ StreamInv /\ [Next]_vars => (ServerInv /\ StreamInv)'
    BY <2>1, NextServer, NextStream
  <2> QED BY <2>1, <2>2, <2>3, PTL DEF Spec
<1>2. CASE ~Reconnects
  <2>1. ServerInv /\ StreamInv /\ StayInv => NotReused
    BY StayedNotReused
  <2>2. Init => ServerInv /\ StreamInv /\ StayInv
    BY InitServer, InitStream, InitStay
  <2>3. ServerInv /\ StreamInv /\ StayInv /\ [Next]_vars => (ServerInv /\ StreamInv /\ StayInv)'
    BY <1>2, <2>1, NextServer, NextStream, NextStay
  <2> QED BY <2>1, <2>2, <2>3, PTL DEF Spec
<1> QED BY <1>1, <1>2

\* No byte of a message is sent twice on one connection, although a worker sends without a
\* lock while the client is reset, connected again or given new messages (BasePeer.cc:265-420),
\* as long as the descriptor in its hands does not become another connection's.
THEOREM EachOnceAlways == Spec /\ []NotReused => []EachOnce
BY StreamAlways, StreamShows, PTL

\* The bytes on a connection are those of the messages in the order they were received,
\* although the outBox is pruned while one of them is being sent (BasePeer.cc:184), as long
\* as the descriptor in a worker's hands does not become another connection's.
THEOREM InOrderAlways == Spec /\ []NotReused => []InOrder
BY StreamAlways, StreamShows, PTL

\* EachOnce and InOrder without a condition on the run, for a host that connects once.
THEOREM OnceInOrderAlways ==
  ASSUME ~Reconnects \/ MaxConnections <= 1
  PROVE  Spec => [](EachOnce /\ InOrder)
BY NotReusedAlways, EachOnceAlways, InOrderAlways, PTL

\* A message leaves an outBox when all of it has been sent on this connection, when it is
\* old, or with the connection, although what is at the front changes while a worker is in
\* send() (BasePeer.cc:184, 408).
THEOREM DropsOnlyStaleAlways == Spec /\ []NotReused => DropsOnlyStale
<1>1. ServerInv /\ StreamInv /\ [Next]_vars => \A c \in Objects : Drops(c)
  BY NextDrops
<1>2. Spec /\ []NotReused => [][\A c \in Objects : Drops(c)]_vars
  BY <1>1, StreamAlways, PTL DEF Spec
<1>3. (\A c \in Objects : Drops(c)) =>
        \A c \in Objects, m \in Messages :
          m \in ToSet(client[c].outBox) /\ m \notin ToSet(client'[c].outBox) =>
            \/ client'[c].fdStamp # client[c].fdStamp
            \/ <<m, FrameLength>> \in ToSet(stream[client[c].fdStamp].bytes)
            \/ staleThresholdValid /\ received' # received
  BY DEF Drops
<1> QED BY <1>2, <1>3, PTL DEF DropsOnlyStale

-----------------------------------------------------------------------------
(***************************************************************************)
(* Frames.  Without pruning, what has been sent on a connection ends n     *)
(* bytes behind the end of a frame, n being what the client, or the worker *)
(* that has it in hand, knows to be sent of the message at the front.      *)
(***************************************************************************)
LEMMA Remainder ==
  ASSUME NEW f \in Nat \ {0}, NEW n \in Nat, NEW q \in Nat, NEW r \in 0 .. f - 1, n = q * f + r
  PROVE  n % f = r
BY SMTT(60)

HeadOK(c) ==
  client[c].currentOutboundMessage # NoMsg =>
    client[c].outBox # <<>> /\ client[c].outBox[1] = client[c].currentOutboundMessage

At(c, n) ==
  LET s == stream[client[c].fdStamp].bytes
  IN  /\ \E q \in Nat : Len(s) = q * FrameLength + n
      /\ n > 0 => client[c].outBox # <<>> /\ s[Len(s)][1] = client[c].outBox[1]

Reported(w, c) ==
  pc[w] = "sent" /\ currentClientPtr[w] = c /\ writing[w].fdStamp = client[c].fdStamp

PartOK(c) ==
  Connected(c) =>
    /\ (\A w \in Workers : ~Reported(w, c)) => At(c, client[c].bytesWrittenSoFar)
    /\ \A w \in Workers : Reported(w, c) => At(c, writing[w].offset + writing[w].sent)

BeganOK(c) ==
  client[c].bytesWrittenSoFar # 0 => \E k \in DOMAIN stream : stream[k].client = c

WholeOK(k) ==
  LET s == stream[k].bytes
  IN  \A i \in DOMAIN s : /\ s[i][2] = ((i - 1) % FrameLength) + 1
                          /\ i > 1 /\ s[i][2] > 1 => s[i - 1][1] = s[i][1]

FrameInv ==
  /\ \A c \in Objects : HeadOK(c) /\ PartOK(c) /\ BeganOK(c)
  /\ \A k \in DOMAIN stream : WholeOK(k) /\ made[stream[k].client[1]] # 0

LEMMA InitFrame == Init => FrameInv
<1> SUFFICES ASSUME Init PROVE FrameInv
  OBVIOUS
<1>1. client = [c \in Objects |-> NewClient] /\ stream = <<>>
  BY DEF Init, PeerInit
<1>2. ASSUME NEW c \in Objects PROVE HeadOK(c) /\ PartOK(c) /\ BeganOK(c)
  BY <1>1 DEF HeadOK, PartOK, BeganOK, Connected, NewClient, Closed, NoMsg
<1> QED BY <1>1, <1>2 DEF FrameInv

(***************************************************************************)
(* A client that is left alone, and a step that leaves alone all but one.  *)
(***************************************************************************)
LEMMA FrameKept ==
  ASSUME NEW c \in Objects, HeadOK(c), PartOK(c), BeganOK(c), SameWrite(c),
         Connected(c) => stream'[client[c].fdStamp] = stream[client[c].fdStamp],
         \A k \in DOMAIN stream : k \in DOMAIN stream' /\ stream'[k].client = stream[k].client,
         \A w \in Workers : pc[w] = "sent" /\ currentClientPtr[w] = c => HandSame(w),
         \A w \in Workers : pc'[w] = "sent" /\ currentClientPtr'[w] = c => HandSame(w)
  PROVE  HeadOK(c)' /\ PartOK(c)' /\ BeganOK(c)'
<1>1. HeadOK(c)'
  BY DEF HeadOK, SameWrite
<1>2. BeganOK(c)'
  BY DEF BeganOK, SameWrite
<1>3. PartOK(c)'
  <2>1. CASE ~Connected(c)
    BY <2>1 DEF PartOK, Connected, SameWrite
  <2>2. CASE Connected(c)
    <3>1. ASSUME NEW n, At(c, n) PROVE At(c, n)'
      BY <2>2, <3>1 DEF At, SameWrite
    <3>2. \A w \in Workers : /\ Reported(w, c) => HandSame(w) /\ Reported(w, c)'
                             /\ Reported(w, c)' => HandSame(w) /\ Reported(w, c)
      BY DEF Reported, HandSame, SameWrite
    <3>3. CASE \A w \in Workers : ~Reported(w, c)'
      <4>1. PICK n : n = client[c].bytesWrittenSoFar
        OBVIOUS
      <4>2. At(c, n)
        BY <2>2, <3>2, <3>3, <4>1 DEF PartOK
      <4>3. At(c, n)' /\ client'[c].bytesWrittenSoFar = n
        BY <3>1, <4>1, <4>2 DEF SameWrite
      <4> QED BY <3>3, <4>3 DEF PartOK, At
    <3>4. ASSUME NEW w \in Workers, Reported(w, c)'
          PROVE  At(c, writing[w].offset + writing[w].sent)'
      <4>1. PICK n : n = writing[w].offset + writing[w].sent
        OBVIOUS
      <4>2. At(c, n)
        BY <2>2, <3>2, <3>4, <4>1 DEF PartOK
      <4>3. At(c, n)' /\ writing'[w].offset + writing'[w].sent = n
        BY <3>1, <3>2, <3>4, <4>1, <4>2 DEF HandSame
      <4> QED BY <4>3 DEF At
    <3> QED BY <3>3, <3>4 DEF PartOK
  <2> QED BY <2>1, <2>2
<1> QED BY <1>1, <1>2, <1>3

LEMMA OneFrame ==
  ASSUME ServerInv, FrameInv, UNCHANGED stream, NEW c,
         \A e \in Objects : e # c => SameWrite(e),
         \A h \in Hosts : made[h] # 0 => made'[h] # 0,
         \A w \in Workers : pc[w] \in Sending /\ currentClientPtr[w] # c => HandSame(w),
         \A w \in Workers : pc'[w] \in Sending /\ currentClientPtr'[w] # c => HandSame(w),
         c \in Objects => HeadOK(c)' /\ PartOK(c)' /\ BeganOK(c)'
  PROVE  FrameInv'
<1>1. ASSUME NEW e \in Objects, e # c PROVE HeadOK(e)' /\ PartOK(e)' /\ BeganOK(e)'
  <2>1. HeadOK(e) /\ PartOK(e) /\ BeganOK(e) /\ SameWrite(e)
    BY <1>1 DEF FrameInv
  <2>2. /\ \A w \in Workers : pc[w] = "sent" /\ currentClientPtr[w] = e => HandSame(w)
        /\ \A w \in Workers : pc'[w] = "sent" /\ currentClientPtr'[w] = e => HandSame(w)
    BY <1>1 DEF Sending
  <2> QED BY <2>1, <2>2, FrameKept
<1>2. ASSUME NEW k \in DOMAIN stream' PROVE WholeOK(k)' /\ made'[stream'[k].client[1]] # 0
  <2>1. stream[k].client[1] \in Hosts
    BY StreamFacts DEF Objects
  <2>2. WholeOK(k)'
    BY DEF FrameInv, WholeOK
  <2> QED BY <2>1, <2>2 DEF FrameInv
<1> QED BY <1>1, <1>2 DEF FrameInv

LEMMA FieldFrame ==
  ASSUME ServerInv, FrameInv, HandsSame, UNCHANGED stream, NEW c,
         \A h \in Hosts : made[h] # 0 => made'[h] # 0,
         \/ client' = client
         \/ \E b \in BOOLEAN : client' = [client EXCEPT ![c].onWriteQueue = b]
         \/ \E b \in BOOLEAN : client' = [client EXCEPT ![c].readyToWrite = b]
  PROVE  FrameInv'
<1>1. \A e \in Objects : SameWrite(e)
  BY StreamFacts, FieldSame
<1>2. NoClient \notin Objects
  BY NoClientIsNone
<1>3. \A w \in Workers : pc[w] \in Sending \/ pc'[w] \in Sending => HandSame(w)
  BY DEF HandsSame
<1> QED BY <1>1, <1>2, <1>3, OneFrame

LEMMA ResetFrame ==
  ASSUME ServerInv, FrameInv, NEW c \in Objects, clientReset(c, TRUE), UNCHANGED stream,
         \A h \in Hosts : made[h] # 0 => made'[h] # 0,
         \A w \in Workers : pc'[w] \in Sending => HandSame(w),
         \A w \in Workers : pc[w] \in Sending /\ currentClientPtr[w] # c => HandSame(w)
  PROVE  FrameInv'
<1>1. /\ client[c] \in ClientType /\ client = [e \in Objects |-> client[e]]
  BY StreamFacts
<1>2. client'[c] = Reset(client[c]) /\ \A e \in Objects : e # c => SameWrite(e)
  BY <1>1 DEF clientReset, SameWrite
<1>3. /\ client'[c].fd = Closed /\ client'[c].currentOutboundMessage = NoMsg
      /\ client'[c].bytesWrittenSoFar = client[c].bytesWrittenSoFar
  BY <1>1, <1>2 DEF Reset, ClientType
<1>4. HeadOK(c)' /\ PartOK(c)'
  BY <1>3 DEF HeadOK, PartOK, Connected
<1>5. BeganOK(c)'
  BY <1>3 DEF FrameInv, BeganOK
<1> QED BY <1>2, <1>4, <1>5, OneFrame

(***************************************************************************)
(* A connection is made for a client that has never had one: what it has   *)
(* written of a frame is not reset with its last connection.               *)
(***************************************************************************)
LEMMA ConnectFrame ==
  ASSUME ServerInv, StreamInv, FrameInv, NEW h \in Hosts, Connect(h), [Next]_vars,
         ~Reconnects \/ MaxConnections <= 1, \A w \in Workers : HandSame(w)
  PROVE  FrameInv'
<1>0. /\ stream \in Seq(StreamType) /\ DOMAIN stream = 1 .. Len(stream) /\ Len(stream) \in Nat
      /\ \A k \in DOMAIN stream : stream[k].client \in Objects /\ k \in Nat /\ k # 0
      /\ \A d \in Objects : client[d] \in ClientType
      /\ client = [d \in Objects |-> client[d]]
      /\ FrameLength \in Nat
  BY StreamFacts, BasePeerAssumption
<1>1. PICK c : c = Named(h)
  OBVIOUS
<1>2. PICK k : k = Len(stream) + 1
  OBVIOUS
<1>3. /\ c \in Objects /\ k \in Connections /\ k # 0 /\ c[1] = h
      /\ stream' = Append(stream, [client |-> c, bytes |-> <<>>])
  BY <1>0, <1>1, <1>2 DEF Connect, Named, Entry
<1>4. /\ DOMAIN stream' = 1 .. Len(stream) + 1 /\ stream'[k].client = c /\ stream'[k].bytes = <<>>
      /\ \A n \in DOMAIN stream : stream'[n] = stream[n] /\ n \in DOMAIN stream' /\ n # k
      /\ k \in DOMAIN stream' /\ \A n \in DOMAIN stream' : n # k => n \in DOMAIN stream
  BY <1>0, <1>2, <1>3
<1>5. \A n \in DOMAIN stream : stream[n].client # c
  <2>1. CASE MaxConnections <= 1
    <3>1. Len(stream) = 0
      BY <1>0, <1>2, <1>3, <2>1, BasePeerAssumption DEF Connections
    <3> QED BY <1>0, <3>1
  <2>2. CASE ~Reconnects
    <3>1. made[h] = 0
      BY <2>2 DEF Connect
    <3> QED BY <1>3, <3>1 DEF FrameInv
  <2> QED BY <2>1, <2>2
<1>6. ~Connected(c) /\ client[c].bytesWrittenSoFar = 0
  <2>1. NumberOK(c) /\ BeganOK(c)
    BY <1>3 DEF StreamInv, ClientOK, FrameInv
  <2> QED BY <1>5, <2>1 DEF NumberOK, BeganOK
<1>7. /\ client'[c].fdStamp = k /\ client'[c].bytesWrittenSoFar = 0
      /\ client'[c].outBox = client[c].outBox
      /\ client'[c].currentOutboundMessage = client[c].currentOutboundMessage
      /\ \A d \in Objects \ {c} : client'[d] = client[d]
  <2>1. PICK fd : client' = [client EXCEPT ![c] = [client[c] EXCEPT !.fd = fd, !.fdStamp = k]]
    BY <1>1, <1>2, <1>6 DEF Connect
  <2>2. PICK s : s = [client[c] EXCEPT !.fd = fd, !.fdStamp = k]
    OBVIOUS
  <2>3. client[c] \in ClientType /\ client' = [client EXCEPT ![c] = s]
    BY <1>0, <1>3, <2>1, <2>2
  <2>4. /\ s.fdStamp = k /\ s.bytesWrittenSoFar = client[c].bytesWrittenSoFar
        /\ s.outBox = client[c].outBox
        /\ s.currentOutboundMessage = client[c].currentOutboundMessage
    BY <2>2, <2>3 DEF ClientType
  <2> QED BY <1>0, <1>3, <1>6, <2>3, <2>4
<1>8. HeadOK(c)' /\ BeganOK(c)'
  BY <1>3, <1>7 DEF FrameInv, HeadOK, BeganOK
<1>9. PartOK(c)'
  <2>1. At(c, 0)'
    <3>1. Len(stream'[k].bytes) = 0 * FrameLength + 0 /\ 0 \in Nat
      BY <1>0, <1>4
    <3> QED BY <1>7, <3>1 DEF At
  <2>2. ASSUME NEW w \in Workers, Reported(w, c)' PROVE FALSE
    <3>1. pc[w] = "sent" /\ writing[w].fdStamp = k
      BY <1>7, <2>2 DEF Reported, HandSame
    <3>2. k \in DOMAIN stream
      BY <3>1 DEF StreamInv, MatchOK, Sending
    <3> QED BY <1>4, <3>2
  <2> QED BY <1>7, <2>1, <2>2 DEF PartOK, At
<1>10. ASSUME NEW e \in Objects, e # c PROVE HeadOK(e)' /\ PartOK(e)' /\ BeganOK(e)'
  <2>1. HeadOK(e) /\ PartOK(e) /\ BeganOK(e) /\ NumberOK(e) /\ SameWrite(e)
    BY <1>7, <1>10 DEF FrameInv, StreamInv, ClientOK, SameWrite
  <2>2. Connected(e) => stream'[client[e].fdStamp] = stream[client[e].fdStamp]
    BY <1>4, <2>1 DEF NumberOK
  <2>3. \A n \in DOMAIN stream : n \in DOMAIN stream' /\ stream'[n].client = stream[n].client
    BY <1>4
  <2>4. /\ \A w \in Workers : pc[w] = "sent" /\ currentClientPtr[w] = e => HandSame(w)
        /\ \A w \in Workers : pc'[w] = "sent" /\ currentClientPtr'[w] = e => HandSame(w)
    OBVIOUS
  <2> QED BY <2>1, <2>2, <2>3, <2>4, FrameKept
<1>11. ASSUME NEW n \in DOMAIN stream' PROVE WholeOK(n)' /\ made'[stream'[n].client[1]] # 0
  <2>1. CASE n = k
    BY <1>3, <1>4, <2>1, NextMade DEF WholeOK
  <2>2. CASE n # k
    <3>1. n \in DOMAIN stream /\ stream'[n] = stream[n]
      BY <1>4, <1>11, <2>2
    <3>2. stream[n].client[1] \in Hosts
      BY <1>0, <3>1 DEF Objects
    <3> QED BY <3>1, <3>2, NextMade DEF FrameInv, WholeOK
  <2> QED BY <2>1, <2>2
<1> QED BY <1>8, <1>9, <1>10, <1>11 DEF FrameInv

(***************************************************************************)
(* A message is queued: without pruning, what was at the front still is.   *)
(***************************************************************************)
LEMMA InQueueFrame ==
  ASSUME ServerInv, StreamInv, FrameInv, ~staleThresholdValid, InQueue
  PROVE  FrameInv'
<1>0. received \in Nat /\ \A e \in Objects : client[e] \in ClientType
  BY StreamFacts
<1>1. PICK old : queueMsg(received + 1, old)
  BY DEF InQueue
<1>2. received + 1 \in Messages
  BY <1>0, BasePeerAssumption DEF InQueue, Messages
<1>3. UNCHANGED <<stream, made>> /\ \A w \in Workers : HandSame(w)
  BY <1>1 DEF queueMsg, InQueue, HandSame
<1>4. ASSUME NEW c \in Objects PROVE HeadOK(c)' /\ PartOK(c)' /\ BeganOK(c)'
  <2>1. /\ HeadOK(c) /\ PartOK(c) /\ BeganOK(c) /\ ClientOK(c)
        /\ client[c] \in ClientType /\ client[c].outBox \in Seq(Messages)
    BY <1>0, TypedClient DEF FrameInv, StreamInv
  <2>2. CASE client'[c] = client[c]
    <3>1. SameWrite(c)
      BY <2>2 DEF SameWrite
    <3> QED BY <1>3, <2>1, <3>1, FrameKept
  <2>3. CASE client'[c] = Queued(client[c], received + 1, old)
    <3>1. /\ client'[c].fd = client[c].fd /\ client'[c].fdStamp = client[c].fdStamp
          /\ client'[c].currentOutboundMessage = client[c].currentOutboundMessage
          /\ client'[c].bytesWrittenSoFar = client[c].bytesWrittenSoFar
          /\ client'[c].outBox = Append(client[c].outBox, received + 1)
      BY <1>0, <1>2, <2>1, <2>3, RisingQueued DEF ClientOK
    <3>2. client[c].outBox # <<>> => client'[c].outBox # <<>>
                                     /\ client'[c].outBox[1] = client[c].outBox[1]
      BY <2>1, <3>1
    <3>3. HeadOK(c)' /\ BeganOK(c)'
      BY <1>3, <2>1, <3>1, <3>2 DEF HeadOK, BeganOK
    <3>4. ASSUME NEW n, At(c, n) PROVE At(c, n)'
      BY <1>3, <3>1, <3>2, <3>4 DEF At
    <3>5. \A w \in Workers : Reported(w, c)' <=> Reported(w, c)
      BY <1>3, <3>1 DEF Reported, HandSame
    <3>6. ASSUME Connected(c), \A w \in Workers : ~Reported(w, c)
          PROVE  At(c, client[c].bytesWrittenSoFar)'
      <4>1. PICK n : n = client[c].bytesWrittenSoFar
        OBVIOUS
      <4>2. At(c, n)'
        BY <2>1, <3>4, <3>6, <4>1 DEF PartOK
      <4> QED BY <3>1, <4>1, <4>2 DEF At
    <3>7. ASSUME Connected(c), NEW w \in Workers, Reported(w, c)
          PROVE  At(c, writing[w].offset + writing[w].sent)'
      <4>1. PICK n : n = writing[w].offset + writing[w].sent
        OBVIOUS
      <4>2. At(c, n)'
        BY <2>1, <3>4, <3>7, <4>1 DEF PartOK
      <4>3. writing'[w] = writing[w]
        BY <1>3 DEF HandSame
      <4> QED BY <4>1, <4>2, <4>3 DEF At
    <3> QED BY <3>1, <3>3, <3>5, <3>6, <3>7 DEF PartOK, Connected
  <2> QED BY <1>1, <2>2, <2>3 DEF queueMsg
<1>5. \A k \in DOMAIN stream' : WholeOK(k)' /\ made'[stream'[k].client[1]] # 0
  BY <1>3 DEF FrameInv, WholeOK
<1> QED BY <1>4, <1>5 DEF FrameInv

(***************************************************************************)
(* A message is chosen: it is at the front of the outBox.                  *)
(***************************************************************************)
LEMMA BeginFrame ==
  ASSUME ServerInv, StreamInv, FrameInv, NEW w \in Workers, Begin(w)
  PROVE  FrameInv'
<1>0. /\ \A e \in Objects : client[e] \in ClientType
      /\ pc \in [Workers -> PcValues] /\ client = [e \in Objects |-> client[e]]
      /\ QueueTypes /\ QueueInv /\ writing \in [Workers -> WriteType]
  BY StreamFacts DEF ServerInv, QueueInv, PeerInv, PeerTypes
<1>1. PICK c : c = currentClientPtr[w]
  OBVIOUS
<1>2. pc[w] = "write" /\ c \in Objects /\ UNCHANGED currentClientPtr
  BY <1>0, <1>1 DEF Begin, QueueTypes, Writing
<1>3. CASE UNCHANGED peerVars /\ (pc' = pc \/ pc' = [pc EXCEPT ![w] = "requeue"])
  <2>1. HandsSame
    BY <1>0, <1>2, <1>3 DEF HandsSame, HandSame, Sending, peerVars
  <2>2. UNCHANGED <<client, stream, made>>
    BY <1>3 DEF peerVars
  <2> QED BY <2>1, <2>2, FieldFrame
<1>4. CASE ChooseMessage(w, c) /\ pc' = [pc EXCEPT ![w] = "send"]
  <2>1. PICK m : m = IF client[c].currentOutboundMessage # NoMsg
                     THEN client[c].currentOutboundMessage ELSE Head(client[c].outBox)
    OBVIOUS
  <2>2. /\ client' = [client EXCEPT ![c].currentOutboundMessage = m]
        /\ client[c].currentOutboundMessage = NoMsg => client[c].outBox # <<>>
        /\ UNCHANGED <<stream, made>>
    BY <1>4, <2>1 DEF ChooseMessage, FrontOfNothing
  <2>3. PICK s : s = [client[c] EXCEPT !.currentOutboundMessage = m]
    OBVIOUS
  <2>4. client'[c] = s /\ \A e \in Objects : e # c => SameWrite(e)
    BY <1>0, <1>2, <2>2, <2>3 DEF SameWrite
  <2>5. /\ HeadOK(c) /\ PartOK(c) /\ BeganOK(c) /\ client[c] \in ClientType
    BY <1>0, <1>2 DEF FrameInv
  <2>6. /\ s.fd = client[c].fd /\ s.fdStamp = client[c].fdStamp /\ s.outBox = client[c].outBox
        /\ s.currentOutboundMessage = m /\ s.bytesWrittenSoFar = client[c].bytesWrittenSoFar
    BY <2>3, <2>5 DEF ClientType
  <2>7. client[c].outBox # <<>> /\ client[c].outBox[1] = m
    <3>1. client[c].outBox # <<>> => Head(client[c].outBox) = client[c].outBox[1]
      BY <2>5, TypedClient
    <3> QED BY <2>1, <2>2, <2>5, <3>1 DEF HeadOK
  <2>8. HeadOK(c)' /\ BeganOK(c)'
    BY <2>2, <2>4, <2>5, <2>6, <2>7 DEF HeadOK, BeganOK
  <2>9. \A v \in Workers : pc[v] \in Sending \/ pc'[v] \in Sending =>
          v = w \/ (HandSame(v) /\ currentClientPtr[v] # c)
    <3>1. SUFFICES ASSUME NEW v \in Workers, pc[v] \in Sending \/ pc'[v] \in Sending, v # w
                   PROVE  HandSame(v) /\ currentClientPtr[v] # c
      OBVIOUS
    <3>2. HandSame(v) /\ pc[v] \in Writing /\ pc[w] \in Writing
      BY <1>0, <1>2, <1>4, <3>1 DEF ChooseMessage, HandSame, Sending, Writing
    <3>3. currentClientPtr[v] # currentClientPtr[w]
      BY <1>0, <1>1, <1>2, <3>1, <3>2, NoClientIsNone DEF QueueInv, OnceOnQueues
    <3> QED BY <1>1, <3>2, <3>3
  <2>10. pc'[w] = "send" /\ pc[w] = "write"
    BY <1>0, <1>2, <1>4
  <2>11. \A v \in Workers : ~Reported(v, c) /\ ~Reported(v, c)'
    BY <1>2, <2>9, <2>10 DEF Reported, HandSame, Sending
  <2>12. PartOK(c)'
    <3>1. CASE ~Connected(c)
      BY <2>4, <2>6, <3>1 DEF PartOK, Connected
    <3>2. CASE Connected(c)
      <4>1. PICK n : n = client[c].bytesWrittenSoFar
        OBVIOUS
      <4>2. At(c, n)
        BY <2>5, <2>11, <3>2, <4>1 DEF PartOK
      <4>3. At(c, n)'
        BY <2>2, <2>4, <2>6, <4>2 DEF At
      <4> QED BY <2>4, <2>6, <2>11, <4>1, <4>3 DEF PartOK, At
    <3> QED BY <3>1, <3>2
  <2>13. /\ \A v \in Workers : pc[v] \in Sending /\ currentClientPtr[v] # c => HandSame(v)
         /\ \A v \in Workers : pc'[v] \in Sending /\ currentClientPtr'[v] # c => HandSame(v)
    BY <1>1, <1>2, <2>9
  <2> QED BY <2>2, <2>4, <2>8, <2>12, <2>13, OneFrame
<1> QED BY <1>1, <1>3, <1>4 DEF Begin

(***************************************************************************)
(* The outcome of a send() is recorded: the client knows what the worker   *)
(* knew.                                                                   *)
(***************************************************************************)
LEMMA EndFrame ==
  ASSUME ServerInv, StreamInv, FrameInv, NEW w \in Workers, End(w)
  PROVE  FrameInv'
<1>0. /\ \A e \in Objects : client[e] \in ClientType
      /\ pc \in [Workers -> PcValues] /\ client = [e \in Objects |-> client[e]]
      /\ writing \in [Workers -> WriteType] /\ FrameLength \in Nat \ {0}
  BY StreamFacts, BasePeerAssumption DEF ServerInv, PeerInv, PeerTypes
<1>1. PICK c : c = currentClientPtr[w]
  OBVIOUS
<1>2. PICK d : d = writing[w]
  OBVIOUS
<1>3. /\ pc[w] = "sent" /\ pc' = [pc EXCEPT ![w] = "requeue"] /\ UNCHANGED currentClientPtr
      /\ writing' = [writing EXCEPT ![w] = NotWriting] /\ UNCHANGED <<stream, made>>
  BY DEF End, recordWrite
<1>4. /\ c \in Objects /\ d \in WriteType /\ d.offset = client[c].bytesWrittenSoFar /\ Outcome(d)
      /\ MatchOK(w) /\ ClientOK(c) /\ d.msg # NoMsg /\ client[c] \in ClientType
      /\ HeadOK(c) /\ PartOK(c) /\ BeganOK(c)
  BY <1>0, <1>1, <1>2, <1>3, StreamFacts DEF Sending, HandOK, StreamInv, FrameInv
<1>5. /\ \A v \in Workers : pc'[v] \in Sending => v # w /\ pc[v] \in Sending
      /\ \A v \in Workers \ {w} : HandSame(v)
      /\ \A v \in Workers : pc[v] \in Sending /\ v # w => currentClientPtr[v] # c
  <2>1. \A v \in Workers : pc[v] \in Sending /\ v # w => currentClientPtr[v] # c
    BY <1>1, <1>3, StreamFacts DEF Sending
  <2> QED BY <1>0, <1>3, <2>1 DEF HandSame, Sending
<1>6. /\ \A v \in Workers : ~Reported(v, c)'
      /\ \A v \in Workers : pc[v] \in Sending /\ currentClientPtr[v] # c => HandSame(v)
      /\ \A v \in Workers : pc'[v] \in Sending /\ currentClientPtr'[v] # c => HandSame(v)
  BY <1>1, <1>3, <1>5 DEF Reported, Sending
<1>7. ASSUME NEW s, client' = [client EXCEPT ![c] = s], s.fd = client[c].fd,
             s.fdStamp = client[c].fdStamp,
             s.currentOutboundMessage # NoMsg =>
               s.outBox # <<>> /\ s.outBox[1] = s.currentOutboundMessage,
             s.bytesWrittenSoFar # 0 => client[c].bytesWrittenSoFar # 0 \/ Connected(c),
             Connected(c) =>
               /\ \E q \in Nat : Len(stream[client[c].fdStamp].bytes)
                                   = q * FrameLength + s.bytesWrittenSoFar
               /\ s.bytesWrittenSoFar > 0 => At(c, s.bytesWrittenSoFar) /\ s.outBox = client[c].outBox
      PROVE  FrameInv'
  <2>1. client'[c] = s /\ \A e \in Objects : e # c => SameWrite(e)
    BY <1>0, <1>4, <1>7 DEF SameWrite
  <2>2. HeadOK(c)'
    BY <1>7, <2>1 DEF HeadOK
  <2>3. BeganOK(c)'
    <3>1. SUFFICES ASSUME s.bytesWrittenSoFar # 0 PROVE \E k \in DOMAIN stream : stream[k].client = c
      BY <1>3, <2>1 DEF BeganOK
    <3> QED BY <1>4, <1>7, <3>1 DEF BeganOK, ClientOK, NumberOK
  <2>4. PartOK(c)'
    <3>1. SUFFICES ASSUME Connected(c) PROVE At(c, s.bytesWrittenSoFar)'
      BY <1>6, <1>7, <2>1 DEF PartOK, Connected, At
    <3>2. PICK n : n = s.bytesWrittenSoFar
      OBVIOUS
    <3>3. At(c, n)'
      BY <1>3, <1>7, <2>1, <3>1, <3>2 DEF At
    <3> QED BY <2>1, <3>2, <3>3 DEF At
  <2> QED BY <1>3, <1>6, <2>1, <2>2, <2>3, <2>4, OneFrame
<1>8. CASE d.fdStamp # client[c].fdStamp
  <2>1. client' = client
    BY <1>1, <1>2, <1>8 DEF End, recordWrite
  <2>2. \A v \in Workers : ~Reported(v, c)
    BY <1>1, <1>2, <1>5, <1>8 DEF Reported, Sending
  <2>3. Connected(c) => At(c, client[c].bytesWrittenSoFar)
    BY <1>4, <2>2 DEF PartOK
  <2>4. client' = [client EXCEPT ![c] = client[c]]
    BY <1>0, <2>1
  <2> QED BY <1>4, <1>7, <2>3, <2>4 DEF At, HeadOK
<1>9. Connected(c) /\ d.fdStamp = client[c].fdStamp => At(c, d.offset + d.sent)
  <2>1. SUFFICES ASSUME Connected(c), d.fdStamp = client[c].fdStamp PROVE At(c, d.offset + d.sent)
    OBVIOUS
  <2>2. Reported(w, c)
    BY <1>1, <1>2, <1>3, <2>1 DEF Reported
  <2> QED BY <1>2, <1>4, <2>1, <2>2 DEF PartOK
<1>10. CASE /\ d.fdStamp = client[c].fdStamp /\ d.status = "again"
            /\ client' = [client EXCEPT ![c] = Again(client[c])]
  <2>1. PICK s : s = Again(client[c])
    OBVIOUS
  <2>2. /\ s.fd = client[c].fd /\ s.fdStamp = client[c].fdStamp /\ s.outBox = client[c].outBox
        /\ s.currentOutboundMessage = NoMsg /\ s.bytesWrittenSoFar = client[c].bytesWrittenSoFar
    BY <1>4, <2>1 DEF Again, ClientType
  <2>3. d.offset + d.sent = s.bytesWrittenSoFar
    BY <1>4, <1>10, <2>2, TypedClient DEF Outcome
  <2>4. Connected(c) => At(c, s.bytesWrittenSoFar)
    BY <1>9, <1>10, <2>3
  <2> QED BY <1>7, <1>10, <2>1, <2>2, <2>4 DEF At
<1>11. CASE /\ d.fdStamp = client[c].fdStamp /\ d.status = "partial"
            /\ client' = [client EXCEPT ![c] = Partial(client[c], d.sent)]
  <2>1. PICK s : s = Partial(client[c], d.sent)
    OBVIOUS
  <2>2. /\ s.fd = client[c].fd /\ s.fdStamp = client[c].fdStamp /\ s.outBox = client[c].outBox
        /\ s.currentOutboundMessage = client[c].currentOutboundMessage
        /\ s.bytesWrittenSoFar = client[c].bytesWrittenSoFar + d.sent
    BY <1>4, <2>1 DEF Partial, ClientType
  <2>3. Connected(c) => At(c, s.bytesWrittenSoFar)
    BY <1>4, <1>9, <1>11, <2>2
  <2>4. Connected(c)
    <3>1. client[c].fdStamp \in DOMAIN stream
      BY <1>2, <1>4, <1>11 DEF MatchOK
    <3>2. client[c].fdStamp # 0
      BY <3>1, StreamFacts
    <3> QED BY <1>4, <3>2 DEF ClientOK, NumberOK
  <2> QED BY <1>4, <1>7, <1>11, <2>1, <2>2, <2>3, <2>4 DEF At, HeadOK
<1>12. CASE /\ d.fdStamp = client[c].fdStamp /\ d.status = "full"
            /\ client' = [client EXCEPT ![c] = Full(client[c])]
  <2>1. PICK s : s = Full(client[c])
    OBVIOUS
  <2>2. /\ s.fd = client[c].fd /\ s.fdStamp = client[c].fdStamp
        /\ s.currentOutboundMessage = NoMsg /\ s.bytesWrittenSoFar = 0
    BY <1>4, <2>1 DEF Full, ClientType
  <2>3. ASSUME Connected(c)
        PROVE  \E q \in Nat : Len(stream[client[c].fdStamp].bytes) = q * FrameLength + 0
    <3>1. d.offset + d.sent = FrameLength
      BY <1>0, <1>4, <1>12 DEF Outcome, WriteType
    <3>2. PICK q \in Nat : Len(stream[client[c].fdStamp].bytes) = q * FrameLength + FrameLength
      BY <1>9, <1>12, <2>3, <3>1 DEF At
    <3>3. q + 1 \in Nat /\ q * FrameLength + FrameLength = (q + 1) * FrameLength + 0
      BY <1>0
    <3> QED BY <3>2, <3>3
  <2>4. ~(s.bytesWrittenSoFar > 0)
    BY <2>2
  <2>5. client' = [client EXCEPT ![c] = s]
    BY <1>12, <2>1
  <2> QED BY <1>7, <2>2, <2>3, <2>4, <2>5
<1>13. CASE clientReset(c, TRUE)
  <2>1. /\ \A v \in Workers : pc'[v] \in Sending => HandSame(v)
        /\ \A v \in Workers : pc[v] \in Sending /\ currentClientPtr[v] # c => HandSame(v)
    BY <1>1, <1>5
  <2> QED BY <1>3, <1>4, <1>13, <2>1, ResetFrame
<1> QED BY <1>1, <1>2, <1>8, <1>10, <1>11, <1>12, <1>13 DEF End, recordWrite

(***************************************************************************)
(* A part of a frame is sent: it goes on where the last one ended, in the  *)
(* message at the front.                                                   *)
(***************************************************************************)
LEMMA SendFrame ==
  ASSUME ServerInv, StreamInv, FrameInv, NotReused, NEW w \in Workers, Send(w)
  PROVE  FrameInv'
<1>0. /\ stream \in Seq(StreamType) /\ DOMAIN stream = 1 .. Len(stream) /\ Len(stream) \in Nat
      /\ pc \in [Workers -> PcValues] /\ writing \in [Workers -> WriteType]
      /\ PeerInv /\ FrameLength \in Nat \ {0}
  BY StreamFacts, BasePeerAssumption DEF ServerInv, PeerInv, PeerTypes
<1>1. PICK c : c = currentClientPtr[w]
  OBVIOUS
<1>2. PICK d : d = writing[w]
  OBVIOUS
<1>3. /\ pc[w] = "send" /\ pc' = [pc EXCEPT ![w] = "sent"]
      /\ UNCHANGED <<client, made, currentClientPtr>>
  BY DEF Send, send
<1>4. /\ c \in Objects /\ d \in WriteType /\ d.offset = client[c].bytesWrittenSoFar /\ d.msg # NoMsg
      /\ d.offset \in Nat /\ d.offset < FrameLength /\ d.msg \in Messages
      /\ HeadOK(c) /\ PartOK(c) /\ BeganOK(c) /\ client[c].outBox \in Seq(Messages)
  <2>1. c \in Objects /\ d \in WriteType /\ HandOK(w) /\ client[c] \in ClientType
    BY <1>1, <1>2, <1>3, StreamFacts DEF Sending
  <2> QED BY <1>0, <1>1, <1>2, <2>1 DEF HandOK, WriteType, FrameInv, ClientType
<1>5. \A v \in Workers : pc[v] \in Sending /\ v # w => currentClientPtr[v] # c
  BY <1>1, <1>3, StreamFacts DEF Sending
<1>6. ASSUME NEW status \in {"again", "error", "partial", "full"}, NEW n \in 0 .. FrameLength,
             SendOutcome(w, status, n)
      PROVE  /\ \A v \in Workers \ {w} : HandSame(v)
             /\ pc'[w] = "sent" /\ currentClientPtr'[w] = c /\ writing'[w].sent = n
             /\ writing'[w].offset = d.offset /\ writing'[w].fdStamp = d.fdStamp
  <2>1. /\ \A v \in Workers \ {w} : writing'[v] = writing[v]
        /\ writing'[w].sent = n /\ writing'[w].offset = writing[w].offset
        /\ writing'[w].fdStamp = writing[w].fdStamp
    BY <1>0, <1>6, SentTyped
  <2>2. pc'[w] = "sent" /\ \A v \in Workers \ {w} : pc'[v] = pc[v]
    BY <1>0, <1>3
  <2> QED BY <1>1, <1>2, <1>3, <2>1, <2>2 DEF HandSame
<1>7. /\ \A v \in Workers : ~Reported(v, c)
      /\ Connected(c) => At(c, d.offset)
  BY <1>3, <1>4, <1>5 DEF Reported, Sending, PartOK
<1>8. ASSUME NEW status \in {"again", "error", "partial", "full"}, NEW n \in 0 .. FrameLength,
             SendOutcome(w, status, n), NEW m, m = d.offset + n,
             Connected(c) => IF client[c].fdStamp = d.fdStamp THEN At(c, m)'
                             ELSE At(c, d.offset)'
      PROVE  PartOK(c)'
  <2>1. /\ \A v \in Workers \ {w} : HandSame(v)
        /\ pc'[w] = "sent" /\ currentClientPtr'[w] = c
        /\ writing'[w].offset + writing'[w].sent = m /\ writing'[w].fdStamp = d.fdStamp
    BY <1>6, <1>8
  <2>2. \A v \in Workers : Reported(v, c)' => v = w
    BY <1>3, <1>5, <2>1 DEF Reported, HandSame, Sending
  <2>3. Reported(w, c)' <=> client[c].fdStamp = d.fdStamp
    BY <1>3, <2>1 DEF Reported
  <2>4. client'[c].bytesWrittenSoFar = d.offset
    BY <1>3, <1>4
  <2> QED BY <1>3, <1>8, <2>1, <2>2, <2>3, <2>4 DEF PartOK, Connected, At
<1>9. HeadOK(c)' /\ \A e \in Objects : SameWrite(e)
  BY <1>3, <1>4 DEF HeadOK, SameWrite
<1>10. ASSUME NEW status \in {"again", "error"}, SendOutcome(w, status, 0), UNCHANGED stream
       PROVE  FrameInv'
  <2>1. PICK m : m = d.offset + 0
    OBVIOUS
  <2>2. Connected(c) => At(c, d.offset)' /\ At(c, m)'
    BY <1>3, <1>4, <1>7, <1>10, <2>1 DEF At
  <2>3. PartOK(c)'
    BY <1>0, <1>8, <1>10, <2>1, <2>2
  <2>4. BeganOK(c)'
    BY <1>3, <1>4, <1>10 DEF BeganOK
  <2>5. /\ \A v \in Workers : pc[v] \in Sending /\ currentClientPtr[v] # c => HandSame(v)
        /\ \A v \in Workers : pc'[v] \in Sending /\ currentClientPtr'[v] # c => HandSame(v)
    BY <1>0, <1>1, <1>6, <1>10
  <2> QED BY <1>3, <1>9, <1>10, <2>3, <2>4, <2>5, OneFrame
<1>11. ASSUME NEW n \in 1 .. FrameLength - writing[w].offset, NEW status \in {"partial", "full"},
              SendOutcome(w, status, n), Target(w) # 0,
              stream' = [stream EXCEPT ![Target(w)].bytes = stream[Target(w)].bytes \o
                           Bytes(writing[w].msg, writing[w].offset, writing[w].offset + n)]
       PROVE  FrameInv'
  <2>1. PICK k, old, new, s : /\ k = Target(w) /\ old = stream[k].bytes
                              /\ new = Bytes(d.msg, d.offset, d.offset + n) /\ s = old \o new
    OBVIOUS
  <2>2. /\ k = d.fdStamp /\ k \in DOMAIN stream /\ stream[k].client = c
        /\ client[c].fdStamp = k /\ Connected(c) /\ client[c].currentOutboundMessage = d.msg
    BY <1>1, <1>2, <1>3, <1>11, <2>1, SendsOnOwn
  <2>3. /\ n \in Nat /\ n \in 0 .. FrameLength /\ d.offset + n \in Nat
        /\ d.offset + n <= FrameLength /\ d.offset <= d.offset + n
        /\ (d.offset + n) - d.offset = n /\ 1 <= n
    BY <1>0, <1>2, <1>4, <1>11
  <2>4. /\ new \in Seq(Messages \X (1 .. FrameLength)) /\ Len(new) = n
        /\ \A i \in 1 .. n : new[i] = <<d.msg, d.offset + i>>
    <3>1. PICK to \in Nat : to = d.offset + n
      BY <2>3
    <3>2. d.offset <= to /\ to <= FrameLength /\ to - d.offset = n
      BY <2>3, <3>1
    <3>3. /\ Bytes(d.msg, d.offset, to) \in Seq(Messages \X (1 .. FrameLength))
          /\ Len(Bytes(d.msg, d.offset, to)) = to - d.offset
          /\ \A i \in 1 .. to - d.offset : Bytes(d.msg, d.offset, to)[i] = <<d.msg, d.offset + i>>
      BY <1>4, <3>2, BytesTyped
    <3> QED BY <2>1, <3>1, <3>2, <3>3
  <2>5. /\ DOMAIN stream' = DOMAIN stream
        /\ \A i \in DOMAIN stream : stream'[i].client = stream[i].client
        /\ \A i \in DOMAIN stream : i # k => stream'[i] = stream[i]
        /\ stream'[k].bytes = s
    <3>1. Puts(k, new)
      BY <1>2, <1>11, <2>1 DEF Puts
    <3>2. new \in Seq(Messages \X (1 .. FrameLength))
      BY <2>4
    <3>3. stream' \in Seq(StreamType) /\ Len(stream') = Len(stream)
      BY <1>0, <3>1, <3>2, StreamTyped
    <3>4. \A i \in DOMAIN stream : /\ stream'[i].client = stream[i].client
                                   /\ i # k => stream'[i] = stream[i]
      BY <1>0, <3>1, <3>2, StreamTyped
    <3>5. DOMAIN stream' = DOMAIN stream
      BY <1>0, <3>3
    <3>6. k \in DOMAIN stream /\ old = stream[k].bytes
      BY <2>1, <2>2
    <3>7. stream'[k].bytes = old \o new
      BY <1>0, <3>1, <3>2, <3>6, StreamTyped
    <3>8. s = old \o new
      BY <2>1
    <3> QED BY <3>3, <3>4, <3>5, <3>7, <3>8
  <2>6. old \in Seq(Messages \X (1 .. FrameLength))
    BY <2>1, <2>2, ByteFacts
  <2>7. /\ DOMAIN s = 1 .. Len(old) + n /\ Len(s) = Len(old) + n
        /\ Len(old) \in Nat /\ DOMAIN old = 1 .. Len(old)
        /\ \A i \in 1 .. Len(old) : s[i] = old[i]
        /\ \A i \in 1 .. n : s[Len(old) + i] = <<d.msg, d.offset + i>>
    <3>1. s = old \o new
      BY <2>1
    <3>2. new \in Seq(Messages \X (1 .. FrameLength))
      BY <2>4
    <3>3. /\ DOMAIN s = 1 .. Len(old) + Len(new) /\ Len(s) = Len(old) + Len(new)
          /\ Len(old) \in Nat /\ DOMAIN old = 1 .. Len(old)
          /\ \A i \in 1 .. Len(old) : s[i] = old[i]
          /\ \A i \in 1 .. Len(new) : s[Len(old) + i] = new[i]
      BY <2>6, <3>1, <3>2, Joined
    <3>4. Len(new) = n
      BY <2>4
    <3>5. \A i \in 1 .. n : s[Len(old) + i] = new[i]
      BY <3>3, <3>4
    <3> QED BY <2>4, <3>3, <3>4, <3>5
  <2>8. client[c].outBox # <<>> /\ client[c].outBox[1] = d.msg
    BY <1>4, <2>2 DEF HeadOK
  <2>9. PICK q \in Nat : Len(old) = q * FrameLength + d.offset
    BY <1>7, <2>1, <2>2 DEF At
  <2>10. d.offset > 0 => old[Len(old)][1] = d.msg
    BY <1>7, <2>1, <2>2, <2>8 DEF At
  <2>11. PICK m : m = d.offset + n
    OBVIOUS
  <2>12. At(c, m)'
    <3>1. Len(s) = q * FrameLength + m /\ s[Len(s)][1] = d.msg
      <4>1. q * FrameLength \in Int
        BY <1>0
      <4>2. s[Len(old) + n] = <<d.msg, d.offset + n>>
        BY <2>3, <2>7
      <4>3. PICK p : p = q * FrameLength
        OBVIOUS
      <4>4. Len(s) = p + m
        <5>1. p \in Int /\ n \in Int /\ d.offset \in Int
          BY <1>4, <2>3, <4>1, <4>3
        <5>2. Len(old) = p + d.offset /\ Len(s) = Len(old) + n
          BY <2>7, <2>9, <4>3
        <5> QED BY <2>11, <5>1, <5>2
      <4>5. s[Len(s)][1] = d.msg
        BY <2>7, <4>2
      <4> QED BY <4>3, <4>4, <4>5
    <3>2. stream'[client'[c].fdStamp].bytes = s /\ client'[c].outBox = client[c].outBox
      BY <1>3, <2>2, <2>5
    <3> QED BY <2>8, <3>1, <3>2 DEF At
  <2>13. PartOK(c)'
    BY <1>8, <1>11, <2>2, <2>3, <2>11, <2>12
  <2>14. BeganOK(c)'
    BY <1>3, <2>2, <2>5 DEF BeganOK
  <2>15. ASSUME NEW e \in Objects, e # c PROVE HeadOK(e)' /\ PartOK(e)' /\ BeganOK(e)'
    <3>1. HeadOK(e) /\ PartOK(e) /\ BeganOK(e) /\ NumberOK(e) /\ SameWrite(e)
      BY <1>9 DEF FrameInv, StreamInv, ClientOK
    <3>2. Connected(e) => stream'[client[e].fdStamp] = stream[client[e].fdStamp]
      BY <1>4, <2>2, <2>15, <2>5, <3>1, Apart DEF NumberOK
    <3>3. \A v \in Workers : (pc[v] = "sent" /\ currentClientPtr[v] = e)
                             \/ (pc'[v] = "sent" /\ currentClientPtr'[v] = e) => HandSame(v)
      BY <1>1, <1>3, <1>6, <1>11, <2>3, <2>15
    <3> QED BY <2>5, <3>1, <3>2, <3>3, FrameKept
  <2>16. WholeOK(k)'
    <3>1. ASSUME NEW i \in DOMAIN s
          PROVE  /\ s[i][2] = ((i - 1) % FrameLength) + 1
                 /\ i > 1 /\ s[i][2] > 1 => s[i - 1][1] = s[i][1]
      <4>1. CASE i <= Len(old)
        <5>1. /\ i \in DOMAIN old /\ s[i] = old[i]
              /\ i > 1 => i - 1 \in 1 .. Len(old) /\ s[i - 1] = old[i - 1]
          BY <2>7, <4>1
        <5>2. /\ old[i][2] = ((i - 1) % FrameLength) + 1
              /\ i > 1 /\ old[i][2] > 1 => old[i - 1][1] = old[i][1]
          BY <2>1, <2>2, <5>1 DEF FrameInv, WholeOK
        <5> QED BY <5>1, <5>2
      <4>2. CASE ~(i <= Len(old))
        <5>1. i \in Nat /\ i - Len(old) \in 1 .. n /\ i = Len(old) + (i - Len(old))
          BY <2>3, <2>7, <4>2
        <5>2. PICK j \in 1 .. n : i = Len(old) + j
          BY <5>1
        <5>3. s[i] = <<d.msg, d.offset + j>>
          BY <2>7, <5>2
        <5>4. PICK r : r = d.offset + j - 1
          OBVIOUS
        <5>5. r \in 0 .. FrameLength - 1 /\ i - 1 \in Nat /\ d.offset + j = r + 1
          <6>1. j \in Nat /\ 1 <= j /\ j <= n /\ d.offset \in Nat /\ n \in Nat
            BY <1>4, <2>3
          <6>2. PICK o \in Nat : o = d.offset + j
            BY <6>1
          <6>3. 1 <= o /\ o <= d.offset + n
            BY <6>1, <6>2
          <6>4. o <= FrameLength /\ r = o - 1
            <7>1. PICK to \in Nat : to = d.offset + n
              BY <2>3
            <7>2. o <= FrameLength
              BY <1>0, <2>3, <6>3, <7>1
            <7>3. r = o - 1
              BY <5>4, <6>1, <6>2
            <7> QED BY <7>2, <7>3
          <6>5. r \in 0 .. FrameLength - 1 /\ o = r + 1
            BY <1>0, <6>3, <6>4
          <6> QED BY <2>7, <5>2, <6>1, <6>2, <6>5
        <5>6. i - 1 = q * FrameLength + r
          <6>1. PICK p : p = q * FrameLength
            OBVIOUS
          <6>2. p \in Int /\ Len(old) = p + d.offset
            BY <1>0, <2>9, <6>1
          <6>3. j \in Int /\ d.offset \in Int
            BY <1>4, <2>3
          <6>4. i - 1 = p + r
            BY <5>2, <5>4, <6>2, <6>3
          <6> QED BY <6>1, <6>4
        <5>7. (i - 1) % FrameLength = r
          BY <1>0, <5>5, <5>6, Remainder
        <5>8. CASE j = 1 /\ d.offset > 0
          <6>1. Len(old) # 0
            <7>1. q * FrameLength \in Nat
              BY <1>0
            <7> QED BY <1>4, <2>9, <5>8, <7>1
          <6>2. i - 1 = Len(old) /\ s[Len(old)] = old[Len(old)]
            BY <2>7, <5>2, <5>8, <6>1
          <6> QED BY <2>10, <5>3, <5>5, <5>7, <5>8, <6>2
        <5>9. CASE j = 1 /\ ~(d.offset > 0)
          <6>1. d.offset + j = 1
            BY <1>4, <5>9
          <6> QED BY <5>3, <5>5, <5>7, <6>1
        <5>10. CASE j # 1
          <6>1. j - 1 \in 1 .. n /\ i - 1 = Len(old) + (j - 1)
            BY <2>3, <2>7, <5>2, <5>10
          <6>2. s[i - 1] = <<d.msg, d.offset + (j - 1)>>
            BY <2>7, <6>1
          <6> QED BY <5>3, <5>5, <5>7, <6>2
        <5> QED BY <5>8, <5>9, <5>10
      <4> QED BY <4>1, <4>2
    <3>2. stream'[k].bytes = s
      BY <2>5
    <3> QED BY <3>1, <3>2 DEF WholeOK
  <2>17. ASSUME NEW i \in DOMAIN stream' PROVE WholeOK(i)' /\ made'[stream'[i].client[1]] # 0
    <3>1. i \in DOMAIN stream /\ stream'[i].client = stream[i].client
      BY <2>17, <2>5
    <3>2. CASE i = k
      BY <1>3, <2>16, <3>1, <3>2 DEF FrameInv
    <3>3. CASE i # k
      <4>1. stream'[i] = stream[i]
        BY <2>5, <3>1, <3>3
      <4> QED BY <1>3, <3>1, <4>1 DEF FrameInv, WholeOK
    <3> QED BY <3>2, <3>3
  <2> QED BY <1>9, <2>13, <2>14, <2>15, <2>17 DEF FrameInv
<1>12. CASE SendOutcome(w, "error", 0) /\ UNCHANGED stream
  BY <1>10, <1>12
<1>13. CASE SendOutcome(w, "again", 0) /\ UNCHANGED stream
  BY <1>10, <1>13
<1>14. PeerInv
  BY <1>0
<1> QED BY <1>11, <1>12, <1>13, <1>14, SendCases

LEMMA DiscoveryFrame ==
  ASSUME ServerInv, StreamInv, FrameInv, ~Reconnects \/ MaxConnections <= 1,
         [Next]_vars, Discovery
  PROVE  FrameInv'
<1>1. \A w \in Workers : HandSame(w)
  BY DEF Discovery, Connect, ConnectFails, Subscribe, Unsubscribe, Break, serverVars, HandSame
<1>2. HandsSame
  BY <1>1 DEF HandsSame
<1>3. ASSUME NEW h \in Hosts, Connect(h) PROVE FrameInv'
  BY <1>1, <1>3, ConnectFrame
<1>4. ASSUME NEW h \in Hosts, ConnectFails(h) PROVE FrameInv'
  <2>1. clients_[h] \in 1 .. MaxObjects
    BY <1>4, ServerTyped, BasePeerAssumption DEF TypeOK, ConnectFails
  <2>2. PICK c \in Objects : c = Entry(h)
    BY <2>1 DEF Entry, Objects
  <2>3. clientReset(c, TRUE) /\ UNCHANGED <<stream, made>>
    BY <1>4, <2>2 DEF ConnectFails
  <2> QED BY <1>1, <2>3, ResetFrame
<1>5. CASE \/ \E h \in Hosts : Subscribe(h) \/ Unsubscribe(h)
           \/ \E k \in Connections : Break(k)
  <2>1. UNCHANGED <<client, stream, made>>
    BY <1>5 DEF Subscribe, Unsubscribe, Break
  <2>2. PICK c : c = NoClient
    OBVIOUS
  <2> QED BY <1>2, <2>1, FieldFrame
<1> QED BY <1>3, <1>4, <1>5 DEF Discovery

LEMMA WorkerFrame ==
  ASSUME ServerInv, StreamInv, FrameInv, NotReused, NEW w \in Workers, Worker(w)
  PROVE  FrameInv'
<1>0. /\ pc \in [Workers -> PcValues]
      /\ currentClientPtr = [v \in Workers |-> currentClientPtr[v]]
      /\ writeWaiting_ \in Seq(Objects)
  BY DEF ServerInv, QueueInv, AwakeInv, PcInv, QueueTypes
<1>1. CASE \/ Lock(w) \/ StartPoll(w) \/ TakeReady(w) \/ Wait(w) \/ EnterPoll(w)
           \/ PollTimesOut(w) \/ PollReturns(w) \/ LockPolled(w) \/ EndPoll(w)
  <2>1. UNCHANGED peerVars
    BY <1>1 DEF Lock, StartPoll, TakeReady, Wait, EnterPoll, PollTimesOut, PollReturns,
                LockPolled, EndPoll
  <2>2. HandsSame
    BY <1>0, <1>1, <2>1 DEF Lock, StartPoll, TakeReady, Wait, EnterPoll, PollTimesOut, PollReturns,
                      LockPolled, EndPoll, LoopHead, HandsSame, HandSame, Sending, peerVars
  <2>3. UNCHANGED <<client, stream, made>>
    BY <2>1 DEF peerVars
  <2>4. PICK c : c = NoClient
    OBVIOUS
  <2> QED BY <2>2, <2>3, FieldFrame
<1>2. CASE PollEvent(w)
  <2>1. PICK c : c = Head(writeWaiting_)
    OBVIOUS
  <2>2. \A v \in Workers : HandSame(v)
    BY <1>2 DEF PollEvent, PollError, PollOut, PollNothing, handleErrors, peerVars, HandSame
  <2>3. HandsSame
    BY <2>2 DEF HandsSame
  <2>4. CASE PollNothing(c)
    BY <2>3, <2>4, FieldFrame DEF PollNothing, peerVars
  <2>5. CASE PollOut(c)
    <3>1. UNCHANGED <<stream, made>>
      BY <2>5 DEF PollOut
    <3>2. \E b \in BOOLEAN : client' = [client EXCEPT ![c].readyToWrite = b]
      BY <2>5 DEF PollOut
    <3> QED BY <2>3, <3>1, <3>2, FieldFrame
  <2>6. CASE PollError(c)
    <3>1. c \in Objects
      <4>1. writefds_ # <<>> /\ Behind
        BY <1>2 DEF PollEvent, ServerInv, QueueInv
      <4>2. Len(writeWaiting_) # 0
        BY <4>1 DEF Behind
      <4> QED BY <1>0, <2>1, <4>2, HeadAndTail
    <3>2. UNCHANGED <<stream, made>>
      BY <2>6 DEF PollError, handleErrors
    <3>3. CASE clientReset(c, TRUE)
      BY <2>2, <3>1, <3>2, <3>3, ResetFrame
    <3>4. CASE UNCHANGED <<clients_, client, subscribers, files>>
      BY <2>3, <3>2, <3>4, FieldFrame
    <3> QED BY <2>6, <3>3, <3>4 DEF PollError, handleErrors
  <2> QED BY <1>2, <2>1, <2>4, <2>5, <2>6 DEF PollEvent
<1>3. CASE Requeue(w)
  <2>1. HandsSame
    BY <1>0, <1>3 DEF Requeue, LoopHead, HandsSame, HandSame, Sending
  <2>2. PICK c : c = currentClientPtr[w]
    OBVIOUS
  <2>3. UNCHANGED <<stream, made>>
    BY <1>3 DEF Requeue
  <2>4. client' = client \/ \E b \in BOOLEAN : client' = [client EXCEPT ![c].onWriteQueue = b]
    BY <1>3, <2>2 DEF Requeue, BackOnQueue
  <2> QED BY <2>1, <2>3, <2>4, FieldFrame
<1> QED BY <1>1, <1>2, <1>3, BeginFrame, SendFrame, EndFrame DEF Worker

LEMMA NextFrame ==
  ASSUME ServerInv, StreamInv, FrameInv, NotReused, ~staleThresholdValid,
         ~Reconnects \/ MaxConnections <= 1, [Next]_vars
  PROVE  FrameInv'
<1>0. pc \in [Workers -> PcValues]
  BY DEF ServerInv, QueueInv, AwakeInv, PcInv
<1>1. CASE InPut
  <2>1. HandsSame
    BY <1>0, <1>1 DEF InPut, PutOnQueue, Signal, Sleeping, HandsSame, HandSame, Sending
  <2>2. PICK c : c = Head(newPendingClients)
    OBVIOUS
  <2>3. client' = client \/ \E b \in BOOLEAN : client' = [client EXCEPT ![c].onWriteQueue = b]
    BY <1>1, <2>2 DEF InPut, PutOnQueue
  <2>4. UNCHANGED <<stream, made>>
    BY <1>1 DEF InPut
  <2> QED BY <2>1, <2>3, <2>4, FieldFrame
<1>2. CASE InLock \/ InUnlock \/ InEnds \/ Stop \/ Broadcast \/ Join \/ UNCHANGED vars
  <2>1. HandsSame
    BY <1>0, <1>2 DEF InLock, InUnlock, InEnds, Stop, Broadcast, Join, vars, serverVars,
                      peerVars, HandsSame, HandSame, Sending
  <2>2. UNCHANGED <<client, stream, made>>
    BY <1>2 DEF InLock, InUnlock, InEnds, Stop, Broadcast, Join, vars, peerVars
  <2>3. PICK c : c = NoClient
    OBVIOUS
  <2> QED BY <2>1, <2>2, FieldFrame
<1> QED BY <1>1, <1>2, DiscoveryFrame, InQueueFrame, WorkerFrame DEF Next

\* The bytes on a connection are whole frames and, at the end, a part of one, what the
\* receiver of a stream relies on (TcpPeer::receiveMsg), although a frame is sent in parts, by
\* several workers in turn, with new messages queued meanwhile (BasePeer.cc:338-420).  Pruning
\* takes the front away from a frame that is begun, and bytesWrittenSoFar survives the
\* connection: without the first, and with one connection to a client, frames stay whole.
THEOREM WholeFramesAlways ==
  ASSUME ~staleThresholdValid, ~Reconnects \/ MaxConnections <= 1
  PROVE  Spec => []WholeFrames
<1>1. Init => FrameInv
  BY InitFrame
<1>2. ServerInv /\ StreamInv /\ NotReused /\ FrameInv /\ [Next]_vars => FrameInv'
  BY NextFrame
<1>3. FrameInv => WholeFrames
  BY DEF FrameInv, WholeOK, WholeFrames
<1>4. Spec => []NotReused
  BY NotReusedAlways
<1>5. Spec /\ []NotReused => [](ServerInv /\ StreamInv)
  BY StreamAlways
<1> QED BY <1>1, <1>2, <1>3, <1>4, <1>5, PTL DEF Spec
====
