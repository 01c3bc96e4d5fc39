----------------------------- MODULE CommsServer -----------------------------
(***************************************************************************)
(* The threads of the SimpleComms server (Server.cc): the input thread     *)
(* queues every message with the clients that subscribe to it, the output  *)
(* workers share two queues of clients, those ready for a write and those  *)
(* to poll until they are, and the discovery thread connects and           *)
(* subscribes the remote peers meanwhile.  Both queues are protected by    *)
(* writeQueuesMutex_; the worker that polls holds writeWaitingMutex_.      *)
(***************************************************************************)
EXTENDS BasePeer

CONSTANT Stops    \* whether the operator stops the server

VARIABLES
  running_,           \* as the server's; "crashed" when the program has died
  writeReady_, writeWaiting_,
  writeQueuesMutex_, writeWaitingMutex_,   \* the thread that holds it, or Free
  writefds_,          \* what the poller polls: a descriptor, what is behind it, revents
  newWaiting_,        \* local to doPoll: those that stay
  inToOutPipe_,       \* the wake-up bytes in the pipe
  inThread,           \* where the input thread is
  newPendingClients,  \* local to the input thread
  stopping,           \* how far the thread that calls stop() is
  pc,                 \* where each worker is
  currentClientPtr    \* local to each worker

queueVars  == <<writeReady_, writeWaiting_, writefds_, newWaiting_, inToOutPipe_>>
serverVars == <<running_, stopping, queueVars, writeQueuesMutex_,
                writeWaitingMutex_, inThread, newPendingClients, pc,
                currentClientPtr>>
vars == <<peerVars, serverVars>>

Free == "free"
Input == "input thread"
NoClient == <<>>

ASSUME WorkersAssumption == Free \notin Workers /\ Input \notin Workers

\* After Server::start: no message yet, every worker at its first lock.
Init ==
  /\ PeerInit
  /\ running_ = "running" /\ stopping = "no"
  /\ writeReady_ = <<>> /\ writeWaiting_ = <<>>
  /\ writeQueuesMutex_ = Free /\ writeWaitingMutex_ = Free
  /\ writefds_ = <<>> /\ newWaiting_ = <<>> /\ inToOutPipe_ = 0
  /\ inThread = "read" /\ newPendingClients = <<>>
  /\ pc = [w \in Workers |-> "lock"]
  /\ currentClientPtr = [w \in Workers |-> NoClient]

-----------------------------------------------------------------------------
(* The discovery thread, and the other side of the connections.            *)

Discovery ==
  /\ \/ \E h \in Hosts : Connect(h) \/ ConnectFails(h) \/ Subscribe(h) \/ Unsubscribe(h)
     \/ \E k \in Connections : Break(k)
  /\ UNCHANGED serverVars

-----------------------------------------------------------------------------
(* The input thread.                                                       *)

\* A message is received and queued; any of those in hand may be old by now.
InQueue ==
  /\ inThread = "read" /\ received < MaxMessages
  /\ \E old \in SUBSET (1 .. received + 1) :
       /\ queueMsg(received + 1, old)
       /\ newPendingClients' \in Listings(NewPending(received + 1, old))
  /\ inThread' = "dispatch"
  /\ UNCHANGED <<running_, stopping, queueVars, writeQueuesMutex_, writeWaitingMutex_, pc,
                 currentClientPtr>>

\* The mutex for the clients in newPendingClients.
InLock ==
  /\ inThread = "dispatch" /\ writeQueuesMutex_ = Free
  /\ writeQueuesMutex_' = Input
  /\ inThread' = "put"
  /\ UNCHANGED <<peerVars, running_, stopping, queueVars, writeWaitingMutex_,
                 newPendingClients, pc, currentClientPtr>>

Sleeping == {w \in Workers : pc[w] = "wait"}

\* The sleepers are not told.
Signal_None == UNCHANGED pc

\* pthread_cond_signal wakes one of the sleepers.
Signal ==
  \/ Sleeping = {} /\ UNCHANGED pc
  \/ \E w \in Sleeping : pc' = [pc EXCEPT ![w] = "lock"]

IsReady(c)  == client[c].readyToWrite

\* A client that is on a queue already is put on one again.
OffQueue_Any(c) == TRUE

OffQueue(c) == ~client[c].onWriteQueue

PutOnQueue(c) ==
  /\ client' = [client EXCEPT ![c].onWriteQueue = TRUE]
  /\ \/ /\ IsReady(c)
        /\ writeReady_' = Append(writeReady_, c) /\ UNCHANGED writeWaiting_
     \/ /\ ~IsReady(c)
        /\ writeWaiting_' = Append(writeWaiting_, c) /\ UNCHANGED writeReady_
  /\ Signal

\* The next of newPendingClients.
InPut ==
  /\ inThread = "put" /\ newPendingClients # <<>>
  /\ LET c == Head(newPendingClients)
     IN  \/ OffQueue(c) /\ PutOnQueue(c)
         \/ ~OffQueue(c) /\ UNCHANGED <<client, writeReady_, writeWaiting_, pc>>
  /\ newPendingClients' = Tail(newPendingClients)
  /\ UNCHANGED <<running_, stopping, writefds_, newWaiting_, inToOutPipe_, inThread,
                 writeQueuesMutex_, writeWaitingMutex_, currentClientPtr, clients_, made,
                 subscribers, files, stream, broken, received, writing>>

\* All are on a queue: a worker that is in doPoll is woken if it has to poll more.
InUnlock ==
  /\ inThread = "put" /\ newPendingClients = <<>>
  /\ inToOutPipe_' = IF writeWaiting_ # <<>> /\ writeWaitingMutex_ # Free
                     THEN inToOutPipe_ + 1 ELSE inToOutPipe_
  /\ writeQueuesMutex_' = Free
  /\ inThread' = "read"
  /\ UNCHANGED <<peerVars, running_, stopping, writeReady_, writeWaiting_, writefds_,
                 newWaiting_, writeWaitingMutex_, newPendingClients, pc, currentClientPtr>>

InDispatch == InLock \/ InPut \/ InUnlock

InEnds ==
  /\ inThread = "read" /\ running_ = "stopping"
  /\ inThread' = "done"
  /\ UNCHANGED <<peerVars, running_, stopping, queueVars, writeQueuesMutex_,
                 writeWaitingMutex_, newPendingClients, pc, currentClientPtr>>

-----------------------------------------------------------------------------
(* The output workers.                                                     *)

\* The head of the loop, with the mutex: go on, or unlock and return.
LoopHead(w) ==
  IF running_ = "running"
  THEN pc' = [pc EXCEPT ![w] = "loop"] /\ writeQueuesMutex_' = w
  ELSE pc' = [pc EXCEPT ![w] = "done"] /\ writeQueuesMutex_' = Free

Lock(w) ==
  /\ pc[w] = "lock" /\ writeQueuesMutex_ = Free
  /\ LoopHead(w)
  /\ UNCHANGED <<peerVars, running_, stopping, queueVars, writeWaitingMutex_, inThread,
                 newPendingClients, currentClientPtr>>

CanPoll == writeWaiting_ # <<>> /\ writeWaitingMutex_ = Free

\* doPoll up to the unlocking: the descriptors of this moment.
StartPoll(w) ==
  /\ pc[w] = "loop" /\ CanPoll
  /\ writefds_' = [i \in 1 .. Len(writeWaiting_) |->
                     [fd |-> client[writeWaiting_[i]].fd, to |-> 0, revents |-> "none"]]
  /\ writeWaitingMutex_' = w /\ writeQueuesMutex_' = Free
  /\ pc' = [pc EXCEPT ![w] = "enter"]
  /\ UNCHANGED <<peerVars, running_, stopping, writeReady_, writeWaiting_, newWaiting_,
                 inToOutPipe_, inThread, newPendingClients, currentClientPtr>>

TakeReady(w) ==
  /\ pc[w] = "loop" /\ ~CanPoll /\ writeReady_ # <<>>
  /\ currentClientPtr' = [currentClientPtr EXCEPT ![w] = Head(writeReady_)]
  /\ writeReady_' = Tail(writeReady_)
  /\ writeQueuesMutex_' = Free
  /\ pc' = [pc EXCEPT ![w] = "write"]
  /\ UNCHANGED <<peerVars, running_, stopping, writeWaiting_, writefds_, newWaiting_,
                 inToOutPipe_, writeWaitingMutex_, inThread, newPendingClients>>

Wait(w) ==
  /\ pc[w] = "loop" /\ ~CanPoll /\ writeReady_ = <<>>
  /\ writeQueuesMutex_' = Free
  /\ pc' = [pc EXCEPT ![w] = "wait"]
  /\ UNCHANGED <<peerVars, running_, stopping, queueVars, writeWaitingMutex_, inThread,
                 newPendingClients, currentClientPtr>>

\* poll() stays with the connections it finds behind the descriptors; one that
\* is not open is an error, and -1 is ignored.
EnterPoll(w) ==
  /\ pc[w] = "enter"
  /\ writefds_' = [i \in DOMAIN writefds_ |->
                     LET fd == writefds_[i].fd
                         to == IF fd = Closed THEN 0 ELSE files[fd]
                     IN  [fd |-> fd, to |-> to,
                          revents |-> IF fd # Closed /\ to = 0 THEN "error" ELSE "none"]]
  /\ pc' = [pc EXCEPT ![w] = "poll"]
  /\ UNCHANGED <<peerVars, running_, stopping, writeReady_, writeWaiting_, newWaiting_,
                 inToOutPipe_, writeQueuesMutex_, writeWaitingMutex_, inThread,
                 newPendingClients, currentClientPtr>>

InError(i)  == writefds_[i].revents = "error" \/ writefds_[i].to \in broken
CanWrite(i) == writefds_[i].to # 0 /\ ~InError(i)
AnyError    == \E i \in DOMAIN writefds_ : InError(i)

\* A second goes by: no socket is in error and nothing is in the pipe.
PollTimesOut(w) ==
  /\ pc[w] = "poll" /\ inToOutPipe_ = 0 /\ ~AnyError
  /\ writefds_' = <<>>
  /\ pc' = [pc EXCEPT ![w] = "polled"]
  /\ UNCHANGED <<peerVars, running_, stopping, writeReady_, writeWaiting_, newWaiting_,
                 inToOutPipe_, writeQueuesMutex_, writeWaitingMutex_, inThread,
                 newPendingClients, currentClientPtr>>

\* poll() tells the sockets in error, some that can be written, or that there
\* is a byte in the pipe, which is read.
PollReturns(w) ==
  /\ pc[w] = "poll"
  /\ \E out \in SUBSET {i \in DOMAIN writefds_ : CanWrite(i)} :
       /\ out # {} \/ inToOutPipe_ > 0 \/ AnyError
       /\ writefds_' = [i \in DOMAIN writefds_ |->
                          [fd |-> Closed, to |-> 0,
                           revents |-> CASE InError(i) -> "error" [] i \in out -> "out"
                                         [] OTHER -> "none"]]
  /\ inToOutPipe_' = IF inToOutPipe_ > 0 THEN inToOutPipe_ - 1 ELSE 0
  /\ pc' = [pc EXCEPT ![w] = "polled"]
  /\ UNCHANGED <<peerVars, running_, stopping, writeReady_, writeWaiting_, newWaiting_,
                 writeQueuesMutex_, writeWaitingMutex_, inThread, newPendingClients,
                 currentClientPtr>>

\* Under writeQueuesMutex_ again.
LockPolled(w) ==
  /\ pc[w] = "polled" /\ writeQueuesMutex_ = Free
  /\ \/ /\ writefds_ = <<>>
        /\ writeWaitingMutex_' = Free
        /\ LoopHead(w)
     \/ /\ writefds_ # <<>>
        /\ writeQueuesMutex_' = w
        /\ pc' = [pc EXCEPT ![w] = "events"]
        /\ UNCHANGED writeWaitingMutex_
  /\ UNCHANGED <<peerVars, running_, stopping, queueVars, inThread, newPendingClients,
                 currentClientPtr>>

\* revents has POLLERR, POLLHUP or POLLNVAL: the client leaves the queue.
PollError(c) ==
  /\ handleErrors(c)
  /\ UNCHANGED <<newWaiting_, writeReady_>>

PollOut(c) ==
  /\ client' = [client EXCEPT ![c].readyToWrite = TRUE]
  /\ writeReady_' = Append(writeReady_, c)
  /\ UNCHANGED <<newWaiting_, clients_, made, subscribers, files, stream, broken,
                 received, writing>>

PollNothing(c) ==
  /\ newWaiting_' = Append(newWaiting_, c)
  /\ UNCHANGED <<peerVars, writeReady_>>

\* The outcome for the first descriptor not looked at yet.
PollEvent(w) ==
  /\ pc[w] = "events" /\ writefds_ # <<>>
  /\ LET c == Head(writeWaiting_)
         revents == Head(writefds_).revents
     IN  \/ revents = "error" /\ PollError(c)
         \/ revents = "out"   /\ PollOut(c)
         \/ revents = "none"  /\ PollNothing(c)
  /\ writefds_' = Tail(writefds_) /\ writeWaiting_' = Tail(writeWaiting_)
  /\ UNCHANGED <<running_, stopping, inToOutPipe_, writeQueuesMutex_, writeWaitingMutex_,
                 inThread, newPendingClients, pc, currentClientPtr>>

\* The right to poll is not given back.
EndPoll_KeepsMutex(w) ==
  /\ pc[w] = "events" /\ writefds_ = <<>>
  /\ writeWaiting_' = writeWaiting_ \o newWaiting_
  /\ newWaiting_' = <<>>
  /\ LoopHead(w)
  /\ UNCHANGED <<peerVars, running_, stopping, writeReady_, writefds_, inToOutPipe_, inThread,
                 writeWaitingMutex_, newPendingClients, currentClientPtr>>

EndPoll(w) ==
  /\ pc[w] = "events" /\ writefds_ = <<>>
  /\ writeWaiting_' = writeWaiting_ \o newWaiting_
  /\ newWaiting_' = <<>>
  /\ writeWaitingMutex_' = Free
  /\ LoopHead(w)
  /\ UNCHANGED <<peerVars, running_, stopping, writeReady_, writefds_, inToOutPipe_, inThread,
                 newPendingClients, currentClientPtr>>

\* The three parts of doWrites.
Begin(w) ==
  LET c == currentClientPtr[w]
  IN  /\ pc[w] = "write"
      /\ \/ /\ NothingToWrite(c)
            /\ pc' = [pc EXCEPT ![w] = "requeue"]
            /\ UNCHANGED <<peerVars, running_>>
         \/ /\ FrontOfNothing(c)
            /\ running_' = "crashed"
            /\ UNCHANGED <<peerVars, pc>>
         \/ /\ ChooseMessage(w, c)
            /\ pc' = [pc EXCEPT ![w] = "send"]
            /\ UNCHANGED running_
      /\ UNCHANGED <<stopping, queueVars, writeQueuesMutex_, writeWaitingMutex_, inThread,
                     newPendingClients, currentClientPtr>>

Send(w) ==
  /\ pc[w] = "send"
  /\ send(w)
  /\ pc' = [pc EXCEPT ![w] = "sent"]
  /\ UNCHANGED <<running_, stopping, queueVars, writeQueuesMutex_, writeWaitingMutex_,
                 inThread, newPendingClients, currentClientPtr>>

End(w) ==
  /\ pc[w] = "sent"
  /\ recordWrite(w, currentClientPtr[w])
  /\ pc' = [pc EXCEPT ![w] = "requeue"]
  /\ UNCHANGED <<running_, stopping, queueVars, writeQueuesMutex_, writeWaitingMutex_,
                 inThread, newPendingClients, currentClientPtr>>

\* A client whose socket is full is let go.
BackOnQueue_LetGo(w) ==
  LET c == currentClientPtr[w]
  IN  \/ /\ client[c].dataPending /\ IsReady(c)
         /\ writeReady_' = Append(writeReady_, c)
         /\ UNCHANGED <<client, writeWaiting_>>
      \/ /\ ~client[c].dataPending \/ ~IsReady(c)
         /\ client' = [client EXCEPT ![c].onWriteQueue = FALSE]
         /\ UNCHANGED <<writeReady_, writeWaiting_>>

\* A client that has to wait is the first to be polled.
BackOnQueue_First(w) ==
  LET c == currentClientPtr[w]
  IN  \/ /\ client[c].dataPending /\ IsReady(c)
         /\ writeReady_' = Append(writeReady_, c)
         /\ UNCHANGED <<client, writeWaiting_>>
      \/ /\ client[c].dataPending /\ ~IsReady(c)
         /\ writeWaiting_' = <<c>> \o writeWaiting_
         /\ UNCHANGED <<client, writeReady_>>
      \/ /\ ~client[c].dataPending
         /\ client' = [client EXCEPT ![c].onWriteQueue = FALSE]
         /\ UNCHANGED <<writeReady_, writeWaiting_>>

\* Back under writeQueuesMutex_: the client goes on a queue again or off.
BackOnQueue(w) ==
  LET c == currentClientPtr[w]
  IN  \/ /\ client[c].dataPending /\ IsReady(c)
         /\ writeReady_' = Append(writeReady_, c)
         /\ UNCHANGED <<client, writeWaiting_>>
      \/ /\ client[c].dataPending /\ ~IsReady(c)
         /\ writeWaiting_' = Append(writeWaiting_, c)
         /\ UNCHANGED <<client, writeReady_>>
      \/ /\ ~client[c].dataPending
         /\ client' = [client EXCEPT ![c].onWriteQueue = FALSE]
         /\ UNCHANGED <<writeReady_, writeWaiting_>>

Requeue(w) ==
  /\ pc[w] = "requeue" /\ writeQueuesMutex_ = Free
  /\ BackOnQueue(w)
  /\ currentClientPtr' = [currentClientPtr EXCEPT ![w] = NoClient]
  /\ LoopHead(w)
  /\ UNCHANGED <<running_, stopping, writefds_, newWaiting_, inToOutPipe_, writeWaitingMutex_,
                 inThread, newPendingClients, clients_, made, subscribers, files,
                 stream, broken, received, writing>>

Worker(w) ==
  \/ Lock(w) \/ StartPoll(w) \/ TakeReady(w) \/ Wait(w)
  \/ EnterPoll(w) \/ PollTimesOut(w) \/ PollReturns(w) \/ LockPolled(w)
  \/ PollEvent(w) \/ EndPoll(w)
  \/ Begin(w) \/ Send(w) \/ End(w) \/ Requeue(w)

-----------------------------------------------------------------------------
(* stop(): running_ is cleared, then the sleepers are woken, without the   *)
(* mutex, and then every thread is joined.                                 *)

Stop ==
  /\ Stops /\ stopping = "no"
  /\ running_' = "stopping" /\ stopping' = "broadcast"
  /\ UNCHANGED <<peerVars, queueVars, writeQueuesMutex_, writeWaitingMutex_,
                 inThread, newPendingClients, pc, currentClientPtr>>

Broadcast ==
  /\ stopping = "broadcast"
  /\ pc' = [w \in Workers |-> IF pc[w] = "wait" THEN "lock" ELSE pc[w]]
  /\ stopping' = "join"
  /\ UNCHANGED <<peerVars, queueVars, running_, writeQueuesMutex_,
                 writeWaitingMutex_, inThread, newPendingClients, currentClientPtr>>

Join ==
  /\ stopping = "join"
  /\ inThread = "done" /\ \A w \in Workers : pc[w] = "done"
  /\ stopping' = "joined"
  /\ UNCHANGED <<peerVars, queueVars, running_, writeQueuesMutex_,
                 writeWaitingMutex_, inThread, newPendingClients, pc, currentClientPtr>>

-----------------------------------------------------------------------------
Next ==
  /\ running_ # "crashed"
  /\ \/ Discovery
     \/ InQueue \/ InLock \/ InPut \/ InUnlock \/ InEnds
     \/ \E w \in Workers : Worker(w)
     \/ Stop \/ Broadcast \/ Join

Spec == Init /\ [][Next]_vars

(* The mutexes are granted to whoever asks for them again and again, a     *)
(* thread that can go on does, and a peer that stays connected keeps       *)
(* reading: its socket becomes writable and takes a whole message in the   *)
(* end.                                                                    *)
Writable(c) ==
  \E w \in Workers, i \in DOMAIN writefds_ :
    writeWaiting_[i] = c /\ PollReturns(w) /\ writefds_'[i].revents = "out"
Delivers(c) ==
  \E w \in Workers :
    currentClientPtr[w] = c /\ Send(w) /\ writing'[w].status = "full"

FairServer ==
  /\ SF_vars(InDispatch)
  /\ \A w \in Workers : SF_vars(Worker(w))
  /\ \A c \in Objects : SF_vars(Writable(c)) /\ SF_vars(Delivers(c))
FairSpec == Spec /\ FairServer

-----------------------------------------------------------------------------
(* What the server promises.                                               *)

ClientType ==
  [fd : Fds \union {Closed}, fdStamp : Connections \union {0},
   readyToWrite : BOOLEAN, outBox : Seq(Messages),
   currentOutboundMessage : Messages \union {NoMsg},
   bytesWrittenSoFar : 0 .. FrameLength - 1,
   dataPending : BOOLEAN, onWriteQueue : BOOLEAN]

WriteType ==
  [fd : Fds \union {Closed}, fdStamp : Connections \union {0},
   msg : Messages \union {NoMsg}, sent : 0 .. FrameLength,
   offset : 0 .. FrameLength - 1,
   status : {"none", "again", "error", "partial", "full"}]

\* The types of the state, and that only the holder of a mutex is where it is
\* held: Server.cc takes writeQueuesMutex_ around the loop and writeWaitingMutex_
\* around doPoll.
TypeOK ==
  /\ clients_ \in [Hosts -> 0 .. MaxObjects] /\ made \in [Hosts -> 0 .. MaxObjects]
  /\ client \in [Objects -> ClientType] /\ subscribers \subseteq Objects
  /\ files \in [Fds -> Connections \union {0}]
  /\ Len(stream) <= MaxConnections /\ broken \subseteq 1 .. Len(stream)
  /\ received \in 0 .. MaxMessages /\ writing \in [Workers -> WriteType]
  /\ running_ \in {"running", "stopping", "crashed"}
  /\ writeReady_ \in Seq(Objects) /\ writeWaiting_ \in Seq(Objects)
  /\ inToOutPipe_ \in 0 .. MaxMessages
  /\ inThread \in {"read", "dispatch", "put", "done"} /\ newPendingClients \in Seq(Objects)
  /\ inThread = "put" <=> writeQueuesMutex_ = Input
  /\ writefds_ \in Seq([fd : Fds \union {Closed}, to : Connections \union {0},
                         revents : {"none", "out", "error"}])
  /\ \A w \in Workers :
       /\ writeQueuesMutex_ = w <=> pc[w] \in {"loop", "events"}
       /\ writeWaitingMutex_ = w <=> pc[w] \in {"enter", "poll", "polled", "events"}
       /\ currentClientPtr[w] # NoClient <=> pc[w] \in {"write", "send", "sent", "requeue"}

OnQueues == ToSet(writeReady_) \union ToSet(writeWaiting_) \union ToSet(newWaiting_)
InHand   == {currentClientPtr[w] : w \in Workers} \ {NoClient}

\* Two workers never write to one client: a client is at most once on the write
\* queues or in the hands of a worker, and it is marked onWriteQueue when it is
\* (Server.cc:258, 384), whatever connects, fails or is queued meanwhile.
OnceOnQueues ==
  /\ IsInjective(writeReady_) /\ IsInjective(writeWaiting_) /\ IsInjective(newWaiting_)
  /\ ToSet(writeReady_) \cap ToSet(writeWaiting_) = {}
  /\ ToSet(newWaiting_) \cap (ToSet(writeReady_) \union ToSet(writeWaiting_)) = {}
  /\ InHand \cap OnQueues = {}
  /\ \A v, w \in Workers :
       currentClientPtr[v] = currentClientPtr[w] => v = w \/ currentClientPtr[w] = NoClient
  /\ \A c \in InHand \union OnQueues : client[c].onWriteQueue

\* No wake-up is lost between queueMsg, which looks at dataPending under one
\* mutex, and the worker that takes the client off the queue under another
\* (Server.cc:368-385): a connected client with data is marked onWriteQueue or
\* among those the input thread is about to put there.  That what is marked is on a
\* queue is another matter (NeverStranded).
NoLostWakeup ==
  \A c \in Objects :
    Connected(c) /\ client[c].dataPending =>
      client[c].onWriteQueue \/ c \in ToSet(newPendingClients)

\* The workers do not all sleep while there is a client to write or to poll
\* (Server.cc:272, 347-390).
NobodySleepsOnWork ==
  writeReady_ # <<>> \/ writeWaiting_ # <<>> => \E w \in Workers : pc[w] # "wait"

\* doPoll matches revents to clients by their position in writeWaiting_
\* (Server.cc:438-441), which other threads change while it is in poll(): they
\* leave the clients that are polled where they are.
PollKeepsPlaces ==
  [][\A w \in Workers, i \in DOMAIN writefds_ :
       pc[w] \in {"enter", "poll", "polled"} =>
         i \in DOMAIN writeWaiting_' /\ writeWaiting_'[i] = writeWaiting_[i]]_vars

\* An entry of clients_ is connected, so that isConnectedTo and the offers that
\* discovery ignores (UdpDiscovery.cc:570) are about a socket that exists.
EntryIsConnected == \A h \in Hosts : clients_[h] # 0 => Connected(Entry(h))

\* A message is sent at most once on one connection.
EachOnce ==
  \A k \in DOMAIN stream :
    \A i, j \in DOMAIN stream[k].bytes :
      stream[k].bytes[i] = stream[k].bytes[j] => i = j

\* The bytes on a connection are those of the messages in the order they were
\* received, although the outBox is pruned while one of them is being sent.
InOrder ==
  \A k \in DOMAIN stream :
    \A i, j \in DOMAIN stream[k].bytes :
      i < j => stream[k].bytes[i][1] <= stream[k].bytes[j][1]

\* The bytes on a connection are whole frames and, at the end, a part of one:
\* what the receiver's TcpPeer::receiveMsg relies on.
WholeFrames ==
  \A k \in DOMAIN stream :
    LET s == stream[k].bytes IN
    \A i \in DOMAIN s :
      /\ s[i][2] = ((i - 1) % FrameLength) + 1
      /\ i > 1 /\ s[i][2] > 1 => s[i - 1][1] = s[i][1]

\* Messages delivered on the connections of a client, at the place of their last
\* byte, and those still to be.
DeliveredOn(k) ==
  {[at |-> <<k, i>>, msg |-> stream[k].bytes[i][1]] :
     i \in {j \in DOMAIN stream[k].bytes : stream[k].bytes[j][2] = FrameLength}}
Delivered(c) ==
  UNION {DeliveredOn(k) : k \in {j \in DOMAIN stream : stream[j].client = c}}
Outbound(c) ==
  LET r == client[c]
  IN  {m \in ToSet(r.outBox) \union {r.currentOutboundMessage} :
         m # NoMsg /\ \A d \in Delivered(c) : d.msg # m}

\* To a host that connects once the server is a relay: what was accepted for
\* a client is delivered once and in order, and all of it until the connection is
\* closed, unless there is a threshold for old messages.
Relay == INSTANCE MessageRelay WITH
  Clients <- Objects, Lossy <- staleThresholdValid, accepted <- received,
  outbound <- [c \in Objects |-> Outbound(c)],
  delivered <- [c \in Objects |-> Delivered(c)]
ImplementsRelay == Relay!Spec

\* A message leaves the outBox of a client when all of it has been sent on this
\* connection, when it is old, or with the connection, although what is at the
\* front changes while a worker is in send() (BasePeer.cc:184, 408).
DropsOnlyStale ==
  [][\A c \in Objects, m \in Messages :
       m \in ToSet(client[c].outBox) /\ m \notin ToSet(client'[c].outBox) =>
         \/ client'[c].fdStamp # client[c].fdStamp
         \/ <<m, FrameLength>> \in ToSet(stream[client[c].fdStamp].bytes)
         \/ staleThresholdValid /\ received' # received]_vars

-----------------------------------------------------------------------------
(* What the sources say and the program does not do.                       *)

\* A connected client that has data and is marked as queued is on a queue.
NeverStranded ==
  \A c \in Objects :
    Connected(c) /\ client[c].dataPending /\ client[c].onWriteQueue =>
      c \in InHand \union OnQueues

\* Pruning old messages, a safety mechanism, does not kill the server.
NeverCrashes == running_ # "crashed"

=============================================================================
