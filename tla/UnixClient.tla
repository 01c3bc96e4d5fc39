----------------------------- MODULE UnixClient -----------------------------
(***************************************************************************)
(* The client library of SimpleComms (UnixClient.cc) and what the local    *)
(* server keeps for one client (UnixPeer.cc, BasePeer.cc).  The program's  *)
(* own thread calls connect, disconnect, subscribe, unsubscribe and        *)
(* receiveMsg; the receiver thread reads the socket bound at clientPath_,  *)
(* assembles the fragments and answers to the echoes of the server, which  *)
(* takes the requests from its own socket one after the other.             *)
(*                                                                         *)
(* A step is a section under fdMutex_ or channelsMutex_, or what lies      *)
(* between two.  fd_ is the number of the attempt, or 0; serverfd_ is open *)
(* with it and until the Disconnect has been sent.  It is a datagram       *)
(* socket that blocks: a request waits, with the mutexes its thread holds, *)
(* while the server's socket is full.  The key of a message is unique, its *)
(* fragments come in any order, at most once, some never and some damaged. *)
(* A definition X_Word is X with a plausible mistake, for mutation.        *)
(***************************************************************************)
EXTENDS Naturals, Sequences, FiniteSets, SequencesExt

CONSTANTS
  Channels,
  totalPages,       \* the fragments of each message of a channel
  maxReceiveDepth,  \* of every channel; 0 is no limit
  QueueLength,      \* the requests that the server's socket holds
  MaxMessages,      \* bound: the messages published on a channel
  MaxConnects,      \* bound: the calls of connect
  MaxCalls,         \* bound: the calls of subscribe and unsubscribe
  MaxWork,          \* bound: the calls of connect, subscribe and unsubscribe, and the
                    \* fragments published, together
  MaxFailures       \* bound: the system calls that fail, and the damaged messages

ASSUME UnixClientAssumption ==
  /\ IsFiniteSet(Channels) /\ totalPages \in [1 .. MaxMessages -> Nat \ {0}] /\ maxReceiveDepth \in Nat
  /\ QueueLength \in Nat \ {0}
  /\ MaxMessages \in Nat /\ MaxConnects \in Nat /\ MaxCalls \in Nat
  /\ MaxWork \in Nat /\ MaxFailures \in Nat

VARIABLES
  app,                \* where the program's thread is; "idle" between two calls
  request,            \* what it is sending to the server
  asking,             \* the channels connect has still to subscribe to
  unsent,             \* those whose last request on the connection was not sent
  isConnected,        \* what connect returned, until the next disconnect
  fd_,                \* the socket, or 0
  queue,              \* what the socket holds
  threadRunning_,
  receiver,           \* where the receiver thread is, and the message in hand
  connectionAcknowledgedCondition, messagesAvailableCondition,
  channels_,          \* those subscribed to: acknowledged, completeBuffers
  fragmentBuffers_,   \* per message, the pages received
  fragmentBuffersLRU_,
  offList,            \* the buffers whose lruEntry has been erased
  inbox,              \* requests the server has not taken yet
  client,             \* the server's entry: its socket, or 0, and its outBox
  subscribers,        \* the channels the server has the client subscribed to
  published,          \* the fragments sent to the client
  attempts, calls, failures,  \* what the bounds count
  timedOut            \* whether a connect ended without the echo

conditions == <<connectionAcknowledgedCondition, messagesAvailableCondition>>
requests   == <<request, asking, unsent>>
buffers    == <<fragmentBuffers_, fragmentBuffersLRU_, offList>>
server     == <<client, subscribers, published>>
bounds     == <<attempts, calls, failures, timedOut>>
vars == <<app, requests, isConnected, fd_, queue, threadRunning_, receiver, conditions, channels_,
          buffers, inbox, server, bounds>>

Messages == Channels \X (1 .. MaxMessages)
Pages(m) == 1 .. totalPages[m[2]]

Request(type, c) == [type |-> type, channel |-> c, msg |-> <<>>, page |-> 0]
Notice(type)     == Request(type, "control")
NoRequest        == Notice("none")
Fragment(m, p)   == [type |-> "Fragment", channel |-> m[1], msg |-> m, page |-> p]

NoThread  == [pc |-> "none", msg |-> <<>>]
At(pc)    == [pc |-> pc, msg |-> <<>>]
NotKnown  == [to |-> 0, outBox |-> <<>>]

Init ==
  /\ app = "idle" /\ request = NoRequest /\ asking = {} /\ unsent = {}
  /\ isConnected = FALSE /\ fd_ = 0 /\ queue = <<>>
  /\ threadRunning_ = 0 /\ receiver = NoThread
  /\ connectionAcknowledgedCondition = FALSE /\ messagesAvailableCondition = FALSE
  /\ channels_ = <<>>
  /\ fragmentBuffers_ = [m \in Messages |-> <<>>] /\ fragmentBuffersLRU_ = <<>>
  /\ offList = {} /\ inbox = <<>> /\ client = NotKnown /\ subscribers = {} /\ published = {}
  /\ attempts = 0 /\ calls = 0 /\ failures = 0 /\ timedOut = FALSE

MoreWork == attempts + calls + Cardinality(published) < MaxWork

Fails == failures < MaxFailures /\ failures' = failures + 1

-----------------------------------------------------------------------------
(* sendMsg: sendmsg waits for room in the server's socket, or fails.       *)

Room == Len(inbox) < QueueLength

\* serverfd_ is open.
serverfd_ == fd_ # 0 \/ receiver.pc = "closing"

\* A message whose status nobody looks at.
Tell(msg) ==
  \/ Room /\ inbox' = Append(inbox, msg) /\ UNCHANGED failures
  \/ Fails /\ UNCHANGED inbox

\* The program's thread has a request to send.  When serverfd_ is closed by then it
\* fails at once; when it is closed later it may have been looked up already.
Ask(r) ==
  \/ serverfd_ /\ request' = r /\ UNCHANGED unsent
  \/ ~serverfd_ /\ unsent' = unsent \union {r.channel} /\ UNCHANGED request

\* The notice waits for its echo; a call returns; connect goes on.
Sent ==
  /\ request # NoRequest /\ Room
  /\ inbox' = Append(inbox, request) /\ request' = NoRequest
  /\ unsent' = unsent \ {request.channel}
  /\ app' = CASE app = "notice" -> "wait" [] app = "call" -> "idle" [] OTHER -> app
  /\ UNCHANGED <<asking, isConnected, fd_, queue, threadRunning_, receiver, conditions,
                 channels_, buffers, server, bounds>>

\* connect, subscribe and unsubscribe return the error, and leave the rest as it is:
\* the sockets open, or the channel in, or out of, channels_; while connect
\* subscribes again nobody looks at it.
NotSent ==
  /\ request # NoRequest
  /\ \/ ~serverfd_ /\ UNCHANGED failures
     \/ Fails
  /\ request' = NoRequest
  /\ unsent' = unsent \union ({request.channel} \intersect Channels)
  /\ app' = IF app = "resubscribe" THEN app ELSE "idle"
  /\ UNCHANGED <<asking, isConnected, fd_, queue, threadRunning_, receiver, conditions,
                 channels_, buffers, inbox, server, attempts, calls, timedOut>>

-----------------------------------------------------------------------------
(* closeConnection.                                                        *)

\* The descriptors are closed but fd_ is left as it is.
CloseFds_KeepsFd == fd_' = fd_ /\ queue' = <<>>

\* What the socket still holds is lost.
CloseFds == fd_' = 0 /\ queue' = <<>>

\* The acknowledgements of the last connection are kept.
Unacknowledged_Kept == channels_

Unacknowledged ==
  [c \in DOMAIN channels_ |-> [channels_[c] EXCEPT !.acknowledged = FALSE]]

disconnect ==
  /\ app = "idle" /\ (fd_ # 0 \/ threadRunning_ > 0)
  /\ app' = "lock"
  /\ UNCHANGED <<requests, isConnected, fd_, queue, threadRunning_, receiver, channels_,
                 buffers, inbox, server, conditions, bounds>>

\* Under fdMutex_, when the receiver does not hold it.
CloseLocks ==
  /\ app = "lock" /\ receiver.pc \notin {"report", "closing"}
  /\ CloseFds
  /\ app' = IF fd_ # 0 THEN "closing" ELSE "close"
  /\ UNCHANGED <<requests, isConnected, threadRunning_, receiver, channels_, buffers,
                 inbox, server, conditions, bounds>>

\* The server is told, still under fdMutex_.
CloseTells ==
  /\ app = "closing" /\ Tell(Notice("Disconnect"))
  /\ app' = "close"
  /\ UNCHANGED <<requests, isConnected, fd_, queue, threadRunning_, receiver, channels_,
                 buffers, server, attempts, calls, timedOut, conditions>>

\* pthread_join, if there is a thread, and the acknowledgements are void.
CloseJoins ==
  /\ app = "close" /\ (threadRunning_ > 0 => receiver.pc = "done")
  /\ threadRunning_' = 0 /\ receiver' = NoThread
  /\ channels_' = Unacknowledged
  /\ app' = "idle" /\ isConnected' = FALSE
  /\ UNCHANGED <<requests, fd_, queue, inbox, buffers, server, conditions, bounds>>

-----------------------------------------------------------------------------
(* connect.                                                                *)

\* A receiver that has ended by itself is forgotten.
ToJoin_Never == FALSE

\* There is a receiver that has ended by itself.
ToJoin == threadRunning_ > 0

\* Not connected yet; fdMutex_ is free.
ConnectBegins ==
  /\ app = "idle" /\ fd_ = 0 /\ receiver.pc # "closing" /\ attempts < MaxConnects /\ MoreWork
  /\ attempts' = attempts + 1
  /\ \/ ToJoin /\ threadRunning_' = threadRunning_ - 1 /\ app' = "join"
     \/ ~ToJoin /\ UNCHANGED threadRunning_ /\ app' = "open"
  /\ isConnected' = FALSE
  /\ UNCHANGED <<requests, fd_, queue, receiver, channels_, buffers, inbox, server, calls,
                 failures, timedOut, conditions>>

ConnectJoins ==
  /\ app = "join" /\ receiver.pc = "done"
  /\ receiver' = NoThread /\ app' = "open"
  /\ UNCHANGED <<requests, isConnected, fd_, queue, threadRunning_, channels_, buffers,
                 inbox, server, conditions, bounds>>

\* init() makes the conditions anew.
InitConditions_Clears ==
  connectionAcknowledgedCondition' = FALSE /\ messagesAvailableCondition' = FALSE

\* init() leaves a condition that has its pipe as it is.
InitConditions == UNCHANGED conditions

\* The sockets, and the receiver thread.  When one of the calls fails there is no
\* socket yet, or disconnect closes what there is and tells the server if serverfd_
\* is connected already.
Open ==
  /\ app = "open"
  /\ \/ /\ fd_' = attempts /\ receiver' = At("loop")
        /\ threadRunning_' = threadRunning_ + 1
        /\ app' = "notice" /\ request' = Notice("Connect") /\ UNCHANGED failures
     \/ /\ Fails /\ app' \in {"idle", "close", "closing"}
        /\ UNCHANGED <<fd_, receiver, threadRunning_, request>>
  /\ InitConditions
  /\ UNCHANGED <<asking, unsent, isConnected, queue, channels_, buffers, inbox, server,
                 attempts, calls, timedOut>>

\* Monitor.wait has returned: that will do.
Echoed_Assumed == TRUE

\* Monitor.wait returns and the condition is set: any echo will do.
Echoed == connectionAcknowledgedCondition

\* channelsMutex_ is taken for all of the resubscription.
Acknowledged ==
  /\ app = "wait" /\ Echoed
  /\ connectionAcknowledgedCondition' = FALSE
  /\ app' = "resubscribe" /\ asking' = DOMAIN channels_ /\ unsent' = {}
  /\ UNCHANGED <<request, isConnected, fd_, queue, threadRunning_, receiver, channels_,
                 buffers, inbox, messagesAvailableCondition, server, bounds>>

\* Ten seconds without it: disconnect.
TimesOut ==
  /\ app = "wait" /\ ~Echoed
  /\ timedOut' = TRUE
  /\ app' = "lock"
  /\ UNCHANGED <<requests, isConnected, fd_, queue, threadRunning_, receiver, channels_,
                 buffers, inbox, server, attempts, calls, failures, conditions>>

\* subscribe for every channel, which asks for those not acknowledged yet.
Resubscribe(c) ==
  /\ app = "resubscribe" /\ request = NoRequest /\ c \in asking
  /\ asking' = asking \ {c}
  /\ \/ ~channels_[c].acknowledged /\ Ask(Request("Subscribe", c))
     \/ channels_[c].acknowledged /\ UNCHANGED <<request, unsent>>
  /\ UNCHANGED <<app, isConnected, fd_, queue, threadRunning_, receiver, channels_,
                 buffers, inbox, server, conditions, bounds>>

\* Ok, whatever became of the requests.
Connected ==
  /\ app = "resubscribe" /\ request = NoRequest /\ asking = {}
  /\ app' = "idle" /\ isConnected' = TRUE
  /\ UNCHANGED <<requests, fd_, queue, threadRunning_, receiver, channels_, buffers,
                 inbox, server, conditions, bounds>>

-----------------------------------------------------------------------------
(* subscribe, unsubscribe and receiveMsg.                                  *)

NewChannel == [acknowledged |-> FALSE, completeBuffers |-> <<>>]

subscribe(c) ==
  /\ app = "idle" /\ calls < MaxCalls /\ MoreWork /\ calls' = calls + 1
  /\ channels_' = [d \in DOMAIN channels_ \union {c} |->
                     IF d \in DOMAIN channels_ THEN channels_[d] ELSE NewChannel]
  /\ \/ ~channels_'[c].acknowledged /\ Ask(Request("Subscribe", c))
     \/ channels_'[c].acknowledged /\ UNCHANGED <<request, unsent>>
  /\ app' = IF request' # NoRequest THEN "call" ELSE "idle"
  /\ UNCHANGED <<asking, isConnected, fd_, queue, threadRunning_, receiver, buffers,
                 inbox, server, attempts, failures, timedOut, conditions>>

unsubscribe(c) ==
  /\ app = "idle" /\ c \in DOMAIN channels_
  /\ calls < MaxCalls /\ MoreWork /\ calls' = calls + 1
  /\ channels_' = [d \in DOMAIN channels_ \ {c} |-> channels_[d]]
  /\ Ask(Request("Unsubscribe", c))
  /\ app' = IF request' # NoRequest THEN "call" ELSE "idle"
  /\ UNCHANGED <<asking, isConnected, fd_, queue, threadRunning_, receiver, buffers,
                 inbox, server, attempts, failures, timedOut, conditions>>

\* The next message of the channel; after the last one the condition is unset.
receiveMsg(c) ==
  /\ app = "idle" /\ c \in DOMAIN channels_
  /\ LET q == channels_[c].completeBuffers
     IN  /\ q # <<>>
         /\ channels_' = [channels_ EXCEPT ![c].completeBuffers = Tail(q)]
         /\ messagesAvailableCondition' =
              (messagesAvailableCondition /\ Tail(q) # <<>>)
  /\ UNCHANGED <<app, requests, isConnected, fd_, queue, threadRunning_, receiver, buffers,
                 inbox, connectionAcknowledgedCondition, server, bounds>>

-----------------------------------------------------------------------------
(* The receiver thread.                                                    *)

\* A message is complete with its last page.
IsComplete_LastPage(m, pages) == Last(pages) = totalPages[m[2]]

IsComplete(m, pages) == Len(pages) = totalPages[m[2]]

\* The message stays off the list.
Relisted_Never(rest, m, pages) == rest

Relisted(rest, m, pages) == IF IsComplete(m, pages) THEN rest ELSE Append(rest, m)

\* The list without the place of a message.
OffList(lru, m) ==
  IF m \in ToSet(lru) THEN RemoveAt(lru, CHOOSE i \in DOMAIN lru : lru[i] = m) ELSE lru

\* A fragment is put in its buffer, which goes to the end of the list unless
\* the message is complete.
TakeFragment(f, held, lru) ==
  LET pages == Append(held[f.msg], f.page)
  IN  /\ fragmentBuffers_' = [held EXCEPT ![f.msg] = pages]
      /\ fragmentBuffersLRU_' = Relisted(OffList(lru, f.msg), f.msg, pages)
      /\ offList' = offList \ {f.msg}
      /\ receiver' = IF IsComplete(f.msg, pages) THEN [pc |-> "complete", msg |-> f] ELSE At("loop")

\* The checksum of the body is wrong, which shows when the buffer has been taken
\* off the list; it is not put back, and keeps the entry if it had one.
DropFragment(f, held, lru) ==
  /\ Fails
  /\ fragmentBuffers_' = held
  /\ fragmentBuffersLRU_' = OffList(lru, f.msg)
  /\ offList' = IF held[f.msg] # <<>> THEN offList \union {f.msg} ELSE offList
  /\ UNCHANGED receiver

\* Once round the loop: select, prune what has become stale, and if the socket
\* is still open handle what it holds; a notice whose checksum is wrong is dropped.
\* To erase an entry that was erased before (offList) is undefined: it has no
\* effect here, or Crash.
Receive ==
  /\ receiver.pc = "loop" /\ app # "closing"
  /\ \E n \in 0 .. Len(fragmentBuffersLRU_) :
       LET stale == ToSet(SubSeq(fragmentBuffersLRU_, 1, n))
           lru   == SubSeq(fragmentBuffersLRU_, n + 1, Len(fragmentBuffersLRU_))
           held  == [m \in Messages |-> IF m \in stale THEN <<>> ELSE fragmentBuffers_[m]]
           Keep  == fragmentBuffers_' = held /\ fragmentBuffersLRU_' = lru /\ UNCHANGED offList
       IN  \/ fd_ = 0 /\ receiver' = At("done") /\ Keep /\ UNCHANGED <<queue, failures>>
           \/ fd_ # 0 /\ queue = <<>> /\ Keep /\ UNCHANGED <<receiver, queue, failures>>
           \/ /\ queue # <<>> /\ queue' = Tail(queue)
              /\ IF Head(queue).type = "Fragment"
                 THEN \/ TakeFragment(Head(queue), held, lru) /\ UNCHANGED failures
                      \/ DropFragment(Head(queue), held, lru)
                 ELSE /\ Keep
                      /\ \/ receiver' = [pc |-> "control", msg |-> Head(queue)] /\ UNCHANGED failures
                         \/ Fails /\ UNCHANGED receiver
  /\ UNCHANGED <<app, requests, isConnected, fd_, threadRunning_, channels_, inbox, server,
                 conditions, attempts, calls, timedOut>>

\* The process dies of it, and its socket is closed.
Crash ==
  /\ receiver.pc = "loop" /\ queue # <<>>
  /\ Head(queue).type = "Fragment" /\ Head(queue).msg \in offList
  /\ app' = "crashed" /\ receiver' = At("crashed") /\ request' = NoRequest
  /\ fd_' = 0 /\ queue' = <<>>
  /\ UNCHANGED <<asking, unsent, isConnected, threadRunning_, channels_, buffers, inbox,
                 server, conditions, bounds>>

\* The statistics, about once a second, if there are any: sent under fdMutex_.
Report ==
  /\ receiver.pc = "loop" /\ fd_ # 0 /\ published # {}
  /\ receiver' = At("report")
  /\ UNCHANGED <<app, requests, isConnected, fd_, queue, threadRunning_, channels_, buffers,
                 inbox, server, conditions, bounds>>

\* The server passes them on, which changes nothing here: the model needs room for
\* them and does not keep them in inbox.
Reported ==
  /\ receiver.pc = "report" /\ Room
  /\ receiver' = At("loop")
  /\ UNCHANGED <<app, requests, isConnected, fd_, queue, threadRunning_, channels_, buffers,
                 inbox, server, conditions, bounds>>

\* select or recv fails: closeConnection(true), under fdMutex_, ...
ReceiveFails ==
  /\ receiver.pc = "loop" /\ fd_ # 0 /\ Fails
  /\ CloseFds
  /\ receiver' = At("closing")
  /\ UNCHANGED <<app, requests, isConnected, threadRunning_, channels_, buffers, inbox,
                 server, attempts, calls, timedOut, conditions>>

ReceiverTells ==
  /\ receiver.pc = "closing" /\ Tell(Notice("Disconnect"))
  /\ receiver' = At("closed")
  /\ UNCHANGED <<app, requests, isConnected, fd_, queue, threadRunning_, channels_, buffers,
                 server, attempts, calls, timedOut, conditions>>

\* ... and, under channelsMutex_, no subscription is acknowledged; the thread ends.
ReceiverEnds ==
  /\ receiver.pc = "closed" /\ app # "resubscribe"
  /\ channels_' = Unacknowledged
  /\ receiver' = At("done")
  /\ UNCHANGED <<app, requests, isConnected, fd_, queue, threadRunning_, buffers, inbox,
                 server, conditions, bounds>>

\* handleControlMsg, without a mutex.
handleControlMsg ==
  /\ receiver.pc = "control"
  /\ LET msg == receiver.msg
     IN  /\ connectionAcknowledgedCondition' =
              (connectionAcknowledgedCondition \/ msg.type = "Connect")
         /\ channels_' = [c \in DOMAIN channels_ |->
              IF msg.type = "Subscribe" /\ c = msg.channel
              THEN [channels_[c] EXCEPT !.acknowledged = TRUE] ELSE channels_[c]]
  /\ receiver' = At("loop")
  /\ UNCHANGED <<app, requests, isConnected, fd_, queue, threadRunning_, buffers, inbox,
                 server, messagesAvailableCondition, bounds>>

\* Without those beyond the depth.
Newest(q) ==
  IF maxReceiveDepth > 0 /\ Len(q) > maxReceiveDepth THEN Tail(q) ELSE q

\* A complete message is queued, under channelsMutex_, if the channel is known.
Complete ==
  /\ receiver.pc = "complete" /\ app # "resubscribe"
  /\ LET m == receiver.msg.msg
     IN  channels_' = [c \in DOMAIN channels_ |->
           IF c = m[1]
           THEN [channels_[c] EXCEPT !.completeBuffers =
                   Newest(Append(@, [msg |-> m, pages |-> fragmentBuffers_[m]]))]
           ELSE channels_[c]]
  /\ receiver' = [receiver EXCEPT !.pc = "signal"]
  /\ UNCHANGED <<app, requests, isConnected, fd_, queue, threadRunning_, buffers, inbox,
                 server, conditions, bounds>>

\* The condition is set, with no mutex held, and the buffer dropped.
SetAvailable ==
  /\ receiver.pc = "signal"
  /\ messagesAvailableCondition' = TRUE
  /\ fragmentBuffers_' = [fragmentBuffers_ EXCEPT ![receiver.msg.msg] = <<>>]
  /\ receiver' = At("loop")
  /\ UNCHANGED <<app, requests, isConnected, fd_, queue, threadRunning_, channels_, inbox,
                 server, connectionAcknowledgedCondition, fragmentBuffersLRU_, offList, bounds>>

-----------------------------------------------------------------------------
(* The server.                                                             *)

Known == client.to # 0

\* clientConnect, to whatever socket is bound at the name by now: what there was
\* for the client is reset, and there is an entry, and an echo, if there is one.
ServerConnects(msg) ==
  /\ client' = IF fd_ # 0 THEN [to |-> fd_, outBox |-> <<msg>>] ELSE NotKnown
  /\ subscribers' = {}

ServerForgets == client' = NotKnown /\ subscribers' = {}

\* receiveMsg, handleControlMsg and, where the request is echoed, queueMsg.
ServerReceives ==
  /\ inbox # <<>> /\ inbox' = Tail(inbox)
  /\ LET msg  == Head(inbox)
         Echo == client' = [client EXCEPT !.outBox = Append(@, msg)]
     IN  \/ msg.type = "Connect" /\ ServerConnects(msg) /\ UNCHANGED failures
         \/ msg.type = "Connect" /\ Fails /\ ServerForgets
         \/ msg.type = "Disconnect" /\ ServerForgets /\ UNCHANGED failures
         \/ /\ msg.type = "Subscribe" /\ Known
            /\ Echo /\ subscribers' = subscribers \union {msg.channel}
            /\ UNCHANGED failures
         \/ /\ msg.type = "Unsubscribe" /\ Known
            /\ Echo /\ subscribers' = subscribers \ {msg.channel}
            /\ UNCHANGED failures
         \/ /\ ~Known /\ msg.type \in {"Subscribe", "Unsubscribe"}
            /\ UNCHANGED <<client, subscribers, failures>>
  /\ UNCHANGED <<app, requests, isConnected, fd_, queue, threadRunning_, receiver, channels_,
                 buffers, published, conditions, attempts, calls, timedOut>>

\* doWrites: to a socket that is closed it fails, and the entry is retired.
ServerWrites ==
  /\ client.outBox # <<>>
  /\ \/ /\ client.to = fd_
        /\ queue' = Append(queue, Head(client.outBox))
        /\ client' = [client EXCEPT !.outBox = Tail(@)]
        /\ UNCHANGED subscribers
     \/ client.to # fd_ /\ ServerForgets /\ UNCHANGED queue
  /\ UNCHANGED <<app, requests, isConnected, fd_, threadRunning_, receiver, channels_,
                 buffers, inbox, published, conditions, bounds>>

\* A fragment of somebody's message reaches the client's outBox.
Publish(m, p) ==
  /\ m[1] \in subscribers /\ <<m, p>> \notin published /\ MoreWork
  /\ client' = [client EXCEPT !.outBox = Append(@, Fragment(m, p))]
  /\ published' = published \union {<<m, p>>}
  /\ UNCHANGED <<app, requests, isConnected, fd_, queue, threadRunning_, receiver, channels_,
                 buffers, inbox, subscribers, conditions, bounds>>

-----------------------------------------------------------------------------
Sending    == Sent \/ NotSent
Closing    == CloseLocks \/ CloseTells \/ CloseJoins
Connecting == ConnectJoins \/ Open \/ Acknowledged \/ TimesOut
              \/ (\E c \in Channels : Resubscribe(c)) \/ Connected
Program    == Sending \/ Closing \/ Connecting
Receiver   == Receive \/ Reported \/ ReceiverTells \/ ReceiverEnds
              \/ handleControlMsg \/ Complete \/ SetAvailable
Server     == ServerReceives \/ ServerWrites

Next ==
  \/ disconnect \/ ConnectBegins \/ Program
  \/ \E c \in Channels : subscribe(c) \/ unsubscribe(c) \/ receiveMsg(c)
  \/ Receiver \/ Report \/ ReceiveFails \/ Crash \/ Server
  \/ \E m \in Messages : \E p \in Pages(m) : Publish(m, p)

Spec == Init /\ [][Next]_vars

\* Both threads of the client go on when they can, and the program's, when it finds
\* room in the server's socket, or a mutex free, again and again, gets it: neither is
\* held for good, since the server goes on taking requests (its input thread does not
\* write to clients, BasePeer.cc:205-248).
FairSpec == Spec /\ SF_vars(Program) /\ WF_vars(Receiver) /\ WF_vars(ServerReceives)

-----------------------------------------------------------------------------
(* What the client promises.                                               *)

RequestType ==
  [type : {"Connect", "Disconnect"}, channel : {"control"}, msg : {<<>>}, page : {0}]
    \union [type : {"Subscribe", "Unsubscribe"}, channel : Channels, msg : {<<>>}, page : {0}]
FragmentType ==
  {f \in [type : {"Fragment"}, channel : Channels, msg : Messages, page : Nat] :
     f.page \in Pages(f.msg)}
MessageType == RequestType \union FragmentType
ChannelType == [acknowledged : BOOLEAN,
                completeBuffers : Seq([msg : Messages, pages : Seq(Nat)])]
ReceiverType ==
  [pc : {"none", "loop", "report", "closing", "closed", "done", "crashed"}, msg : {<<>>}]
    \union [pc : {"control"}, msg : RequestType]
    \union [pc : {"complete", "signal"}, msg : FragmentType]

\* The types of the state.
TypeOK ==
  /\ app \in {"idle", "join", "open", "notice", "wait", "resubscribe", "call", "lock",
               "closing", "close", "crashed"}
  /\ request \in RequestType \union {NoRequest} /\ (request # NoRequest => app # "idle")
  /\ asking \subseteq DOMAIN channels_ /\ unsent \subseteq Channels
  /\ isConnected \in BOOLEAN /\ timedOut \in BOOLEAN
  /\ connectionAcknowledgedCondition \in BOOLEAN /\ messagesAvailableCondition \in BOOLEAN
  /\ fd_ \in 0 .. MaxConnects /\ attempts \in 0 .. MaxConnects
  /\ queue \in Seq(MessageType) /\ inbox \in Seq(RequestType)
  /\ threadRunning_ \in 0 .. 1 /\ receiver \in ReceiverType
  /\ DOMAIN channels_ \subseteq Channels /\ \A c \in DOMAIN channels_ : channels_[c] \in ChannelType
  /\ fragmentBuffers_ \in [Messages -> Seq(Nat)] /\ fragmentBuffersLRU_ \in Seq(Messages)
  /\ offList \subseteq Messages
  /\ client \in [to : 0 .. MaxConnects, outBox : Seq(MessageType)]
  /\ subscribers \subseteq Channels /\ published \subseteq Messages \X Nat
  /\ calls \in 0 .. MaxCalls /\ failures \in 0 .. MaxFailures

\* Whoever closes the connection and whenever: an open socket is read, by one
\* thread, and there is a thread to join when threadRunning_ says so
\* (UnixClient.cc:104-120, 847-851).
OneReceiver ==
  /\ fd_ # 0 => receiver.pc \in {"loop", "control", "complete", "signal", "report"}
  /\ app # "crashed" => (receiver.pc = "none" <=> threadRunning_ = 0 /\ app # "join")
  /\ threadRunning_ <= 1

\* After a connect that returned Ok, the server, when it has taken all requests,
\* has the client at the socket that is open, unless an earlier connect gave up on
\* its echo: that may have been taken for the one of a request that failed
\* (UnixClient.cc:280-302).
ServerKnowsClient ==
  app = "idle" /\ isConnected /\ fd_ # 0 /\ inbox = <<>> /\ ~timedOut => client.to = fd_

\* All requests and their echoes have been taken.
Settled ==
  /\ app = "idle" /\ isConnected /\ fd_ # 0
  /\ inbox = <<>> /\ client.outBox = <<>> /\ queue = <<>> /\ receiver.pc = "loop"

\* The subscriptions outlive a connection, whichever side or thread ends it: when all
\* has been said the server has those of the client, but for a channel whose last
\* request could not be sent (UnixClient.cc:312, 378, 423), and as long as no connect
\* has given up on its echo.
Resubscribed == Settled => subscribers = DOMAIN channels_
SubscriptionsSurvive ==
  Settled /\ ~timedOut =>
    \A c \in Channels \ unsent : c \in subscribers <=> c \in DOMAIN channels_

\* A message in a queue has all its pages, each once, however many of other
\* messages came between and although incomplete ones are pruned; no message is
\* queued twice.
WholeMessages ==
  \A c \in DOMAIN channels_ :
    LET q == channels_[c].completeBuffers
    IN  /\ \A i \in DOMAIN q : ToSet(q[i].pages) = Pages(q[i].msg) /\ q[i].msg[1] = c
        /\ \A i, j \in DOMAIN q : q[i].msg = q[j].msg => i = j

\* An incomplete message of which no fragment was damaged since the last good one is
\* on the list that pruning reads, once, so that it does not stay for ever; one that
\* has been completed is not, so that it is not pruned while it is handed over
\* (UnixClient.cc:680-684, 768).  One that was damaged is not on it (773-776): if no
\* fragment follows it stays.
IncompleteArePruned ==
  LET held == {m \in Messages : fragmentBuffers_[m] # <<>>}
      InHand == receiver.pc \in {"complete", "signal"}
  IN  /\ IsInjective(fragmentBuffersLRU_)
      /\ ToSet(fragmentBuffersLRU_) =
           (held \ offList) \ (IF InHand THEN {receiver.msg.msg} ELSE {})

\* There is a message for the program to take: then the condition it waits for is
\* set, or the receiver is about to set it.
Available == \E c \in DOMAIN channels_ : channels_[c].completeBuffers # <<>>
MessagesAreSignalled == Available => messagesAvailableCondition \/ receiver.pc = "signal"

\* So it is for a client of one channel, although the receiver queues a message
\* under a mutex and sets the condition without.
OneChannelIsSignalled == Cardinality(Channels) = 1 => MessagesAreSignalled

\* Every call returns, or the process is dead: connect and disconnect join a thread
\* that may be in the middle of a message, wait for a mutex that it holds while it
\* waits for the server, or that has failed by itself.
CallsReturn == app # "idle" ~> app \in {"idle", "crashed"}

=============================================================================
