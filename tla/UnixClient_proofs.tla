-------------------------- MODULE UnixClient_proofs --------------------------
(***************************************************************************)
(* Proofs about the client of SimpleComms: for all channels, messages and  *)
(* failures, its state keeps its types and its socket one reader.          *)
(***************************************************************************)
EXTENDS UnixClient, FiniteSetTheorems, TLAPS

Queued == [msg : Messages, pages : Seq(Nat)]

LEMMA PagesTyped ==
  ASSUME NEW m \in Messages
  PROVE  totalPages[m[2]] \in Nat /\ Pages(m) \subseteq Nat
<1>1. m[2] \in 1 .. MaxMessages
  BY DEF Messages
<1>2. totalPages[m[2]] \in Nat
  BY <1>1, UnixClientAssumption
<1> QED BY <1>2 DEF Pages

LEMMA RequestsTyped ==
  /\ \A t \in {"Connect", "Disconnect"} : Notice(t) \in RequestType
  /\ \A t \in {"Subscribe", "Unsubscribe"}, c \in Channels : Request(t, c) \in RequestType
  /\ \A m \in Messages : \A p \in Pages(m) : Fragment(m, p) \in FragmentType
<1>1. ASSUME NEW m \in Messages, NEW p \in Pages(m) PROVE Fragment(m, p) \in FragmentType
  <2>1. p \in Nat /\ m[1] \in Channels
    BY PagesTyped DEF Messages
  <2> HIDE DEF Messages, Pages
  <2> QED BY <2>1 DEF Fragment, FragmentType
<1>2. \A t \in {"Connect", "Disconnect"} : Notice(t) \in RequestType
  BY DEF Notice, Request, RequestType
<1>3. \A t \in {"Subscribe", "Unsubscribe"}, c \in Channels : Request(t, c) \in RequestType
  BY DEF Request, RequestType
<1> QED BY <1>1, <1>2, <1>3

LEMMA MessagesTyped ==
  /\ \A m \in RequestType : m.type # "Fragment" /\ m.type \in {"Connect", "Disconnect", "Subscribe", "Unsubscribe"}
  /\ \A m \in RequestType : m.type \in {"Subscribe", "Unsubscribe"} => m.channel \in Channels
  /\ \A m \in FragmentType : /\ m.type = "Fragment" /\ m.msg \in Messages
                             /\ m.page \in Pages(m.msg) /\ m.page \in Nat
  /\ \A m \in MessageType : IF m.type = "Fragment" THEN m \in FragmentType ELSE m \in RequestType
BY DEF RequestType, FragmentType, MessageType

LEMMA ReceiverTyped ==
  /\ \A pc \in {"none", "loop", "report", "closing", "closed", "done", "crashed"} : At(pc) \in ReceiverType
  /\ NoThread \in ReceiverType
  /\ \A m \in RequestType : [pc |-> "control", msg |-> m] \in ReceiverType
  /\ \A m \in FragmentType : [pc |-> "complete", msg |-> m] \in ReceiverType
  /\ \A r \in ReceiverType :
       /\ r.pc = "control" => r.msg \in RequestType
       /\ r.pc \in {"complete", "signal"} => r.msg \in FragmentType
       /\ r.pc = "complete" => [r EXCEPT !.pc = "signal"] \in ReceiverType
BY DEF At, NoThread, ReceiverType

LEMMA CountsTyped ==
  ASSUME TypeOK
  PROVE  /\ attempts < MaxConnects => attempts + 1 \in 0 .. MaxConnects
         /\ calls < MaxCalls => calls + 1 \in 0 .. MaxCalls
         /\ failures < MaxFailures => failures + 1 \in 0 .. MaxFailures
         /\ 0 \in 0 .. 1 /\ 1 \in 0 .. 1 /\ 0 \in 0 .. MaxConnects
BY UnixClientAssumption DEF TypeOK

\* A request more, if it is sent.
LEMMA TellTyped ==
  ASSUME TypeOK
  PROVE  /\ \A m \in RequestType : Append(inbox, m) \in Seq(RequestType)
         /\ Fails => failures' \in 0 .. MaxFailures
         /\ Tell(Notice("Disconnect")) => inbox' \in Seq(RequestType) /\ failures' \in 0 .. MaxFailures
<1>1. inbox \in Seq(RequestType) /\ failures \in 0 .. MaxFailures
  BY DEF TypeOK
<1>2. \A m \in RequestType : Append(inbox, m) \in Seq(RequestType)
  BY <1>1
<1>3. Fails => failures' \in 0 .. MaxFailures
  BY CountsTyped DEF Fails
<1> QED BY <1>1, <1>2, <1>3, RequestsTyped DEF Tell

\* What closeConnection makes of the channels and the socket.
LEMMA CloseTyped ==
  ASSUME TypeOK
  PROVE  /\ DOMAIN Unacknowledged = DOMAIN channels_
         /\ \A c \in DOMAIN Unacknowledged : Unacknowledged[c] \in ChannelType
         /\ CloseFds => fd_' = 0 /\ queue' \in Seq(MessageType)
<1>1. \A r \in ChannelType : [r EXCEPT !.acknowledged = FALSE] \in ChannelType
  BY DEF ChannelType
<1>2. \A c \in DOMAIN channels_ : channels_[c] \in ChannelType
  BY DEF TypeOK
<1>3. /\ DOMAIN Unacknowledged = DOMAIN channels_
      /\ \A c \in DOMAIN channels_ :
           Unacknowledged[c] = [channels_[c] EXCEPT !.acknowledged = FALSE]
  BY DEF Unacknowledged
<1>4. <<>> \in Seq(MessageType)
  OBVIOUS
<1>5. CloseFds => fd_' = 0 /\ queue' \in Seq(MessageType)
  BY <1>4 DEF CloseFds
<1> QED BY <1>1, <1>2, <1>3, <1>5

LEMMA TypeInit == Init => TypeOK
<1> SUFFICES ASSUME Init PROVE TypeOK
  OBVIOUS
<1>1. receiver \in ReceiverType
  BY ReceiverTyped DEF Init
<1>2. DOMAIN channels_ = {}
  BY DEF Init
<1>3. fragmentBuffers_ \in [Messages -> Seq(Nat)]
  BY DEF Init
<1>4. 0 \in 0 .. MaxConnects /\ 0 \in 0 .. MaxCalls /\ 0 \in 0 .. MaxFailures
  BY UnixClientAssumption
<1>5. <<>> \in Seq(MessageType) /\ <<>> \in Seq(Messages) /\ <<>> \in Seq(RequestType)
  OBVIOUS
<1>6. client \in [to : 0 .. MaxConnects, outBox : Seq(MessageType)]
  BY <1>4, <1>5 DEF Init, NotKnown
<1>7. 0 \in 0 .. 1
  OBVIOUS
<1>8. \A c \in DOMAIN channels_ : channels_[c] \in ChannelType
  BY <1>2
<1> QED BY <1>1, <1>2, <1>3, <1>4, <1>5, <1>6, <1>7, <1>8 DEF Init, TypeOK

\* The thread to join is counted until it is, and the socket is closed before it is; a
\* receiver whose socket is closed is on its way out.
Reading == receiver.pc \in {"loop", "control", "complete", "signal", "report"}
Threads ==
  /\ OneReceiver
  /\ app \in {"join", "open"} => threadRunning_ = 0 /\ attempts # 0
  /\ app \in {"join", "open", "closing", "close"} => fd_ = 0
  /\ fd_ = 0 /\ Reading => app \in {"closing", "close"}

\* Who has something to send, and what.
Asks ==
  /\ request # NoRequest => app \in {"notice", "call", "resubscribe"}
  /\ app = "notice" => request = Notice("Connect")
  /\ request # NoRequest /\ app # "notice" => request.type \in {"Subscribe", "Unsubscribe"}
  /\ asking # {} => app \in {"resubscribe", "crashed"}

TInv == TypeOK /\ Threads /\ Asks

-----------------------------------------------------------------------------
(* connect and disconnect.                                                 *)

LEMMA SendingTyped == ASSUME TInv, Sending PROVE TypeOK'
<1>0. TypeOK /\ Asks
  BY DEF TInv
<1>1. NoRequest \in RequestType \union {NoRequest}
  OBVIOUS
<1>2. CASE Sent
  <2>1. inbox' \in Seq(RequestType)
    BY <1>0, <1>2, TellTyped DEF Sent, TypeOK
  <2>2. app' \in {"wait", "idle", app} /\ unsent' \subseteq Channels /\ request' = NoRequest
    BY <1>0, <1>2 DEF Sent, TypeOK
  <2> QED BY <1>0, <1>1, <1>2, <2>1, <2>2 DEF Sent, TypeOK, conditions, buffers, server, bounds
<1>3. CASE NotSent
  <2>1. failures' \in 0 .. MaxFailures
    BY <1>0, <1>3, TellTyped DEF NotSent, TypeOK
  <2>2. app' \in {"idle", app} /\ unsent' \subseteq Channels /\ request' = NoRequest
    BY <1>0, <1>3 DEF NotSent, TypeOK
  <2> QED BY <1>0, <1>1, <1>3, <2>1, <2>2 DEF NotSent, TypeOK, conditions, buffers, server
<1> QED BY <1>2, <1>3 DEF Sending

LEMMA ClosingTyped == ASSUME TInv, disconnect \/ Closing PROVE TypeOK'
<1>0. TypeOK /\ Asks
  BY DEF TInv
<1>1. CASE disconnect
  BY <1>0, <1>1 DEF disconnect, TypeOK, requests, conditions, buffers, server, bounds
<1>2. CASE CloseLocks
  BY <1>0, <1>2, CloseTyped, CountsTyped
     DEF CloseLocks, TypeOK, requests, conditions, buffers, server, bounds
<1>3. CASE CloseTells
  BY <1>0, <1>3, TellTyped DEF CloseTells, TypeOK, requests, conditions, buffers, server
<1>4. CASE CloseJoins
  <2>1. request = NoRequest /\ asking = {}
    BY <1>0, <1>4 DEF CloseJoins, Asks
  <2> QED BY <1>0, <1>4, <2>1, CloseTyped, CountsTyped, ReceiverTyped
          DEF CloseJoins, TypeOK, requests, conditions, buffers, server, bounds
<1> QED BY <1>1, <1>2, <1>3, <1>4 DEF Closing

\* What subscribe and unsubscribe have to send.
LEMMA AskTyped ==
  ASSUME TypeOK, NEW t \in {"Subscribe", "Unsubscribe"}, NEW c \in Channels, Ask(Request(t, c))
  PROVE  /\ request' \in RequestType \union {NoRequest} /\ unsent' \subseteq Channels
         /\ request' \in {request, Request(t, c)}
<1>1. Request(t, c) \in RequestType /\ Request(t, c).channel = c
  BY RequestsTyped DEF Request
<1>2. request \in RequestType \union {NoRequest} /\ unsent \subseteq Channels
  BY DEF TypeOK
<1> HIDE DEF Request
<1> QED BY <1>1, <1>2 DEF Ask

LEMMA ConnectTyped ==
  ASSUME TInv, ConnectBegins \/ Connecting
  PROVE  TypeOK'
<1>0. TypeOK /\ Threads /\ Asks
  BY DEF TInv
<1>3. CASE ConnectBegins
  <2>1. threadRunning_' \in 0 .. 1
    BY <1>0, <1>3 DEF ConnectBegins, ToJoin, TypeOK
  <2> QED BY <1>0, <1>3, <2>1, CountsTyped DEF ConnectBegins, TypeOK, requests, conditions, buffers, server
<1>4. CASE ConnectJoins
  BY <1>0, <1>4, ReceiverTyped DEF ConnectJoins, TypeOK, requests, conditions, buffers, server, bounds
<1>5. CASE Open
  <2>1. request = NoRequest
    BY <1>0, <1>5 DEF Open, Asks
  <2>2. threadRunning_' \in 0 .. 1
    BY <1>0, <1>5, CountsTyped DEF Open, Threads, TypeOK
  <2>3. receiver' \in ReceiverType /\ fd_' \in 0 .. MaxConnects /\ failures' \in 0 .. MaxFailures
    BY <1>0, <1>5, ReceiverTyped, TellTyped DEF Open, TypeOK
  <2>4. request' \in RequestType \union {NoRequest} /\ (request' # NoRequest => app' = "notice")
    BY <1>5, <2>1, RequestsTyped DEF Open
  <2>5. app' \in {"notice", "idle", "close", "closing"}
    BY <1>5 DEF Open
  <2> QED BY <1>0, <1>5, <2>2, <2>3, <2>4, <2>5
          DEF Open, InitConditions, TypeOK, conditions, buffers, server
<1>6. CASE Acknowledged
  BY <1>0, <1>6 DEF Acknowledged, TypeOK, buffers, server, bounds
<1>7. CASE TimesOut
  BY <1>0, <1>7 DEF TimesOut, TypeOK, requests, conditions, buffers, server
<1>8. ASSUME NEW c \in Channels, Resubscribe(c) PROVE TypeOK'
  <2>1. request' \in RequestType \union {NoRequest} /\ unsent' \subseteq Channels
    <3>1. "Subscribe" \in {"Subscribe", "Unsubscribe"} /\ request \in RequestType \union {NoRequest}
          /\ unsent \subseteq Channels
      BY <1>0 DEF TypeOK
    <3>2. Ask(Request("Subscribe", c)) \/ UNCHANGED <<request, unsent>>
      BY <1>8 DEF Resubscribe
    <3> QED BY <1>0, <3>1, <3>2, AskTyped
  <2> QED BY <1>0, <1>8, <2>1 DEF Resubscribe, TypeOK, conditions, buffers, server, bounds
<1>9. CASE Connected
  BY <1>0, <1>9 DEF Connected, TypeOK, requests, conditions, buffers, server, bounds
<1> QED BY <1>3, <1>4, <1>5, <1>6, <1>7, <1>8, <1>9 DEF Connecting

-----------------------------------------------------------------------------
(* subscribe, unsubscribe and receiveMsg.                                  *)

LEMMA ChannelTyped ==
  ASSUME NEW r \in ChannelType
  PROVE  /\ r.completeBuffers \in Seq(Queued)
         /\ \A q \in Seq(Queued) : [r EXCEPT !.completeBuffers = q] \in ChannelType
         /\ [r EXCEPT !.acknowledged = TRUE] \in ChannelType
BY DEF ChannelType, Queued

LEMMA CallsTyped ==
  ASSUME TInv, NEW c \in Channels, subscribe(c) \/ unsubscribe(c) \/ receiveMsg(c)
  PROVE  TypeOK'
<1>0. /\ DOMAIN channels_ \subseteq Channels /\ \A d \in DOMAIN channels_ : channels_[d] \in ChannelType
      /\ app = "idle" => request = NoRequest /\ asking = {}
      /\ TypeOK /\ unsent \subseteq Channels
  BY DEF TInv, Asks, TypeOK
<1> DEFINE Good == /\ DOMAIN channels_' \subseteq Channels
                   /\ \A d \in DOMAIN channels_' : channels_'[d] \in ChannelType
           Asked == /\ request' \in RequestType \union {NoRequest} /\ unsent' \subseteq Channels
                    /\ app' \in {"idle", "call"} /\ (request' # NoRequest => app' # "idle")
<1>1. CASE subscribe(c)
  <2>1. NewChannel \in ChannelType
    BY DEF NewChannel, ChannelType
  <2>2. Good
    BY <1>0, <1>1, <2>1 DEF subscribe
  <2>3. Asked
    <3>1. Ask(Request("Subscribe", c)) \/ UNCHANGED <<request, unsent>>
      BY <1>1 DEF subscribe
    <3>2. request' \in RequestType \union {NoRequest} /\ unsent' \subseteq Channels
      BY <1>0, <1>1, <3>1, AskTyped DEF subscribe
    <3> QED BY <1>1, <3>2 DEF subscribe
  <2> QED BY <1>0, <1>1, <2>2, <2>3, CountsTyped DEF subscribe, TypeOK, conditions, buffers, server
<1>2. CASE unsubscribe(c)
  <2>1. Good
    BY <1>0, <1>2 DEF unsubscribe
  <2>2. Asked
    <3>1. request' \in RequestType \union {NoRequest} /\ unsent' \subseteq Channels
      BY <1>0, <1>2, AskTyped DEF unsubscribe
    <3> QED BY <1>2, <3>1 DEF unsubscribe
  <2> QED BY <1>0, <1>2, <2>1, <2>2, CountsTyped DEF unsubscribe, TypeOK, conditions, buffers, server
<1>3. CASE receiveMsg(c)
  <2>1. \A r \in ChannelType : r.completeBuffers # <<>> =>
          [r EXCEPT !.completeBuffers = Tail(@)] \in ChannelType
    <3> SUFFICES ASSUME NEW r \in ChannelType, r.completeBuffers # <<>>
                 PROVE  [r EXCEPT !.completeBuffers = Tail(r.completeBuffers)] \in ChannelType
      OBVIOUS
    <3>1. \A q \in Seq(Queued) : q # <<>> => Tail(q) \in Seq(Queued)
      OBVIOUS
    <3> QED BY <3>1, ChannelTyped
  <2>2. c \in DOMAIN channels_ /\ channels_[c].completeBuffers # <<>>
    BY <1>3 DEF receiveMsg
  <2>3. /\ DOMAIN channels_' = DOMAIN channels_
        /\ channels_'[c] = [channels_[c] EXCEPT !.completeBuffers = Tail(@)]
        /\ \A d \in DOMAIN channels_ \ {c} : channels_'[d] = channels_[d]
    BY <1>3 DEF receiveMsg
  <2>4. Good
    BY <1>0, <2>1, <2>2, <2>3
  <2> QED BY <1>0, <1>3, <2>3, <2>4 DEF receiveMsg, TypeOK, requests, buffers, server, bounds
<1> QED BY <1>1, <1>2, <1>3

-----------------------------------------------------------------------------
(* The receiver.                                                           *)

LEMMA OffListTyped ==
  ASSUME NEW lru \in Seq(Messages), NEW m
  PROVE  OffList(lru, m) \in Seq(Messages)
<1>1. CASE m \in ToSet(lru)
  <2> DEFINE i == CHOOSE i \in DOMAIN lru : lru[i] = m
  <2>1. i \in 1 .. Len(lru)
    BY <1>1 DEF ToSet
  <2> HIDE DEF i
  <2>2. SubSeq(lru, 1, i - 1) \in Seq(Messages) /\ SubSeq(lru, i + 1, Len(lru)) \in Seq(Messages)
    BY <2>1
  <2> QED BY <1>1, <2>2 DEF OffList, RemoveAt, i
<1> QED BY <1>1 DEF OffList

LEMMA FragmentTyped ==
  ASSUME NEW f \in FragmentType, NEW held \in [Messages -> Seq(Nat)], NEW lru \in Seq(Messages),
         TakeFragment(f, held, lru)
  PROVE  /\ fragmentBuffers_' \in [Messages -> Seq(Nat)]
         /\ fragmentBuffersLRU_' \in Seq(Messages)
         /\ receiver' \in ReceiverType /\ offList' \subseteq offList
<1>1. f.msg \in Messages /\ f.page \in Nat
  BY MessagesTyped
<1>2. held[f.msg] \in Seq(Nat)
  BY <1>1
<1>3. Append(held[f.msg], f.page) \in Seq(Nat)
  BY <1>1, <1>2
<1>4. fragmentBuffers_' \in [Messages -> Seq(Nat)]
  BY <1>3 DEF TakeFragment
<1>5. fragmentBuffersLRU_' \in Seq(Messages)
  <2>1. OffList(lru, f.msg) \in Seq(Messages)
    BY OffListTyped
  <2>2. Append(OffList(lru, f.msg), f.msg) \in Seq(Messages)
    BY <1>1, <2>1
  <2> QED BY <2>1, <2>2 DEF TakeFragment, Relisted
<1>6. receiver' \in ReceiverType /\ offList' \subseteq offList
  BY ReceiverTyped DEF TakeFragment
<1> QED BY <1>4, <1>5, <1>6

LEMMA DropTyped ==
  ASSUME TypeOK, NEW f \in FragmentType, NEW held \in [Messages -> Seq(Nat)], NEW lru \in Seq(Messages),
         DropFragment(f, held, lru)
  PROVE  /\ fragmentBuffers_' \in [Messages -> Seq(Nat)]
         /\ fragmentBuffersLRU_' \in Seq(Messages) /\ offList' \subseteq Messages
         /\ UNCHANGED receiver /\ failures' \in 0 .. MaxFailures
<1>1. f.msg \in Messages /\ offList \subseteq Messages
  BY MessagesTyped DEF TypeOK
<1>2. OffList(lru, f.msg) \in Seq(Messages)
  BY OffListTyped
<1>3. failures' \in 0 .. MaxFailures
  BY TellTyped DEF DropFragment
<1> QED BY <1>1, <1>2, <1>3 DEF DropFragment

\* What is left when the first n of the list have become stale.
Stale(n) == ToSet(SubSeq(fragmentBuffersLRU_, 1, n))
Left(n)  == SubSeq(fragmentBuffersLRU_, n + 1, Len(fragmentBuffersLRU_))
Kept(n)  == [m \in Messages |-> IF m \in Stale(n) THEN <<>> ELSE fragmentBuffers_[m]]
Keeps(n) == fragmentBuffers_' = Kept(n) /\ fragmentBuffersLRU_' = Left(n) /\ UNCHANGED offList

LEMMA KeptTyped ==
  ASSUME TypeOK, NEW n \in 0 .. Len(fragmentBuffersLRU_)
  PROVE  Left(n) \in Seq(Messages) /\ Kept(n) \in [Messages -> Seq(Nat)]
<1>1. fragmentBuffersLRU_ \in Seq(Messages)
  BY DEF TypeOK
<1>2. Left(n) \in Seq(Messages)
  BY <1>1 DEF Left
<1>3. \A m \in Messages : fragmentBuffers_[m] \in Seq(Nat) /\ <<>> \in Seq(Nat)
  BY DEF TypeOK
<1> QED BY <1>2, <1>3 DEF Kept

\* The ways round the loop.
Round(n) ==
  \/ fd_ = 0 /\ receiver' = At("done") /\ Keeps(n) /\ UNCHANGED <<queue, failures>>
  \/ fd_ # 0 /\ queue = <<>> /\ Keeps(n) /\ UNCHANGED <<receiver, queue, failures>>
  \/ /\ queue # <<>> /\ queue' = Tail(queue) /\ Head(queue).type = "Fragment"
     /\ \/ TakeFragment(Head(queue), Kept(n), Left(n)) /\ UNCHANGED failures
        \/ DropFragment(Head(queue), Kept(n), Left(n))
  \/ /\ queue # <<>> /\ queue' = Tail(queue) /\ Head(queue).type # "Fragment" /\ Keeps(n)
     /\ \/ receiver' = [pc |-> "control", msg |-> Head(queue)] /\ UNCHANGED failures
        \/ Fails /\ UNCHANGED receiver

LEMMA RoundTheLoop ==
  ASSUME TypeOK, Receive
  PROVE  /\ \E n \in 0 .. Len(fragmentBuffersLRU_) : Round(n)
         /\ receiver.pc = "loop" /\ app # "closing"
         /\ queue # <<>> => Head(queue) \in MessageType /\ Tail(queue) \in Seq(MessageType)
         /\ UNCHANGED <<app, requests, isConnected, fd_, threadRunning_, channels_, inbox, server,
                        conditions, attempts, calls, timedOut>>
<1>1. queue \in Seq(MessageType)
  BY DEF TypeOK
<1>2. queue # <<>> => Head(queue) \in MessageType /\ Tail(queue) \in Seq(MessageType)
  BY <1>1
<1>3. \E n \in 0 .. Len(fragmentBuffersLRU_) : Round(n)
  BY DEF Receive, Round, Keeps, Kept, Left, Stale
<1> QED BY <1>2, <1>3 DEF Receive

LEMMA ReceiveTyped == ASSUME TypeOK, Receive PROVE TypeOK'
<1> DEFINE Good == /\ fragmentBuffers_' \in [Messages -> Seq(Nat)]
                   /\ fragmentBuffersLRU_' \in Seq(Messages) /\ offList' \subseteq Messages
                   /\ receiver' \in ReceiverType /\ queue' \in Seq(MessageType)
                   /\ failures' \in 0 .. MaxFailures
<1> SUFFICES Good
  <2>1. UNCHANGED <<app, requests, isConnected, fd_, threadRunning_, channels_, inbox, server,
                    conditions, attempts, calls, timedOut>>
    BY RoundTheLoop
  <2> QED BY <2>1 DEF TypeOK, requests, conditions, server
<1>1. PICK n \in 0 .. Len(fragmentBuffersLRU_) : Round(n)
  BY RoundTheLoop
<1>2. /\ queue # <<>> => Head(queue) \in MessageType /\ Tail(queue) \in Seq(MessageType)
      /\ queue \in Seq(MessageType) /\ receiver \in ReceiverType /\ offList \subseteq Messages
      /\ failures \in 0 .. MaxFailures
  BY RoundTheLoop DEF TypeOK
<1>3. Left(n) \in Seq(Messages) /\ Kept(n) \in [Messages -> Seq(Nat)]
  BY KeptTyped
<1>4. CASE \/ fd_ = 0 /\ receiver' = At("done") /\ Keeps(n) /\ UNCHANGED <<queue, failures>>
           \/ fd_ # 0 /\ queue = <<>> /\ Keeps(n) /\ UNCHANGED <<receiver, queue, failures>>
  BY <1>2, <1>3, <1>4, ReceiverTyped DEF Keeps
<1>5. CASE /\ queue # <<>> /\ queue' = Tail(queue) /\ Head(queue).type = "Fragment"
           /\ \/ TakeFragment(Head(queue), Kept(n), Left(n)) /\ UNCHANGED failures
              \/ DropFragment(Head(queue), Kept(n), Left(n))
  <2>1. Head(queue) \in FragmentType
    BY <1>2, <1>5, MessagesTyped
  <2>2. CASE TakeFragment(Head(queue), Kept(n), Left(n)) /\ UNCHANGED failures
    BY <1>2, <1>3, <1>5, <2>1, <2>2, FragmentTyped
  <2>3. CASE DropFragment(Head(queue), Kept(n), Left(n))
    BY <1>2, <1>3, <1>5, <2>1, <2>3, DropTyped
  <2> QED BY <1>5, <2>2, <2>3
<1>6. CASE /\ queue # <<>> /\ queue' = Tail(queue) /\ Head(queue).type # "Fragment" /\ Keeps(n)
           /\ \/ receiver' = [pc |-> "control", msg |-> Head(queue)] /\ UNCHANGED failures
              \/ Fails /\ UNCHANGED receiver
  <2>1. Head(queue) \in RequestType
    BY <1>2, <1>6, MessagesTyped
  <2> QED BY <1>2, <1>3, <1>6, <2>1, ReceiverTyped, TellTyped DEF Keeps
<1> QED BY <1>1, <1>4, <1>5, <1>6 DEF Round

LEMMA CompleteTyped == ASSUME TypeOK, Complete PROVE TypeOK'
<1> DEFINE m == receiver.msg.msg
           entry == [msg |-> m, pages |-> fragmentBuffers_[m]]
<1>1. receiver \in ReceiverType /\ receiver.pc = "complete" /\ m \in Messages
  BY ReceiverTyped, MessagesTyped DEF TypeOK, Complete
<1>2. entry \in Queued
  BY <1>1 DEF TypeOK, Queued
<1>3. receiver' \in ReceiverType
  BY <1>1, ReceiverTyped DEF Complete
<1> HIDE DEF entry
<1>4. \A q \in Seq(Queued) : Newest(Append(q, entry)) \in Seq(Queued)
  <2> SUFFICES ASSUME NEW q \in Seq(Queued) PROVE Newest(Append(q, entry)) \in Seq(Queued)
    OBVIOUS
  <2> DEFINE a == Append(q, entry)
  <2>1. a \in Seq(Queued) /\ a # <<>>
    <3>1. a \in Seq(Queued)
      BY <1>2
    <3>2. Len(a) = Len(q) + 1 /\ Len(q) \in Nat
      BY <1>2
    <3> QED BY <3>1, <3>2
  <2> HIDE DEF a
  <2>2. Tail(a) \in Seq(Queued)
    BY <2>1
  <2> QED BY <2>1, <2>2 DEF Newest, a
<1>5. \A c \in DOMAIN channels_ : channels_[c] \in ChannelType
  BY DEF TypeOK
<1>6. \A c \in DOMAIN channels_ :
        [channels_[c] EXCEPT !.completeBuffers = Newest(Append(@, entry))] \in ChannelType
  BY <1>4, <1>5, ChannelTyped
<1>7. /\ DOMAIN channels_' = DOMAIN channels_
      /\ \A c \in DOMAIN channels_ : channels_'[c] \in ChannelType
  BY <1>5, <1>6 DEF Complete, entry
<1> QED BY <1>3, <1>7 DEF Complete, TypeOK, requests, conditions, buffers, server, bounds

LEMMA ReceiverKeepsTypes ==
  ASSUME TypeOK, Receiver \/ ReceiveFails \/ Report \/ Crash
  PROVE  TypeOK'
<1>1. CASE ReceiveFails
  <2>1. failures' \in 0 .. MaxFailures
    BY <1>1, TellTyped DEF ReceiveFails
  <2>2. fd_' \in 0 .. MaxConnects /\ queue' \in Seq(MessageType)
    BY <1>1, CloseTyped, CountsTyped DEF ReceiveFails
  <2>3. receiver' \in ReceiverType
    BY <1>1, ReceiverTyped DEF ReceiveFails
  <2>4. UNCHANGED <<app, requests, isConnected, threadRunning_, channels_, buffers, inbox, server,
                    attempts, calls, timedOut, conditions>>
    BY <1>1 DEF ReceiveFails
  <2> QED BY <2>1, <2>2, <2>3, <2>4 DEF TypeOK, requests, conditions, buffers, server
<1>2. CASE handleControlMsg
  <2>1. \A c \in DOMAIN channels_ : channels_[c] \in ChannelType
    BY DEF TypeOK
  <2>2. /\ DOMAIN channels_' = DOMAIN channels_
        /\ \A c \in DOMAIN channels_ : channels_'[c] \in ChannelType
    BY <1>2, <2>1, ChannelTyped DEF handleControlMsg
  <2> QED BY <1>2, <2>2, ReceiverTyped
          DEF handleControlMsg, TypeOK, requests, conditions, buffers, server, bounds
<1>3. CASE SetAvailable
  <2>1. <<>> \in Seq(Nat)
    OBVIOUS
  <2>2. fragmentBuffers_' \in [Messages -> Seq(Nat)]
    BY <1>3, <2>1 DEF SetAvailable, TypeOK
  <2> QED BY <1>3, <2>2, ReceiverTyped DEF SetAvailable, TypeOK, requests, server, bounds
<1>4. CASE Report \/ Reported
  <2>1. receiver' \in ReceiverType
    BY <1>4, ReceiverTyped DEF Report, Reported
  <2>2. UNCHANGED <<app, requests, isConnected, fd_, queue, threadRunning_, channels_, buffers,
                    inbox, server, conditions, bounds>>
    BY <1>4 DEF Report, Reported
  <2> QED BY <2>1, <2>2 DEF TypeOK, requests, conditions, buffers, server, bounds
<1>5. CASE ReceiverTells
  BY <1>5, ReceiverTyped, TellTyped DEF ReceiverTells, TypeOK, requests, conditions, buffers, server
<1>6. CASE ReceiverEnds
  BY <1>6, ReceiverTyped, CloseTyped
     DEF ReceiverEnds, TypeOK, requests, conditions, buffers, server, bounds
<1>7. CASE Crash
  <2>1. <<>> \in Seq(MessageType)
    OBVIOUS
  <2> QED BY <1>7, <2>1, ReceiverTyped, CountsTyped
          DEF Crash, TypeOK, conditions, buffers, server, bounds
<1> QED BY <1>1, <1>2, <1>3, <1>4, <1>5, <1>6, <1>7, ReceiveTyped, CompleteTyped DEF Receiver

-----------------------------------------------------------------------------
(* The server.                                                             *)

EntryType == [to : 0 .. MaxConnects, outBox : Seq(MessageType)]

LEMMA EntryTyped ==
  ASSUME TypeOK, NEW m \in MessageType
  PROVE  /\ [client EXCEPT !.outBox = Append(@, m)] \in EntryType
         /\ [to |-> fd_, outBox |-> <<m>>] \in EntryType
         /\ NotKnown \in EntryType
<1>1. client.outBox \in Seq(MessageType) /\ client \in EntryType /\ fd_ \in 0 .. MaxConnects
  BY DEF TypeOK, EntryType
<1>2. Append(client.outBox, m) \in Seq(MessageType)
  BY <1>1
<1>3. <<m>> \in Seq(MessageType) /\ <<>> \in Seq(MessageType)
  OBVIOUS
<1> QED BY <1>1, <1>2, <1>3, CountsTyped DEF EntryType, NotKnown

LEMMA ServerTyped ==
  ASSUME TypeOK, Server \/ \E m \in Messages : \E p \in Pages(m) : Publish(m, p)
  PROVE  TypeOK'
<1>1. CASE ServerReceives
  <2> DEFINE msg == Head(inbox)
  <2>1. inbox' \in Seq(RequestType) /\ msg \in RequestType
    BY <1>1 DEF ServerReceives, TypeOK
  <2>2. msg \in MessageType /\ (msg.type \in {"Subscribe", "Unsubscribe"} => msg.channel \in Channels)
    BY <2>1, MessagesTyped DEF MessageType
  <2>3. client' \in EntryType
    BY <1>1, <2>2, EntryTyped
       DEF ServerReceives, ServerConnects, ServerForgets, TypeOK, EntryType
  <2>4. subscribers' \subseteq Channels
    BY <1>1, <2>2 DEF ServerReceives, ServerConnects, ServerForgets, TypeOK
  <2>5. failures' \in 0 .. MaxFailures
    BY <1>1, CountsTyped DEF ServerReceives, Fails, TypeOK
  <2> QED BY <1>1, <2>1, <2>3, <2>4, <2>5
          DEF ServerReceives, TypeOK, EntryType, requests, conditions, buffers
<1>2. CASE ServerWrites
  <2>1. client \in EntryType /\ client.outBox \in Seq(MessageType) /\ client.outBox # <<>>
    BY <1>2 DEF ServerWrites, TypeOK, EntryType
  <2>2. Head(client.outBox) \in MessageType /\ Tail(client.outBox) \in Seq(MessageType)
    BY <2>1
  <2>3. queue \in Seq(MessageType) /\ Append(queue, Head(client.outBox)) \in Seq(MessageType)
    BY <2>2 DEF TypeOK
  <2>4. NotKnown \in EntryType
    BY <2>2, EntryTyped
  <2>5. client' \in EntryType /\ queue' \in Seq(MessageType) /\ subscribers' \subseteq Channels
    BY <1>2, <2>1, <2>2, <2>3, <2>4 DEF ServerWrites, ServerForgets, EntryType, TypeOK
  <2> QED BY <1>2, <2>5 DEF ServerWrites, TypeOK, EntryType, requests, conditions, buffers, bounds
<1>3. ASSUME NEW m \in Messages, NEW p \in Pages(m), Publish(m, p) PROVE TypeOK'
  <2>1. Fragment(m, p) \in MessageType
    BY RequestsTyped DEF MessageType
  <2>2. client' \in EntryType
    BY <1>3, <2>1, EntryTyped DEF Publish
  <2>3. published' \subseteq Messages \X Nat
    <3>1. p \in Nat
      BY PagesTyped
    <3> QED BY <1>3, <3>1 DEF Publish, TypeOK
  <2> QED BY <1>3, <2>2, <2>3 DEF Publish, TypeOK, EntryType, requests, conditions, buffers, bounds
<1> QED BY <1>1, <1>2, <1>3 DEF Server

-----------------------------------------------------------------------------
(* One receiver.                                                           *)

\* Steps of neither thread's own counting.
LEMMA ThreadsFrame ==
  ASSUME TInv, UNCHANGED <<fd_, threadRunning_, receiver, attempts>>,
         app' = app \/ (app \notin {"join", "open"} /\ app' \notin {"join", "open", "closing", "close", "crashed"}
                         /\ (fd_ # 0 \/ ~Reading) /\ app # "crashed")
  PROVE  Threads'
BY DEF TInv, Threads, OneReceiver, Reading

LEMMA ThreadsKept == TInv /\ [Next]_vars => Threads'
<1> SUFFICES ASSUME TInv, [Next]_vars PROVE Threads'
  OBVIOUS
<1>0. TypeOK /\ Threads /\ threadRunning_ \in 0 .. 1
  BY DEF TInv, TypeOK
<1>a. fd_ = 0 /\ Reading => app \in {"closing", "close"}
  BY <1>0 DEF Threads
<1>1. CASE disconnect \/ TimesOut
  BY <1>a, <1>1, ThreadsFrame DEF bounds, disconnect, TimesOut
<1>2. CASE CloseLocks
  BY <1>0, <1>2 DEF bounds, CloseLocks, CloseFds, Threads, OneReceiver, Reading
<1>3. CASE CloseTells
  BY <1>0, <1>3 DEF bounds, CloseTells, Threads, OneReceiver, Reading
<1>4. CASE CloseJoins
  BY <1>0, <1>4 DEF bounds, CloseJoins, Threads, OneReceiver, Reading, NoThread
<1>5. CASE ConnectBegins
  <2>1. attempts \in Nat /\ attempts' = attempts + 1
    BY <1>0, <1>5, UnixClientAssumption DEF ConnectBegins, TypeOK
  <2>2. attempts' # 0
    BY <2>1
  <2> QED BY <1>0, <1>5, <2>2 DEF ConnectBegins, ToJoin, Threads, OneReceiver, Reading
<1>6. CASE ConnectJoins
  BY <1>0, <1>6 DEF bounds, ConnectJoins, Threads, OneReceiver, Reading, NoThread
<1>7. CASE Open
  <2>1. receiver.pc = "none" /\ fd_ = 0 /\ threadRunning_ = 0
    BY <1>0, <1>7 DEF Open, Threads, OneReceiver
  <2>2. CASE receiver' = At("loop") /\ threadRunning_' = threadRunning_ + 1 /\ app' = "notice" /\ fd_' = attempts
    <3>1. attempts # 0
      BY <1>0, <1>7 DEF Threads, Open
    <3> QED BY <2>1, <2>2, <3>1 DEF Threads, OneReceiver, Reading, At
  <2>3. CASE app' \in {"idle", "close", "closing"} /\ UNCHANGED <<fd_, receiver, threadRunning_>>
    BY <2>1, <2>3 DEF Threads, OneReceiver, Reading
  <2> QED BY <1>7, <2>2, <2>3 DEF Open
<1>8. CASE Sent \/ NotSent \/ Acknowledged \/ Connected
  <2>1. app \in {"notice", "call", "resubscribe", "wait"}
    BY <1>8 DEF TInv, Asks, Sent, NotSent, Acknowledged, Connected
  <2>2. UNCHANGED <<fd_, threadRunning_, receiver, attempts>> /\ app' \in {app, "wait", "idle", "resubscribe"}
    BY <1>8 DEF bounds, Sent, NotSent, Acknowledged, Connected
  <2> QED BY <1>a, <2>1, <2>2, ThreadsFrame
<1>9. ASSUME NEW c \in Channels, subscribe(c) \/ unsubscribe(c) \/ receiveMsg(c) \/ Resubscribe(c)
      PROVE  Threads'
  <2>1. /\ UNCHANGED <<fd_, threadRunning_, receiver, attempts>> /\ app \in {"idle", "resubscribe"}
        /\ app' \in {app, "call", "idle"}
    BY <1>9 DEF bounds, subscribe, unsubscribe, receiveMsg, Resubscribe
  <2> QED BY <1>a, <2>1, ThreadsFrame
<1>10. CASE Receive
  <2>1. /\ receiver.pc = "loop" /\ UNCHANGED <<app, fd_, threadRunning_, attempts>>
        /\ receiver'.pc \in {"loop", "done", "control", "complete"} /\ (fd_ # 0 => receiver'.pc # "done")
    <3>1. PICK n \in 0 .. Len(fragmentBuffersLRU_) : Round(n)
      BY <1>0, <1>10, RoundTheLoop
    <3>2. receiver.pc = "loop" /\ UNCHANGED <<app, fd_, threadRunning_, attempts>>
      BY <1>0, <1>10, RoundTheLoop
    <3>3. \/ fd_ = 0 /\ receiver' = At("done")
          \/ receiver' = receiver
          \/ receiver' = At("loop")
          \/ receiver' = [pc |-> "complete", msg |-> Head(queue)]
          \/ receiver' = [pc |-> "control", msg |-> Head(queue)]
      BY <3>1 DEF Round, TakeFragment, DropFragment
    <3> QED BY <3>2, <3>3 DEF At
  <2> QED BY <1>0, <2>1 DEF Threads, OneReceiver, Reading
<1>11. CASE ReceiveFails
  BY <1>0, <1>11 DEF bounds, ReceiveFails, CloseFds, Threads, OneReceiver, Reading, At
<1>12. CASE handleControlMsg \/ Complete \/ SetAvailable \/ Report \/ Reported
  <2>1. /\ receiver.pc \in {"loop", "report", "control", "complete", "signal"}
        /\ receiver'.pc \in {"loop", "signal", "report"}
        /\ UNCHANGED <<app, fd_, threadRunning_, attempts>>
    BY <1>0, <1>12 DEF bounds, handleControlMsg, Complete, SetAvailable, Report, Reported, At, TypeOK, ReceiverType
  <2> QED BY <1>0, <2>1 DEF Threads, OneReceiver, Reading
<1>13. CASE ReceiverTells \/ ReceiverEnds
  <2>1. /\ receiver.pc \in {"closing", "closed"} /\ receiver'.pc \in {"closed", "done"}
        /\ UNCHANGED <<app, fd_, threadRunning_, attempts>>
    BY <1>13 DEF bounds, ReceiverTells, ReceiverEnds, At
  <2> QED BY <1>0, <2>1 DEF Threads, OneReceiver, Reading
<1>14. CASE Crash
  BY <1>0, <1>14 DEF bounds, Crash, Threads, OneReceiver, Reading, At
<1>15. CASE Server \/ (\E m \in Messages : \E p \in Pages(m) : Publish(m, p)) \/ UNCHANGED vars
  <2>1. UNCHANGED <<app, fd_, threadRunning_, receiver, attempts>>
    BY <1>15 DEF bounds, Server, ServerReceives, ServerWrites, Publish, vars
  <2> QED BY <2>1, ThreadsFrame
<1> QED BY <1>1, <1>2, <1>3, <1>4, <1>5, <1>6, <1>7, <1>8, <1>9, <1>10, <1>11, <1>12, <1>13, <1>14, <1>15
        DEF Next, Program, Sending, Closing, Connecting, Receiver

LEMMA AsksKept == TInv /\ [Next]_vars => Asks'
<1> SUFFICES ASSUME TInv, [Next]_vars PROVE Asks'
  OBVIOUS
<1>0. Asks
  BY DEF TInv
<1>1. CASE UNCHANGED <<app, request, asking>>
  BY <1>0, <1>1 DEF Asks
<1>2. CASE app \notin {"notice", "call", "resubscribe", "crashed"} /\ app' # "notice" /\ UNCHANGED <<request, asking>>
  BY <1>0, <1>2 DEF Asks
<1>3. CASE Sent \/ NotSent
  <2>1. /\ request' = NoRequest /\ UNCHANGED asking
        /\ app' = app \/ (app # "resubscribe" /\ app' \in {"idle", "wait"}) \/ (app = "notice" /\ app' = "wait")
    BY <1>3 DEF Sent, NotSent
  <2>2. app' # "notice"
    BY <1>0, <1>3 DEF Asks, Sent, NotSent
  <2>3. app # "crashed"
    BY <1>0, <1>3 DEF Asks, Sent, NotSent
  <2> QED BY <1>0, <2>1, <2>2, <2>3 DEF Asks
<1>4. CASE disconnect \/ TimesOut \/ ConnectBegins \/ CloseLocks \/ CloseTells \/ CloseJoins \/ ConnectJoins
  BY <1>2, <1>4 DEF disconnect, TimesOut, ConnectBegins, CloseLocks, CloseTells, CloseJoins,
                    ConnectJoins, requests
<1>5. CASE Open
  BY <1>0, <1>5 DEF Open, Asks
<1>6. CASE Acknowledged
  BY <1>0, <1>6 DEF Acknowledged, Asks
<1>7. CASE Connected
  BY <1>0, <1>7 DEF Connected, Asks, requests
<1>8. ASSUME NEW c \in Channels, NEW t \in {"Subscribe", "Unsubscribe"},
             Ask(Request(t, c)) \/ UNCHANGED <<request, unsent>>
      PROVE  request' = request \/ request'.type \in {"Subscribe", "Unsubscribe"}
  BY <1>8 DEF Ask, Request
<1>9. ASSUME NEW c \in Channels, Resubscribe(c) PROVE Asks'
  BY <1>0, <1>8, <1>9 DEF Resubscribe, Asks
<1>10. ASSUME NEW c \in Channels, subscribe(c) \/ unsubscribe(c) PROVE Asks'
  <2>1. /\ app = "idle" /\ app' = (IF request' # NoRequest THEN "call" ELSE "idle") /\ UNCHANGED asking
        /\ request' = request \/ request'.type \in {"Subscribe", "Unsubscribe"}
    BY <1>8, <1>10 DEF subscribe, unsubscribe
  <2> QED BY <1>0, <2>1 DEF Asks
<1>11. CASE Crash
  BY <1>0, <1>11 DEF Crash, Asks
<1>12. CASE \/ Receiver \/ Report \/ ReceiveFails \/ Server \/ (\E c \in Channels : receiveMsg(c))
            \/ (\E m \in Messages : \E p \in Pages(m) : Publish(m, p)) \/ UNCHANGED vars
  BY <1>1, <1>12 DEF Receiver, Receive, Reported, ReceiverTells, ReceiverEnds, handleControlMsg, Complete,
     SetAvailable, Report, ReceiveFails, Server, ServerReceives, ServerWrites, receiveMsg, Publish, vars, requests
<1> QED BY <1>3, <1>4, <1>5, <1>6, <1>7, <1>9, <1>10, <1>11, <1>12
        DEF Next, Program, Sending, Closing, Connecting

\* The types and the threads together, on which the theorems below rest.
THEOREM TInvAlways == Spec => []TInv
<1>1. Init => TInv
  BY TypeInit DEF Init, TInv, Threads, OneReceiver, Asks, Reading, NoThread
<1>2. TInv /\ [Next]_vars => TInv'
  <2>1. TypeOK /\ UNCHANGED vars => TypeOK'
    BY DEF TypeOK, vars, requests, conditions, buffers, server, bounds
  <2>2. TInv /\ Next => TypeOK'
    <3> SUFFICES ASSUME TInv, TypeOK, Next PROVE TypeOK'
      BY DEF TInv
    <3> QED BY SendingTyped, ClosingTyped, ConnectTyped, CallsTyped, ReceiverKeepsTypes, ServerTyped
            DEF Next, Program
  <2> QED BY <2>1, <2>2, ThreadsKept, AsksKept DEF TInv
<1> QED BY <1>1, <1>2, PTL DEF Spec

\* The state of the client and of its entry at the server keeps its types.
THEOREM TypeOKAlways == Spec => []TypeOK
<1>1. TInv => TypeOK
  BY DEF TInv
<1> QED BY <1>1, TInvAlways, PTL

\* An open socket is read, by one thread, and that thread is joined, whoever closes
\* the connection (UnixClient.cc:104-120, 847-851).
THEOREM OneReceiverAlways == Spec => []OneReceiver
<1>1. TInv => OneReceiver
  BY DEF TInv, Threads
<1> QED BY <1>1, TInvAlways, PTL


-----------------------------------------------------------------------------
(* The condition that the program waits for.                               *)

\* The actions other than receiveMsg that leave the condition as it is add no
\* message, or the one that the receiver is about to signal.
LEMMA SignalKept ==
  ASSUME TInv, Cardinality(Channels) = 1, MessagesAreSignalled, [Next]_vars
  PROVE  MessagesAreSignalled'
<1>0. /\ TypeOK /\ OneReceiver /\ threadRunning_ \in 0 .. 1
      /\ app \in {"join", "open"} => threadRunning_ = 0
      /\ DOMAIN channels_ \subseteq Channels
  BY DEF TInv, TypeOK, Threads
<1>1. PICK one : Channels = {one}
  BY FS_Singleton, UnixClientAssumption
<1>2. CASE receiver'.pc = "signal" \/ messagesAvailableCondition'
  BY <1>2 DEF MessagesAreSignalled
<1>3. CASE /\ UNCHANGED messagesAvailableCondition
           /\ receiver.pc = "signal" => receiver'.pc = "signal"
           /\ Available' => Available
  BY <1>3 DEF MessagesAreSignalled
<1>4. Unacknowledged = [c \in DOMAIN channels_ |-> [channels_[c] EXCEPT !.acknowledged = FALSE]]
  BY DEF Unacknowledged
<1>5. \A c \in DOMAIN channels_ :
        /\ [channels_[c] EXCEPT !.acknowledged = FALSE].completeBuffers = channels_[c].completeBuffers
        /\ [channels_[c] EXCEPT !.acknowledged = TRUE].completeBuffers = channels_[c].completeBuffers
  BY <1>0 DEF TypeOK, ChannelType
<1>6. channels_' \in {channels_, Unacknowledged} => (Available' <=> Available)
  BY <1>4, <1>5 DEF Available
<1>7. CASE CloseJoins \/ ConnectJoins \/ Open
  <2>1. receiver.pc # "signal" \/ receiver' = receiver
    BY <1>0, <1>7 DEF CloseJoins, ConnectJoins, Open, OneReceiver
  <2>2. UNCHANGED messagesAvailableCondition /\ channels_' \in {channels_, Unacknowledged}
    BY <1>7 DEF CloseJoins, ConnectJoins, Open, InitConditions, conditions
  <2> QED BY <1>3, <1>6, <2>1, <2>2
<1>8. CASE ReceiveFails \/ Report \/ Reported \/ ReceiverTells \/ ReceiverEnds \/ Crash
  <2>1. receiver.pc # "signal" /\ UNCHANGED messagesAvailableCondition
        /\ channels_' \in {channels_, Unacknowledged}
    BY <1>8 DEF ReceiveFails, Report, Reported, ReceiverTells, ReceiverEnds, Crash, conditions
  <2> QED BY <1>3, <1>6, <2>1
<1>9. CASE handleControlMsg
  <2>1. Available' => Available
    BY <1>5, <1>9 DEF handleControlMsg, Available
  <2> QED BY <1>3, <1>9, <2>1 DEF handleControlMsg
<1>10. CASE Complete
  <2>1. receiver'.pc = "signal"
    BY <1>0, <1>10 DEF Complete, TypeOK, ReceiverType
  <2> QED BY <1>2, <2>1
<1>11. CASE SetAvailable
  BY <1>2, <1>11 DEF SetAvailable
<1>12. CASE Receive
  BY <1>3, <1>6, <1>12 DEF Receive, conditions
<1>13. ASSUME NEW c \in Channels, subscribe(c) \/ unsubscribe(c) PROVE MessagesAreSignalled'
  <2>1. Available' => Available
    BY <1>13 DEF subscribe, unsubscribe, NewChannel, Available
  <2> QED BY <1>3, <1>13, <2>1 DEF subscribe, unsubscribe, conditions
<1>14. ASSUME NEW c \in Channels, receiveMsg(c) PROVE MessagesAreSignalled'
  <2>1. c = one /\ DOMAIN channels_ = {one} /\ DOMAIN channels_' = {one}
    BY <1>0, <1>1, <1>14 DEF receiveMsg
  <2>2. Available /\ channels_[one] \in ChannelType
    BY <1>0, <1>14, <2>1 DEF receiveMsg, Available, TypeOK
  <2>3. Available' => Tail(channels_[one].completeBuffers) # <<>>
    BY <1>14, <2>1, <2>2 DEF receiveMsg, Available, ChannelType
  <2> QED BY <1>14, <2>1, <2>2, <2>3 DEF receiveMsg, MessagesAreSignalled
<1>15. CASE \/ disconnect \/ ConnectBegins \/ Sending \/ CloseLocks \/ CloseTells \/ Acknowledged
            \/ TimesOut \/ (\E c \in Channels : Resubscribe(c)) \/ Connected
            \/ Server \/ (\E m \in Messages : \E p \in Pages(m) : Publish(m, p)) \/ UNCHANGED vars
  <2>1. UNCHANGED <<channels_, receiver, messagesAvailableCondition>>
    BY <1>15 DEF disconnect, ConnectBegins, Sending, Sent, NotSent, CloseLocks, CloseTells, Acknowledged,
       TimesOut, Resubscribe, Connected, Server, ServerReceives, ServerWrites, Publish, vars, conditions
  <2> QED BY <1>3, <1>6, <2>1
<1> QED BY <1>7, <1>8, <1>9, <1>10, <1>11, <1>12, <1>13, <1>14, <1>15
        DEF Next, Program, Closing, Connecting, Receiver

\* A client of one channel, whatever it is called with, does not wait for a condition
\* that is unset while a message is there to be taken: the receiver queues under a
\* mutex and signals without it, and receiveMsg unsets after the last message only
\* (UnixClient.cc:529-532).
THEOREM OneChannelIsSignalledAlways == Spec => []OneChannelIsSignalled
<1>1. Init => OneChannelIsSignalled
  BY DEF Init, OneChannelIsSignalled, MessagesAreSignalled, Available
<1>2. TInv /\ OneChannelIsSignalled /\ [Next]_vars => OneChannelIsSignalled'
  BY SignalKept DEF OneChannelIsSignalled
<1> QED BY <1>1, <1>2, TInvAlways, PTL DEF Spec
-----------------------------------------------------------------------------
(***************************************************************************)
(* The list which pruning reads holds every incomplete message, once: a    *)
(* place in a list is known by the member found there.                     *)
(***************************************************************************)
LEMMA PrunedList ==
  ASSUME NEW q \in Seq(Messages), IsInjective(q), NEW n \in 0 .. Len(q)
  PROVE  LET rest == SubSeq(q, n + 1, Len(q))
         IN  /\ rest \in Seq(Messages) /\ IsInjective(rest)
             /\ ToSet(rest) = ToSet(q) \ ToSet(SubSeq(q, 1, n))
<1> DEFINE rest == SubSeq(q, n + 1, Len(q))
           gone == SubSeq(q, 1, n)
<1>1. /\ rest \in Seq(Messages) /\ DOMAIN rest = 1 .. Len(q) - n /\ DOMAIN q = 1 .. Len(q)
      /\ \A i \in 1 .. Len(q) - n : rest[i] = q[i + n]
      /\ DOMAIN gone = 1 .. n /\ \A i \in 1 .. n : gone[i] = q[i]
      /\ n \in Nat /\ Len(q) \in Nat /\ n <= Len(q)
  OBVIOUS
<1> HIDE DEF rest, gone
<1>2. IsInjective(rest)
  <2> SUFFICES ASSUME NEW i \in 1 .. Len(q) - n, NEW j \in 1 .. Len(q) - n, rest[i] = rest[j]
               PROVE  i = j
    BY <1>1 DEF IsInjective
  <2>1. i + n \in DOMAIN q /\ j + n \in DOMAIN q /\ q[i + n] = q[j + n]
    BY <1>1
  <2>2. i + n = j + n
    BY <2>1 DEF IsInjective
  <2> QED BY <1>1, <2>2
<1>3. ASSUME NEW x, x \in ToSet(rest) PROVE x \in ToSet(q) /\ x \notin ToSet(gone)
  <2>1. PICK i \in 1 .. Len(q) - n : x = q[i + n]
    BY <1>1, <1>3 DEF ToSet
  <2>2. i + n \in DOMAIN q /\ i + n > n
    BY <1>1
  <2>3. \A j \in 1 .. n : j \in DOMAIN q /\ j # i + n
    BY <1>1, <2>2
  <2> QED BY <1>1, <2>1, <2>2, <2>3 DEF ToSet, IsInjective
<1>4. ASSUME NEW x, x \in ToSet(q), x \notin ToSet(gone) PROVE x \in ToSet(rest)
  <2>1. PICK i \in 1 .. Len(q) : x = q[i]
    BY <1>1, <1>4 DEF ToSet
  <2>2. i \notin 1 .. n
    BY <1>1, <1>4, <2>1 DEF ToSet
  <2>3. i - n \in 1 .. Len(q) - n /\ i - n + n = i
    BY <1>1, <2>2
  <2> QED BY <1>1, <2>1, <2>3 DEF ToSet
<1> QED BY <1>1, <1>2, <1>3, <1>4 DEF rest, gone

LEMMA ConcatIs ==
  ASSUME NEW a \in Seq(Messages), NEW b \in Seq(Messages)
  PROVE  /\ a \o b \in Seq(Messages) /\ Len(a \o b) = Len(a) + Len(b)
         /\ \A i \in 1 .. Len(a) : (a \o b)[i] = a[i]
         /\ \A i \in Len(a) + 1 .. Len(a) + Len(b) : (a \o b)[i] = b[i - Len(a)]
OBVIOUS

LEMMA OffListIs ==
  ASSUME NEW q \in Seq(Messages), IsInjective(q), NEW m
  PROVE  /\ OffList(q, m) \in Seq(Messages) /\ IsInjective(OffList(q, m))
         /\ ToSet(OffList(q, m)) = ToSet(q) \ {m}
<1>1. CASE m \notin ToSet(q)
  BY <1>1 DEF OffList
<1>2. CASE m \in ToSet(q)
  <2> DEFINE k == CHOOSE i \in DOMAIN q : q[i] = m
             r == OffList(q, m)
  <2>1. k \in 1 .. Len(q) /\ q[k] = m
    BY <1>2 DEF ToSet
  <2> HIDE DEF k
  <2>2. r = SubSeq(q, 1, k - 1) \o SubSeq(q, k + 1, Len(q))
    BY <1>2 DEF OffList, RemoveAt, k
  <2>3. /\ r \in Seq(Messages) /\ DOMAIN r = 1 .. Len(q) - 1 /\ DOMAIN q = 1 .. Len(q)
        /\ \A i \in 1 .. Len(q) - 1 : r[i] = IF i < k THEN q[i] ELSE q[i + 1]
        /\ k \in Nat /\ Len(q) \in Nat
    <3> DEFINE a == SubSeq(q, 1, k - 1)
               b == SubSeq(q, k + 1, Len(q))
    <3>1. /\ a \in Seq(Messages) /\ Len(a) = k - 1 /\ \A i \in 1 .. k - 1 : a[i] = q[i]
          /\ b \in Seq(Messages) /\ Len(b) = Len(q) - k
          /\ \A i \in 1 .. Len(q) - k : b[i] = q[i + k]
      BY <2>1
    <3> HIDE DEF a, b
    <3>2. /\ a \o b \in Seq(Messages) /\ Len(a \o b) = Len(q) - 1
          /\ \A i \in 1 .. Len(q) - 1 : (a \o b)[i] = IF i < k THEN a[i] ELSE b[i - (k - 1)]
      <4>1. /\ a \o b \in Seq(Messages) /\ Len(a \o b) = Len(a) + Len(b)
            /\ \A i \in 1 .. Len(a) : (a \o b)[i] = a[i]
            /\ \A i \in Len(a) + 1 .. Len(a) + Len(b) : (a \o b)[i] = b[i - Len(a)]
        BY <3>1, ConcatIs
      <4> HIDE DEF r
      <4> QED BY <2>1, <3>1, <4>1
    <3>3. \A i \in 1 .. Len(q) - 1 : (a \o b)[i] = IF i < k THEN q[i] ELSE q[i + 1]
      BY <2>1, <3>1, <3>2
    <3>4. r = a \o b
      BY <2>2 DEF a, b
    <3> HIDE DEF r
    <3> QED BY <2>1, <3>2, <3>3, <3>4
  <2> HIDE DEF r
  <2>4. \A i \in 1 .. Len(q) - 1 : \E j \in DOMAIN q :
          /\ r[i] = q[j] /\ j # k
          /\ i < k => j = i
          /\ i >= k => j = i + 1
    BY <2>1, <2>3
  <2>5. IsInjective(r)
    <3> SUFFICES ASSUME NEW a \in 1 .. Len(q) - 1, NEW b \in 1 .. Len(q) - 1, r[a] = r[b]
                 PROVE  a = b
      BY <2>3 DEF IsInjective
    <3>1. PICK i \in DOMAIN q : r[a] = q[i] /\ i # k /\ (a < k => i = a) /\ (a >= k => i = a + 1)
      BY <2>4
    <3>2. PICK j \in DOMAIN q : r[b] = q[j] /\ j # k /\ (b < k => j = b) /\ (b >= k => j = b + 1)
      BY <2>4
    <3>3. i = j
      BY <3>1, <3>2 DEF IsInjective
    <3> QED BY <2>1, <2>3, <3>1, <3>2, <3>3
  <2>6. ASSUME NEW x, x \in ToSet(r) PROVE x \in ToSet(q) /\ x # m
    BY <2>1, <2>3, <2>4, <2>6 DEF ToSet, IsInjective
  <2>7. ASSUME NEW x, x \in ToSet(q), x # m PROVE x \in ToSet(r)
    <3>1. PICK i \in 1 .. Len(q) : x = q[i] /\ i # k
      BY <2>1, <2>3, <2>7 DEF ToSet
    <3>2. CASE i < k
      BY <2>1, <2>3, <3>1, <3>2 DEF ToSet
    <3>3. CASE i > k
      <4>1. i - 1 \in 1 .. Len(q) - 1 /\ r[i - 1] = q[i]
        BY <2>1, <2>3, <3>3
      <4> QED BY <2>3, <3>1, <4>1 DEF ToSet
    <3> QED BY <2>1, <2>3, <3>1, <3>2, <3>3
  <2> QED BY <2>3, <2>5, <2>6, <2>7 DEF r
<1> QED BY <1>1, <1>2

LEMMA AppendIs ==
  ASSUME NEW T, NEW q \in Seq(T), IsInjective(q), NEW m \in T, m \notin ToSet(q)
  PROVE  IsInjective(Append(q, m)) /\ ToSet(Append(q, m)) = ToSet(q) \union {m}
<1> DEFINE r == Append(q, m)
<1>1. /\ DOMAIN r = 1 .. Len(q) + 1 /\ DOMAIN q = 1 .. Len(q) /\ Len(q) \in Nat
      /\ r[Len(q) + 1] = m /\ \A i \in 1 .. Len(q) : r[i] = q[i] /\ i \in 1 .. Len(q) + 1
  OBVIOUS
<1> HIDE DEF r
<1>2. \A i \in DOMAIN r : (i = Len(q) + 1 /\ r[i] = m) \/ (i \in DOMAIN q /\ r[i] = q[i])
  BY <1>1
<1>3. IsInjective(r)
  BY <1>2 DEF IsInjective, ToSet
<1>4. ToSet(r) = ToSet(q) \union {m}
  <2>1. \A x \in ToSet(r) : x \in ToSet(q) \union {m}
    BY <1>2 DEF ToSet
  <2>2. Len(q) + 1 \in DOMAIN r
    BY <1>1
  <2>3. m \in ToSet(r) /\ \A x \in ToSet(q) : x \in ToSet(r)
    BY <1>1, <2>2 DEF ToSet
  <2> QED BY <2>1, <2>3
<1> QED BY <1>3, <1>4 DEF r

-----------------------------------------------------------------------------
Listed(held, lru) ==
  /\ lru \in Seq(Messages) /\ IsInjective(lru)
  /\ ToSet(lru) = {m \in Messages : held[m] # <<>>} \ offList

BeingTaken == receiver.pc \in {"complete", "signal"}

LEMMA TakeKeeps ==
  ASSUME NEW f \in FragmentType, NEW held \in [Messages -> Seq(Nat)], NEW lru, Listed(held, lru),
         TakeFragment(f, held, lru)
  PROVE  IncompleteArePruned'
<1> DEFINE m == f.msg
           pages == Append(held[m], f.page)
           off == OffList(lru, m)
           nowHeld == {x \in Messages : fragmentBuffers_'[x] # <<>>}
<1>1. m \in Messages /\ f.page \in Nat /\ held[m] \in Seq(Nat)
  BY MessagesTyped
<1>2. pages # <<>>
  <2>1. Len(pages) = Len(held[m]) + 1 /\ Len(held[m]) \in Nat
    BY <1>1
  <2> HIDE DEF pages
  <2> QED BY <2>1
<1>3. off \in Seq(Messages) /\ IsInjective(off) /\ ToSet(off) = ToSet(lru) \ {m}
  BY OffListIs DEF Listed
<1>4. nowHeld \ offList' = ToSet(lru) \union {m}
  BY <1>1, <1>2 DEF TakeFragment, Listed
<1> HIDE DEF off, nowHeld
<1>5. CASE IsComplete(m, pages)
  <2>1. fragmentBuffersLRU_' = off /\ receiver' = [pc |-> "complete", msg |-> f]
    BY <1>5 DEF TakeFragment, Relisted, off
  <2>2. ToSet(fragmentBuffersLRU_') = (nowHeld \ offList') \ {m}
    BY <1>3, <1>4, <2>1
  <2> QED BY <1>3, <2>1, <2>2 DEF IncompleteArePruned, nowHeld
<1>6. CASE ~IsComplete(m, pages)
  <2>1. fragmentBuffersLRU_' = Append(off, m) /\ receiver' = At("loop")
    BY <1>6 DEF TakeFragment, Relisted, off
  <2>2. IsInjective(Append(off, m)) /\ ToSet(Append(off, m)) = ToSet(off) \union {m}
    BY <1>1, <1>3, AppendIs
  <2>3. ToSet(fragmentBuffersLRU_') = nowHeld \ offList'
    BY <1>3, <1>4, <2>1, <2>2
  <2> QED BY <2>1, <2>2, <2>3 DEF IncompleteArePruned, nowHeld, At
<1> QED BY <1>5, <1>6

\* What is off the list after a damaged fragment is known to be.
LEMMA DropKeeps ==
  ASSUME NEW f \in FragmentType, NEW held \in [Messages -> Seq(Nat)], NEW lru, Listed(held, lru),
         DropFragment(f, held, lru), receiver.pc = "loop"
  PROVE  IncompleteArePruned'
<1> DEFINE m == f.msg
           off == OffList(lru, m)
           nowHeld == {x \in Messages : fragmentBuffers_'[x] # <<>>}
<1>1. off \in Seq(Messages) /\ IsInjective(off) /\ ToSet(off) = ToSet(lru) \ {m}
  BY OffListIs DEF Listed
<1>2. nowHeld \ offList' = ToSet(lru) \ {m}
  BY MessagesTyped DEF DropFragment, Listed
<1>3. fragmentBuffersLRU_' = off /\ receiver'.pc = "loop"
  BY DEF DropFragment
<1> QED BY <1>1, <1>2, <1>3 DEF IncompleteArePruned

LEMMA KeptIsListed ==
  ASSUME TypeOK, IncompleteArePruned, receiver.pc = "loop", NEW n \in 0 .. Len(fragmentBuffersLRU_)
  PROVE  Listed(Kept(n), Left(n))
<1> DEFINE q == fragmentBuffersLRU_
<1>1. /\ q \in Seq(Messages) /\ fragmentBuffers_ \in [Messages -> Seq(Nat)]
      /\ IsInjective(q) /\ ToSet(q) = {m \in Messages : fragmentBuffers_[m] # <<>>} \ offList
  BY DEF TypeOK, IncompleteArePruned
<1>2. Left(n) \in Seq(Messages) /\ IsInjective(Left(n)) /\ ToSet(Left(n)) = ToSet(q) \ Stale(n)
  BY <1>1, PrunedList DEF Left, Stale
<1> HIDE DEF q
<1>3. ToSet(Left(n)) = {m \in Messages : Kept(n)[m] # <<>>} \ offList
  BY <1>1, <1>2 DEF Kept
<1> QED BY <1>2, <1>3 DEF Listed

LEMMA ReceiveBuffers == ASSUME TInv, IncompleteArePruned, Receive PROVE IncompleteArePruned'
<1>1. PICK n \in 0 .. Len(fragmentBuffersLRU_) : Round(n)
  BY RoundTheLoop DEF TInv
<1>2. /\ receiver.pc = "loop" /\ TypeOK
      /\ queue # <<>> => Head(queue) \in MessageType /\ Tail(queue) \in Seq(MessageType)
  BY RoundTheLoop DEF TInv
<1>3. Listed(Kept(n), Left(n)) /\ Kept(n) \in [Messages -> Seq(Nat)]
  BY <1>2, KeptIsListed, KeptTyped
<1>4. CASE Keeps(n) /\ receiver'.pc \in {"loop", "done", "control"}
  BY <1>3, <1>4 DEF Keeps, IncompleteArePruned, Listed
<1>5. CASE queue # <<>> /\ Head(queue).type = "Fragment" /\ TakeFragment(Head(queue), Kept(n), Left(n))
  BY <1>2, <1>3, <1>5, TakeKeeps, MessagesTyped
<1>6. CASE queue # <<>> /\ Head(queue).type = "Fragment" /\ DropFragment(Head(queue), Kept(n), Left(n))
  BY <1>2, <1>3, <1>6, DropKeeps, MessagesTyped
<1> QED BY <1>1, <1>2, <1>4, <1>5, <1>6 DEF Round, At

LEMMA PrunedKept == TInv /\ IncompleteArePruned /\ [Next]_vars => IncompleteArePruned'
<1> SUFFICES ASSUME TInv, IncompleteArePruned, [Next]_vars PROVE IncompleteArePruned'
  OBVIOUS
<1>0. TypeOK /\ OneReceiver /\ threadRunning_ \in 0 .. 1 /\ (app \in {"join", "open"} => threadRunning_ = 0)
  BY DEF TInv, TypeOK, Threads
<1>1. CASE UNCHANGED buffers /\ ~BeingTaken /\ ~BeingTaken'
  BY <1>1 DEF IncompleteArePruned, buffers, BeingTaken
<1>2. CASE UNCHANGED buffers /\ (BeingTaken' <=> BeingTaken) /\ (BeingTaken => UNCHANGED receiver.msg)
  BY <1>2 DEF IncompleteArePruned, buffers, BeingTaken
<1>3. CASE SetAvailable
  <2> DEFINE m == receiver.msg.msg
  <2>1. m \in Messages
    BY <1>0, <1>3, ReceiverTyped, MessagesTyped DEF SetAvailable, TypeOK
  <2>2. \A x \in Messages : fragmentBuffers_'[x] = IF x = m THEN <<>> ELSE fragmentBuffers_[x]
    BY <1>0, <1>3 DEF SetAvailable, TypeOK
  <2>3. UNCHANGED <<fragmentBuffersLRU_, offList>> /\ receiver.pc = "signal" /\ receiver'.pc = "loop"
    BY <1>3 DEF SetAvailable, At
  <2> HIDE DEF m
  <2>4. ToSet(fragmentBuffersLRU_) = ({x \in Messages : fragmentBuffers_[x] # <<>>} \ offList) \ {m}
    BY <2>3 DEF IncompleteArePruned, m
  <2>5. ToSet(fragmentBuffersLRU_') = {x \in Messages : fragmentBuffers_'[x] # <<>>} \ offList'
    BY <2>1, <2>2, <2>3, <2>4
  <2> QED BY <2>3, <2>5 DEF IncompleteArePruned
<1>4. CASE CloseJoins \/ ConnectJoins \/ Open
  <2>1. UNCHANGED buffers /\ ~BeingTaken
    BY <1>0, <1>4 DEF CloseJoins, ConnectJoins, Open, OneReceiver, BeingTaken
  <2>2. receiver' = receiver \/ receiver'.pc \in {"none", "loop"}
    BY <1>4 DEF CloseJoins, ConnectJoins, Open, NoThread, At
  <2> QED BY <1>1, <2>1, <2>2 DEF BeingTaken
<1>5. CASE ReceiveFails \/ handleControlMsg \/ Report \/ Reported \/ ReceiverTells \/ ReceiverEnds \/ Crash
  BY <1>1, <1>5 DEF ReceiveFails, handleControlMsg, Report, Reported, ReceiverTells, ReceiverEnds, Crash,
                    At, BeingTaken
<1>6. CASE Complete
  <2>1. receiver'.pc = "signal" /\ receiver'.msg = receiver.msg /\ receiver.pc = "complete"
    BY <1>0, <1>6 DEF Complete, TypeOK, ReceiverType
  <2> QED BY <1>2, <1>6, <2>1 DEF Complete, BeingTaken
<1>7. CASE UNCHANGED <<buffers, receiver>>
  BY <1>2, <1>7 DEF BeingTaken
<1>8. CASE Receive
  BY <1>8, ReceiveBuffers
<1>9. CASE \/ disconnect \/ ConnectBegins \/ Sending \/ CloseLocks \/ CloseTells \/ Acknowledged \/ TimesOut
           \/ (\E c \in Channels : Resubscribe(c)) \/ Connected
           \/ (\E c \in Channels : subscribe(c) \/ unsubscribe(c) \/ receiveMsg(c))
           \/ Server \/ (\E m \in Messages : \E p \in Pages(m) : Publish(m, p)) \/ UNCHANGED vars
  BY <1>7, <1>9 DEF disconnect, ConnectBegins, Sending, Sent, NotSent, CloseLocks, CloseTells, Acknowledged,
     TimesOut, Resubscribe, Connected, subscribe, unsubscribe, receiveMsg, Server, ServerReceives,
     ServerWrites, Publish, vars
<1> QED BY <1>3, <1>4, <1>5, <1>6, <1>8, <1>9 DEF Next, Program, Closing, Connecting, Receiver

\* Every incomplete message is on the list that pruning reads, once, but for those of
\* which the last fragment was damaged (773-776), and the one that is being handed over
\* is not (UnixClient.cc:680-684, 768).
THEOREM IncompleteArePrunedAlways == Spec => []IncompleteArePruned
<1>1. Init => IncompleteArePruned
  <2> SUFFICES ASSUME Init PROVE IncompleteArePruned
    OBVIOUS
  <2>1. fragmentBuffersLRU_ = <<>> /\ receiver.pc = "none" /\ \A m \in Messages : fragmentBuffers_[m] = <<>>
    BY DEF Init, NoThread
  <2>2. ToSet(<<>>) = {} /\ IsInjective(<<>>)
    BY DEF ToSet, IsInjective
  <2>3. {m \in Messages : fragmentBuffers_[m] # <<>>} = {}
    BY <2>1
  <2> QED BY <2>1, <2>2, <2>3 DEF IncompleteArePruned
<1> QED BY <1>1, PrunedKept, TInvAlways, PTL DEF Spec


-----------------------------------------------------------------------------
(***************************************************************************)
(* Where a page is: on its way in the outBox or in the socket, in the      *)
(* buffer of its message, or part of a complete message.  It is published  *)
(* once, so it is in one place at a time.                                  *)
(***************************************************************************)
IsPage(f) == f.type = "Fragment"
PageOf(f) == <<f.msg, f.page>>

PagesIn(s) == {PageOf(s[i]) : i \in {j \in DOMAIN s : IsPage(s[j])}}
EachOnceIn(s) == \A i, j \in DOMAIN s : IsPage(s[i]) /\ IsPage(s[j]) /\ PageOf(s[i]) = PageOf(s[j]) => i = j

OnTheWay == PagesIn(queue) \union PagesIn(client.outBox)
Arrived  == published \ OnTheWay

PagesTravelOnce ==
  /\ EachOnceIn(queue) /\ EachOnceIn(client.outBox)
  /\ PagesIn(queue) \intersect PagesIn(client.outBox) = {}
  /\ OnTheWay \subseteq published

BuffersHoldOnce ==
  \A m \in Messages : /\ IsInjective(fragmentBuffers_[m])
                      /\ \A p \in ToSet(fragmentBuffers_[m]) : p \in Pages(m) /\ <<m, p>> \in Arrived

\* The messages all of whose pages have arrived, and the one about to be queued.
AllArrived == {m \in Messages : \A p \in Pages(m) : <<m, p>> \in Arrived}
ToQueue    == IF receiver.pc = "complete" THEN {receiver.msg.msg} ELSE {}

GoodQueue(c, q, S) ==
  /\ \A i \in DOMAIN q : q[i].msg \in S /\ ToSet(q[i].pages) = Pages(q[i].msg) /\ q[i].msg[1] = c
  /\ \A i, j \in DOMAIN q : q[i].msg = q[j].msg => i = j

QueuesAreGood ==
  \A c \in DOMAIN channels_ : GoodQueue(c, channels_[c].completeBuffers, AllArrived \ ToQueue)

\* The buffer in the receiver's hands has all pages until it is dropped.
InHandIsFull ==
  BeingTaken => Len(fragmentBuffers_[receiver.msg.msg]) = totalPages[receiver.msg.msg[2]]

PagesInv == PagesTravelOnce /\ BuffersHoldOnce /\ InHandIsFull /\ QueuesAreGood

LEMMA NoPages == PagesIn(<<>>) = {} /\ EachOnceIn(<<>>)
BY DEF PagesIn, EachOnceIn

LEMMA PagesAppend ==
  ASSUME NEW s \in Seq(MessageType), NEW f \in MessageType, EachOnceIn(s),
         IsPage(f) => PageOf(f) \notin PagesIn(s)
  PROVE  /\ EachOnceIn(Append(s, f))
         /\ PagesIn(Append(s, f)) = PagesIn(s) \union (IF IsPage(f) THEN {PageOf(f)} ELSE {})
<1> DEFINE r == Append(s, f)
<1>1. /\ DOMAIN r = 1 .. Len(s) + 1 /\ DOMAIN s = 1 .. Len(s) /\ Len(s) \in Nat
      /\ r[Len(s) + 1] = f /\ \A i \in 1 .. Len(s) : r[i] = s[i]
  OBVIOUS
<1> HIDE DEF r
<1>2. /\ \A i \in DOMAIN r : (i = Len(s) + 1 /\ r[i] = f) \/ (i \in DOMAIN s /\ r[i] = s[i])
      /\ Len(s) + 1 \in DOMAIN r /\ \A i \in DOMAIN s : i \in DOMAIN r /\ r[i] = s[i]
  BY <1>1
<1>3. \A i \in DOMAIN s : IsPage(s[i]) => PageOf(s[i]) \in PagesIn(s)
  BY DEF PagesIn
<1>4. EachOnceIn(r)
  <2> SUFFICES ASSUME NEW i \in DOMAIN r, NEW j \in DOMAIN r, IsPage(r[i]), IsPage(r[j]),
                      PageOf(r[i]) = PageOf(r[j])
               PROVE  i = j
    BY DEF EachOnceIn
  <2>1. CASE i \in DOMAIN s /\ r[i] = s[i] /\ j \in DOMAIN s /\ r[j] = s[j]
    BY <2>1 DEF EachOnceIn
  <2>2. CASE i = Len(s) + 1 /\ r[i] = f /\ j \in DOMAIN s /\ r[j] = s[j]
    BY <1>3, <2>2
  <2>3. CASE j = Len(s) + 1 /\ r[j] = f /\ i \in DOMAIN s /\ r[i] = s[i]
    BY <1>3, <2>3
  <2>4. CASE i = Len(s) + 1 /\ j = Len(s) + 1
    BY <2>4
  <2> QED BY <1>2, <2>1, <2>2, <2>3, <2>4
<1>5. PagesIn(r) = PagesIn(s) \union (IF IsPage(f) THEN {PageOf(f)} ELSE {})
  <2>1. ASSUME NEW x \in PagesIn(r)
        PROVE  x \in PagesIn(s) \/ (IsPage(f) /\ x = PageOf(f))
    <3>1. PICK i \in DOMAIN r : IsPage(r[i]) /\ x = PageOf(r[i])
      BY DEF PagesIn
    <3> QED BY <1>2, <1>3, <3>1
  <2>2. ASSUME NEW x \in PagesIn(s) PROVE x \in PagesIn(r)
    <3>1. PICK i \in DOMAIN s : IsPage(s[i]) /\ x = PageOf(s[i])
      BY DEF PagesIn
    <3>2. i \in DOMAIN r /\ IsPage(r[i]) /\ x = PageOf(r[i])
      BY <1>2, <3>1
    <3> QED BY <3>2 DEF PagesIn
  <2>3. IsPage(f) => PageOf(f) \in PagesIn(r)
    <3>1. Len(s) + 1 \in DOMAIN r /\ r[Len(s) + 1] = f
      BY <1>1, <1>2
    <3> QED BY <3>1 DEF PagesIn
  <2> QED BY <2>1, <2>2, <2>3
<1> QED BY <1>4, <1>5 DEF r

LEMMA PagesTail ==
  ASSUME NEW s \in Seq(MessageType), s # <<>>, EachOnceIn(s)
  PROVE  /\ EachOnceIn(Tail(s))
         /\ PagesIn(Tail(s)) = PagesIn(s) \ (IF IsPage(Head(s)) THEN {PageOf(Head(s))} ELSE {})
<1> DEFINE r == Tail(s)
<1>1. /\ DOMAIN r = 1 .. Len(s) - 1 /\ DOMAIN s = 1 .. Len(s) /\ Len(s) \in Nat \ {0}
      /\ s[1] = Head(s) /\ \A i \in 1 .. Len(s) - 1 : r[i] = s[i + 1]
  OBVIOUS
<1> HIDE DEF r
<1>2. /\ \A i \in DOMAIN r : i + 1 \in DOMAIN s /\ i + 1 # 1 /\ r[i] = s[i + 1] /\ i \in Int
      /\ 1 \in DOMAIN s
      /\ \A i \in DOMAIN s : i # 1 => i - 1 \in DOMAIN r /\ r[i - 1] = s[i]
  BY <1>1
<1>3. EachOnceIn(r)
  <2> SUFFICES ASSUME NEW i \in DOMAIN r, NEW j \in DOMAIN r, IsPage(r[i]), IsPage(r[j]),
                      PageOf(r[i]) = PageOf(r[j])
               PROVE  i = j
    BY DEF EachOnceIn
  <2>1. i + 1 = j + 1
    BY <1>2 DEF EachOnceIn
  <2> QED BY <1>2, <2>1
<1>4. ASSUME NEW x \in PagesIn(r)
      PROVE  x \in PagesIn(s) /\ (IsPage(Head(s)) => x # PageOf(Head(s)))
  <2>1. PICK i \in DOMAIN r : IsPage(r[i]) /\ x = PageOf(r[i])
    BY DEF PagesIn
  <2>2. i + 1 \in DOMAIN s /\ i + 1 # 1 /\ IsPage(s[i + 1]) /\ x = PageOf(s[i + 1])
    BY <1>2, <2>1
  <2> QED BY <1>1, <1>2, <2>2 DEF PagesIn, EachOnceIn
<1>5. ASSUME NEW x \in PagesIn(s), IsPage(Head(s)) => x # PageOf(Head(s))
      PROVE  x \in PagesIn(r)
  <2>1. PICK i \in DOMAIN s : IsPage(s[i]) /\ x = PageOf(s[i])
    BY DEF PagesIn
  <2>2. i - 1 \in DOMAIN r /\ IsPage(r[i - 1]) /\ x = PageOf(r[i - 1])
    BY <1>1, <1>2, <1>5, <2>1
  <2> QED BY <2>2 DEF PagesIn
<1> QED BY <1>3, <1>4, <1>5 DEF r

\* As many different pages as the message has are all of them.
LEMMA AllPages ==
  ASSUME NEW m \in Messages, NEW q \in Seq(Nat), IsInjective(q), Len(q) = totalPages[m[2]],
         ToSet(q) \subseteq Pages(m)
  PROVE  ToSet(q) = Pages(m)
<1> DEFINE P == Pages(m)
<1>1. IsFiniteSet(P)
  <2>1. totalPages[m[2]] \in Int /\ 1 \in Int
    BY PagesTyped
  <2> QED BY <2>1, FS_Interval DEF Pages
<1>2. DOMAIN q = P
  BY PagesTyped DEF Pages
<1>3. q \in [P -> P]
  <2>1. \A i \in DOMAIN q : q[i] \in P
    BY DEF ToSet
  <2>2. q = [i \in DOMAIN q |-> q[i]]
    OBVIOUS
  <2> HIDE DEF P
  <2> QED BY <1>2, <2>1, <2>2
<1> HIDE DEF P
<1>4. q \in Injection(P, P)
  BY <1>2, <1>3 DEF IsInjective, Injection
<1>5. q \in Surjection(P, P)
  BY <1>1, <1>4, FS_Injection
<1> QED BY <1>2, <1>5 DEF Surjection, ToSet, P

-----------------------------------------------------------------------------
(* The pages on their way.                                                 *)

LEMMA TravelStep ==
  ASSUME TInv, PagesTravelOnce, [Next]_vars
  PROVE  PagesTravelOnce' /\ Arrived \subseteq Arrived'
<1> DEFINE out == client.outBox
<1>0. /\ queue \in Seq(MessageType) /\ out \in Seq(MessageType) /\ inbox \in Seq(RequestType)
      /\ EachOnceIn(queue) /\ EachOnceIn(out) /\ PagesIn(queue) \intersect PagesIn(out) = {}
      /\ OnTheWay = PagesIn(queue) \union PagesIn(out) /\ OnTheWay \subseteq published
  BY DEF TInv, TypeOK, PagesTravelOnce, OnTheWay
<1> HIDE DEF out
<1>1. /\ out = client.outBox /\ out' = client'.outBox
      /\ OnTheWay' = PagesIn(queue') \union PagesIn(out')
  BY DEF out, OnTheWay
<1>2. CASE /\ EachOnceIn(queue') /\ EachOnceIn(out') /\ UNCHANGED published
           /\ PagesIn(queue') \subseteq PagesIn(queue) /\ PagesIn(out') \subseteq PagesIn(out)
  BY <1>0, <1>1, <1>2 DEF PagesTravelOnce, Arrived, out
<1>3. ASSUME NEW f \in RequestType
      PROVE  /\ EachOnceIn(<<f>>) /\ PagesIn(<<f>>) = {}
             /\ EachOnceIn(Append(out, f)) /\ PagesIn(Append(out, f)) = PagesIn(out)
  <2>1. f \in MessageType /\ ~IsPage(f)
    BY MessagesTyped DEF MessageType, IsPage
  <2>2. <<>> \in Seq(MessageType) /\ Append(<<>>, f) = <<f>>
    OBVIOUS
  <2>3. EachOnceIn(Append(<<>>, f)) /\ PagesIn(Append(<<>>, f)) = {}
    BY <2>1, <2>2, NoPages, PagesAppend
  <2>4. EachOnceIn(Append(out, f)) /\ PagesIn(Append(out, f)) = PagesIn(out)
    BY <1>0, <2>1, PagesAppend
  <2> QED BY <2>2, <2>3, <2>4
<1>4. CASE UNCHANGED <<queue, out, published>>
  BY <1>0, <1>2, <1>4
<1>5. CASE queue' = <<>> /\ UNCHANGED <<client, published>>
  BY <1>0, <1>1, <1>2, <1>5, NoPages
<1>6. CASE ServerReceives
  <2>1. Head(inbox) \in RequestType
    BY <1>0, <1>6 DEF ServerReceives
  <2>2. out' \in {out, <<>>, <<Head(inbox)>>, Append(out, Head(inbox))}
    BY <1>1, <1>6 DEF ServerReceives, ServerConnects, ServerForgets, NotKnown, TInv, TypeOK
  <2>3. UNCHANGED <<queue, published>>
    BY <1>6 DEF ServerReceives
  <2> QED BY <1>0, <1>2, <1>3, <2>1, <2>2, <2>3, NoPages
<1>7. CASE ServerWrites
  <2> DEFINE f == Head(out)
             P == IF IsPage(f) THEN {PageOf(f)} ELSE {}
  <2>1. out # <<>> /\ f \in MessageType /\ UNCHANGED published
    BY <1>0, <1>1, <1>7 DEF ServerWrites
  <2>2. \/ queue' = Append(queue, f) /\ out' = Tail(out)
        \/ queue' = queue /\ out' = <<>>
    BY <1>1, <1>7 DEF ServerWrites, ServerForgets, NotKnown, TInv, TypeOK
  <2>3. EachOnceIn(Tail(out)) /\ PagesIn(Tail(out)) = PagesIn(out) \ P
    BY <1>0, <2>1, PagesTail
  <2>4. IsPage(f) => PageOf(f) \in PagesIn(out)
    <3>1. 1 \in DOMAIN out /\ out[1] = f
      BY <1>0, <2>1
    <3> QED BY <3>1 DEF PagesIn
  <2>5. EachOnceIn(Append(queue, f)) /\ PagesIn(Append(queue, f)) = PagesIn(queue) \union P
    BY <1>0, <2>1, <2>4, PagesAppend
  <2>6. P \subseteq PagesIn(out)
    BY <2>4
  <2> HIDE DEF f, P
  <2>7. CASE queue' = Append(queue, f) /\ out' = Tail(out)
    <3>1. /\ EachOnceIn(queue') /\ EachOnceIn(out')
          /\ PagesIn(queue') = PagesIn(queue) \union P /\ PagesIn(out') = PagesIn(out) \ P
      BY <2>3, <2>5, <2>7
    <3>2. OnTheWay' = OnTheWay /\ PagesIn(queue') \intersect PagesIn(out') = {}
      BY <1>0, <1>1, <2>6, <3>1
    <3> QED BY <1>0, <1>1, <2>1, <3>1, <3>2 DEF PagesTravelOnce, Arrived
  <2>8. CASE queue' = queue /\ out' = <<>>
    BY <1>0, <1>2, <2>1, <2>8, NoPages
  <2> QED BY <2>2, <2>7, <2>8
<1>8. ASSUME NEW m \in Messages, NEW p \in Pages(m), Publish(m, p)
      PROVE  PagesTravelOnce' /\ Arrived \subseteq Arrived'
  <2> DEFINE f == Fragment(m, p)
  <2>1. f \in MessageType /\ IsPage(f) /\ PageOf(f) = <<m, p>>
    BY RequestsTyped DEF MessageType, Fragment, IsPage, PageOf
  <2>2. /\ out' = Append(out, f) /\ queue' = queue
        /\ published' = published \union {<<m, p>>} /\ <<m, p>> \notin published
    BY <1>1, <1>8 DEF Publish, TInv, TypeOK
  <2> HIDE DEF f
  <2>3. EachOnceIn(out') /\ PagesIn(out') = PagesIn(out) \union {<<m, p>>}
    BY <1>0, <2>1, <2>2, PagesAppend
  <2>4. OnTheWay' = OnTheWay \union {<<m, p>>}
    BY <1>0, <1>1, <2>2, <2>3
  <2> QED BY <1>0, <1>1, <2>2, <2>3, <2>4 DEF PagesTravelOnce, Arrived
<1>9. CASE Receive
  <2>1. UNCHANGED <<client, published>> /\ (queue' = queue \/ (queue # <<>> /\ queue' = Tail(queue)))
    <3>1. \E n \in 0 .. Len(fragmentBuffersLRU_) : Round(n)
      BY <1>9, RoundTheLoop DEF TInv
    <3> QED BY <1>9, <3>1 DEF Round, Receive, server
  <2>2. EachOnceIn(queue') /\ PagesIn(queue') \subseteq PagesIn(queue)
    BY <1>0, <2>1, PagesTail
  <2> QED BY <1>0, <1>1, <1>2, <2>1, <2>2
<1>10. CASE CloseLocks \/ ReceiveFails \/ Crash
  BY <1>5, <1>10 DEF CloseLocks, ReceiveFails, Crash, CloseFds, server
<1>11. CASE \/ disconnect \/ Sending \/ CloseTells \/ CloseJoins \/ ConnectBegins \/ Connecting
            \/ (\E c \in Channels : subscribe(c) \/ unsubscribe(c) \/ receiveMsg(c))
            \/ handleControlMsg \/ Complete \/ SetAvailable \/ Report \/ Reported \/ ReceiverTells
            \/ ReceiverEnds \/ UNCHANGED vars
  <2>1. UNCHANGED <<queue, client, published>>
    BY <1>11 DEF disconnect, Sending, Sent, NotSent, CloseTells, CloseJoins, ConnectBegins, Connecting,
       ConnectJoins, Open, Acknowledged, TimesOut, Resubscribe, Connected, subscribe, unsubscribe,
       receiveMsg, handleControlMsg, Complete, SetAvailable, Report, Reported, ReceiverTells,
       ReceiverEnds, vars, server
  <2> QED BY <1>1, <1>4, <2>1
<1> QED BY <1>6, <1>7, <1>8, <1>9, <1>10, <1>11 DEF Next, Program, Closing, Receiver, Server

-----------------------------------------------------------------------------
(* The pages in the buffers, and those in the queues.                      *)

\* What TakeFragment does, but for the list.
Buffered(f, held) ==
  LET pages == Append(held[f.msg], f.page)
  IN  /\ fragmentBuffers_' = [held EXCEPT ![f.msg] = pages]
      /\ receiver' = IF IsComplete(f.msg, pages) THEN [pc |-> "complete", msg |-> f] ELSE At("loop")

\* What has become stale is gone; a page is added to what is left.
LEMMA ReceiveEffect ==
  ASSUME TInv, Receive
  PROVE  \E held \in [Messages -> Seq(Nat)] :
           /\ \A m \in Messages : held[m] \in {<<>>, fragmentBuffers_[m]}
           /\ \/ fragmentBuffers_' = held /\ receiver'.pc \in {"loop", "done", "control"}
              \/ /\ queue # <<>> /\ queue' = Tail(queue) /\ Head(queue) \in FragmentType
                 /\ Buffered(Head(queue), held)
<1>1. PICK n \in 0 .. Len(fragmentBuffersLRU_) : Round(n)
  BY RoundTheLoop DEF TInv
<1>2. /\ receiver.pc = "loop"
      /\ queue # <<>> => Head(queue) \in MessageType
  BY RoundTheLoop DEF TInv
<1>3. /\ Kept(n) \in [Messages -> Seq(Nat)]
      /\ \A m \in Messages : Kept(n)[m] \in {<<>>, fragmentBuffers_[m]}
  BY KeptTyped DEF TInv, Kept
<1>4. CASE fragmentBuffers_' = Kept(n) /\ receiver'.pc \in {"loop", "done", "control"}
  BY <1>3, <1>4
<1>5. CASE /\ queue # <<>> /\ queue' = Tail(queue) /\ Head(queue).type = "Fragment"
           /\ TakeFragment(Head(queue), Kept(n), Left(n))
  <2>1. Head(queue) \in FragmentType
    BY <1>2, <1>5, MessagesTyped
  <2>2. Buffered(Head(queue), Kept(n))
    BY <1>5 DEF TakeFragment, Buffered
  <2> QED BY <1>3, <1>5, <2>1, <2>2
<1>6. \/ fragmentBuffers_' = Kept(n) /\ receiver'.pc \in {"loop", "done", "control"}
      \/ /\ queue # <<>> /\ queue' = Tail(queue) /\ Head(queue).type = "Fragment"
         /\ TakeFragment(Head(queue), Kept(n), Left(n))
  BY <1>1, <1>2 DEF Round, Keeps, DropFragment, At
<1> QED BY <1>4, <1>5, <1>6

LEMMA BuffersStep ==
  ASSUME TInv, PagesTravelOnce, BuffersHoldOnce, [Next]_vars
  PROVE  BuffersHoldOnce'
<1>0. /\ fragmentBuffers_ \in [Messages -> Seq(Nat)] /\ queue \in Seq(MessageType)
      /\ Arrived \subseteq Arrived' /\ PagesTravelOnce'
      /\ EachOnceIn(queue) /\ OnTheWay \subseteq published
  BY TravelStep DEF TInv, TypeOK, PagesTravelOnce
<1>1. IsInjective(<<>>) /\ ToSet(<<>>) = {}
  BY DEF IsInjective, ToSet
<1>2. CASE \A m \in Messages : fragmentBuffers_'[m] \in {<<>>, fragmentBuffers_[m]}
  BY <1>0, <1>1, <1>2 DEF BuffersHoldOnce
<1>3. CASE UNCHANGED fragmentBuffers_
  BY <1>2, <1>3
<1>4. CASE SetAvailable
  <2>1. \A m \in Messages : fragmentBuffers_'[m] \in {<<>>, fragmentBuffers_[m]}
    BY <1>0, <1>4 DEF SetAvailable
  <2> QED BY <1>2, <2>1
<1>5. CASE Receive
  <2> DEFINE f == Head(queue)
  <2>1. PICK held \in [Messages -> Seq(Nat)] :
           /\ \A m \in Messages : held[m] \in {<<>>, fragmentBuffers_[m]}
           /\ \/ fragmentBuffers_' = held
              \/ /\ queue # <<>> /\ queue' = Tail(queue) /\ f \in FragmentType
                 /\ Buffered(f, held)
    BY <1>5, ReceiveEffect
  <2>2. CASE fragmentBuffers_' = held
    BY <1>2, <2>1, <2>2
  <2>3. CASE queue # <<>> /\ queue' = Tail(queue) /\ f \in FragmentType /\ Buffered(f, held)
    <3>1. /\ f.msg \in Messages /\ f.page \in Pages(f.msg) /\ f.page \in Nat
          /\ IsPage(f) /\ PageOf(f) = <<f.msg, f.page>>
      BY <2>3, MessagesTyped DEF IsPage, PageOf
    <3>2. PageOf(f) \in PagesIn(queue)
      <4>1. 1 \in DOMAIN queue /\ queue[1] = f
        BY <1>0, <2>3
      <4> QED BY <3>1, <4>1 DEF PagesIn
    <3>3. PageOf(f) \in Arrived' /\ PageOf(f) \notin Arrived
      <4>1. PagesIn(queue') = PagesIn(queue) \ {PageOf(f)} /\ UNCHANGED <<client, published>>
        BY <1>0, <1>5, <2>3, <3>1, PagesTail DEF Receive, server
      <4> QED BY <1>0, <3>2, <4>1 DEF Arrived, OnTheWay, PagesTravelOnce
    <3> DEFINE b == held[f.msg]
    <3>4. b \in Seq(Nat) /\ IsInjective(b) /\ f.page \notin ToSet(b)
      <4>1. b \in {<<>>, fragmentBuffers_[f.msg]}
        BY <2>1, <3>1
      <4> QED BY <1>0, <1>1, <3>1, <3>3, <4>1 DEF BuffersHoldOnce
    <3> HIDE DEF b
    <3>5. IsInjective(Append(b, f.page)) /\ ToSet(Append(b, f.page)) = ToSet(b) \union {f.page}
      BY <3>1, <3>4, AppendIs
    <3>6. \A m \in Messages :
            fragmentBuffers_'[m] = IF m = f.msg THEN Append(b, f.page) ELSE held[m]
      BY <2>3, <3>1 DEF Buffered, b
    <3> SUFFICES ASSUME NEW m \in Messages
                 PROVE  /\ IsInjective(fragmentBuffers_'[m])
                        /\ \A p \in ToSet(fragmentBuffers_'[m]) : p \in Pages(m) /\ <<m, p>> \in Arrived'
      BY DEF BuffersHoldOnce
    <3>7. /\ IsInjective(held[m])
          /\ \A p \in ToSet(held[m]) : p \in Pages(m) /\ <<m, p>> \in Arrived'
      <4>1. held[m] \in {<<>>, fragmentBuffers_[m]}
        BY <2>1
      <4> QED BY <1>0, <1>1, <4>1 DEF BuffersHoldOnce
    <3> QED BY <3>1, <3>3, <3>5, <3>6, <3>7 DEF b
  <2> QED BY <2>1, <2>2, <2>3
<1>6. CASE \/ disconnect \/ ConnectBegins \/ Program \/ Server
           \/ (\E c \in Channels : subscribe(c) \/ unsubscribe(c) \/ receiveMsg(c))
           \/ handleControlMsg \/ Complete \/ ReceiveFails \/ Report \/ Reported \/ ReceiverTells
           \/ ReceiverEnds \/ Crash
           \/ (\E m \in Messages : \E p \in Pages(m) : Publish(m, p)) \/ UNCHANGED vars
  <2>1. CASE Program
    BY <1>3, <2>1 DEF Program, Sending, Sent, NotSent, Closing, CloseLocks, CloseTells, CloseJoins,
       Connecting, ConnectJoins, Open, Acknowledged, TimesOut, Resubscribe, Connected, buffers
  <2>2. CASE ~Program
    BY <1>3, <1>6, <2>2 DEF disconnect, ConnectBegins, Server, ServerReceives, ServerWrites, subscribe,
       unsubscribe, receiveMsg, handleControlMsg, Complete, ReceiveFails, Report, Reported,
       ReceiverTells, ReceiverEnds, Crash, Publish, vars, buffers
  <2> QED BY <2>1, <2>2
<1> QED BY <1>4, <1>5, <1>6 DEF Next, Receiver

LEMMA HandStep ==
  ASSUME TInv, InHandIsFull, [Next]_vars
  PROVE  InHandIsFull'
<1>0. /\ TypeOK /\ OneReceiver /\ threadRunning_ \in 0 .. 1
      /\ app \in {"join", "open"} => threadRunning_ = 0
  BY DEF TInv, TypeOK, Threads
<1>1. CASE ~BeingTaken'
  BY <1>1 DEF InHandIsFull
<1>2. CASE UNCHANGED fragmentBuffers_ /\ (BeingTaken' => BeingTaken /\ UNCHANGED receiver.msg)
  BY <1>2 DEF InHandIsFull
<1>3. CASE \/ CloseJoins \/ ConnectJoins \/ Open \/ ReceiveFails \/ handleControlMsg
           \/ Report \/ Reported \/ ReceiverTells \/ ReceiverEnds \/ Crash
  <2>1. receiver' = receiver \/ receiver'.pc \in {"none", "loop", "done", "report", "closing", "closed", "crashed"}
    BY <1>3 DEF CloseJoins, ConnectJoins, Open, ReceiveFails, handleControlMsg, Report, Reported,
                ReceiverTells, ReceiverEnds, Crash, NoThread, At
  <2>2. UNCHANGED fragmentBuffers_
    BY <1>3 DEF CloseJoins, ConnectJoins, Open, ReceiveFails, handleControlMsg, Report, Reported,
                ReceiverTells, ReceiverEnds, Crash, buffers
  <2> QED BY <1>1, <1>2, <2>1, <2>2 DEF BeingTaken
<1>a. CASE SetAvailable
  BY <1>1, <1>a DEF SetAvailable, At, BeingTaken
<1>4. CASE Complete
  <2>1. receiver'.msg = receiver.msg /\ receiver.pc = "complete" /\ UNCHANGED fragmentBuffers_
    BY <1>0, <1>4 DEF Complete, TypeOK, ReceiverType, buffers
  <2> QED BY <1>2, <2>1 DEF BeingTaken
<1>5. CASE Receive
  <2> DEFINE f == Head(queue)
  <2>1. PICK held \in [Messages -> Seq(Nat)] :
           \/ receiver'.pc \in {"loop", "done", "control"}
           \/ f \in FragmentType /\ Buffered(f, held)
    BY <1>5, ReceiveEffect
  <2>2. CASE f \in FragmentType /\ Buffered(f, held) /\ BeingTaken'
    <3>1. f.msg \in Messages
      BY <2>2, MessagesTyped
    <3>2. fragmentBuffers_'[f.msg] = Append(held[f.msg], f.page)
      BY <2>2, <3>1 DEF Buffered
    <3>3. IsComplete(f.msg, Append(held[f.msg], f.page)) /\ receiver' = [pc |-> "complete", msg |-> f]
      BY <2>2 DEF Buffered, At, BeingTaken
    <3> QED BY <3>2, <3>3 DEF InHandIsFull, IsComplete
  <2> QED BY <1>1, <2>1, <2>2 DEF BeingTaken
<1>6. CASE \/ disconnect \/ ConnectBegins \/ Sending \/ CloseLocks \/ CloseTells \/ Acknowledged \/ TimesOut
           \/ (\E c \in Channels : Resubscribe(c)) \/ Connected
           \/ (\E c \in Channels : subscribe(c) \/ unsubscribe(c) \/ receiveMsg(c))
           \/ Server \/ (\E m \in Messages : \E p \in Pages(m) : Publish(m, p)) \/ UNCHANGED vars
  <2>1. UNCHANGED <<fragmentBuffers_, receiver>>
    BY <1>6 DEF disconnect, ConnectBegins, Sending, Sent, NotSent, CloseLocks, CloseTells, Acknowledged,
       TimesOut, Resubscribe, Connected, subscribe, unsubscribe, receiveMsg, Server, ServerReceives,
       ServerWrites, Publish, vars, buffers
  <2> QED BY <1>2, <2>1 DEF BeingTaken
<1> QED BY <1>3, <1>4, <1>5, <1>6, <1>a DEF Next, Program, Closing, Connecting, Receiver

LEMMA ArrivedStays ==
  ASSUME Arrived \subseteq Arrived'
  PROVE  AllArrived \subseteq AllArrived'
BY DEF AllArrived

\* A channel that keeps its queue, or some of it.
LEMMA QueueKept ==
  ASSUME NEW c, NEW q \in Seq(Queued), NEW S, NEW T, S \subseteq T, GoodQueue(c, q, S)
  PROVE  GoodQueue(c, q, T) /\ (q # <<>> => GoodQueue(c, Tail(q), T))
<1>1. GoodQueue(c, q, T)
  BY DEF GoodQueue
<1>2. ASSUME q # <<>> PROVE GoodQueue(c, Tail(q), T)
  <2>1. \A i \in DOMAIN Tail(q) : i + 1 \in DOMAIN q /\ Tail(q)[i] = q[i + 1] /\ i \in Int
    BY <1>2
  <2>2. \A i, j \in DOMAIN Tail(q) : i + 1 = j + 1 => i = j
    BY <2>1
  <2> QED BY <1>1, <2>1, <2>2 DEF GoodQueue
<1> QED BY <1>1, <1>2

LEMMA QueueGrows ==
  ASSUME NEW c, NEW q \in Seq(Queued), NEW S, NEW e \in Queued, GoodQueue(c, q, S \ {e.msg}),
         e.msg \in S, ToSet(e.pages) = Pages(e.msg), e.msg[1] = c
  PROVE  GoodQueue(c, Newest(Append(q, e)), S)
<1> DEFINE a == Append(q, e)
<1>1. /\ a \in Seq(Queued) /\ a # <<>> /\ DOMAIN a = 1 .. Len(q) + 1 /\ DOMAIN q = 1 .. Len(q)
      /\ a[Len(q) + 1] = e /\ \A i \in 1 .. Len(q) : a[i] = q[i]
  OBVIOUS
<1> HIDE DEF a
<1>2. \A i \in DOMAIN a : (i = Len(q) + 1 /\ a[i] = e) \/ (i \in DOMAIN q /\ a[i] = q[i])
  BY <1>1
<1>3. GoodQueue(c, a, S)
  BY <1>2 DEF GoodQueue
<1>4. GoodQueue(c, Tail(a), S)
  BY <1>1, <1>3, QueueKept
<1> QED BY <1>3, <1>4 DEF Newest, a

LEMMA QueuesStep ==
  ASSUME TInv, PagesInv, [Next]_vars
  PROVE  QueuesAreGood'
<1> DEFINE q(c) == channels_[c].completeBuffers
           S == AllArrived \ ToQueue
<1>0. /\ TypeOK /\ OneReceiver /\ threadRunning_ \in 0 .. 1
      /\ app \in {"join", "open"} => threadRunning_ = 0
      /\ AllArrived \subseteq AllArrived' /\ PagesTravelOnce /\ BuffersHoldOnce /\ InHandIsFull
      /\ \A c \in DOMAIN channels_ : GoodQueue(c, q(c), S)
  BY TravelStep, ArrivedStays DEF TInv, TypeOK, Threads, PagesInv, QueuesAreGood
<1>1. \A c \in DOMAIN channels_ : channels_[c] \in ChannelType /\ q(c) \in Seq(Queued)
  BY <1>0, ChannelTyped DEF TypeOK
<1>2. \A c, T : GoodQueue(c, <<>>, T)
  BY DEF GoodQueue
<1>3. CASE /\ S \subseteq S'
           /\ \A c \in DOMAIN channels_' :
                LET r == channels_'[c].completeBuffers
                IN  r = <<>> \/ (c \in DOMAIN channels_ /\ (r = q(c) \/ (q(c) # <<>> /\ r = Tail(q(c)))))
  <2> SUFFICES ASSUME NEW c \in DOMAIN channels_'
               PROVE  GoodQueue(c, channels_'[c].completeBuffers, S')
    BY DEF QueuesAreGood
  <2> QED BY <1>0, <1>1, <1>2, <1>3, QueueKept
<1> HIDE DEF q
<1>4. CASE ToQueue' \subseteq ToQueue /\ channels_' = channels_
  BY <1>0, <1>3, <1>4 DEF q
<1>5. CASE channels_' \in {channels_, Unacknowledged} /\ ToQueue' \subseteq ToQueue
  <2>1. \A c \in DOMAIN channels_ : [channels_[c] EXCEPT !.acknowledged = FALSE].completeBuffers = q(c)
    BY <1>1 DEF ChannelType, q
  <2> QED BY <1>0, <1>3, <1>5, <2>1 DEF Unacknowledged, q
<1>6. CASE CloseJoins \/ ConnectJoins \/ Open
  <2>1. receiver' = receiver \/ receiver'.pc \in {"none", "loop"}
    BY <1>6 DEF CloseJoins, ConnectJoins, Open, NoThread, At
  <2>2. ToQueue' \subseteq ToQueue
    BY <2>1 DEF ToQueue
  <2> QED BY <1>5, <1>6, <2>2 DEF CloseJoins, ConnectJoins, Open
<1>7. CASE \/ ReceiveFails \/ SetAvailable \/ Report \/ Reported \/ ReceiverTells
           \/ ReceiverEnds \/ Crash
  <2>1. ToQueue' \subseteq ToQueue
    BY <1>7 DEF ReceiveFails, SetAvailable, Report, Reported, ReceiverTells, ReceiverEnds, Crash, ToQueue, At
  <2>2. channels_' \in {channels_, Unacknowledged}
    BY <1>7 DEF ReceiveFails, SetAvailable, Report, Reported, ReceiverTells, ReceiverEnds, Crash
  <2> QED BY <1>5, <2>1, <2>2
<1>8. CASE handleControlMsg
  <2>1. ToQueue' \subseteq ToQueue
    BY <1>8 DEF handleControlMsg, ToQueue, At
  <2>2. \A c \in DOMAIN channels_ : [channels_[c] EXCEPT !.acknowledged = TRUE].completeBuffers = q(c)
    BY <1>1 DEF ChannelType, q
  <2>3. /\ DOMAIN channels_' = DOMAIN channels_
        /\ \A c \in DOMAIN channels_ : channels_'[c].completeBuffers = q(c)
    BY <1>8, <2>2 DEF handleControlMsg, q
  <2> QED BY <1>0, <1>3, <2>1, <2>3
<1>9. ASSUME NEW c \in Channels, subscribe(c) \/ unsubscribe(c) \/ receiveMsg(c)
      PROVE  QueuesAreGood'
  <2>1. ToQueue' = ToQueue
    BY <1>9 DEF subscribe, unsubscribe, receiveMsg, ToQueue
  <2>2. CASE subscribe(c)
    <3>1. NewChannel.completeBuffers = <<>>
      BY DEF NewChannel
    <3>2. \A d \in DOMAIN channels_' :
            channels_'[d] = NewChannel \/ (d \in DOMAIN channels_ /\ channels_'[d] = channels_[d])
      BY <2>2 DEF subscribe
    <3> QED BY <1>0, <1>3, <2>1, <3>1, <3>2 DEF q
  <2>3. CASE unsubscribe(c)
    BY <1>0, <1>3, <2>1, <2>3 DEF unsubscribe, q
  <2>4. CASE receiveMsg(c)
    <3>1. /\ q(c) # <<>> /\ c \in DOMAIN channels_ /\ DOMAIN channels_' = DOMAIN channels_
          /\ channels_'[c] = [channels_[c] EXCEPT !.completeBuffers = Tail(q(c))]
          /\ \A d \in DOMAIN channels_ \ {c} : channels_'[d] = channels_[d]
      BY <2>4 DEF receiveMsg, q
    <3>2. channels_'[c].completeBuffers = Tail(q(c))
      BY <1>1, <3>1 DEF ChannelType
    <3> QED BY <1>0, <1>3, <2>1, <3>1, <3>2 DEF q
  <2> QED BY <1>9, <2>2, <2>3, <2>4
<1>10. CASE Receive
  <2> DEFINE f == Head(queue)
  <2>1. PICK held \in [Messages -> Seq(Nat)] :
          \/ receiver'.pc \in {"loop", "done", "control"}
          \/ queue # <<>> /\ f \in FragmentType /\ Buffered(f, held)
    BY <1>10, ReceiveEffect
  <2>2. CASE receiver'.pc \in {"loop", "done", "control"}
    <3>1. ToQueue' = {}
      BY <2>2 DEF ToQueue
    <3> QED BY <1>4, <1>10, <3>1 DEF Receive
  <2>3. CASE queue # <<>> /\ f \in FragmentType /\ Buffered(f, held)
    <3>1. /\ f.msg \in Messages /\ f.page \in Pages(f.msg) /\ f.page \in Nat
          /\ IsPage(f) /\ PageOf(f) = <<f.msg, f.page>>
      BY <2>3, MessagesTyped DEF IsPage, PageOf
    <3>2. PageOf(f) \in PagesIn(queue)
      <4>1. 1 \in DOMAIN queue /\ queue[1] = f
        BY <1>0, <2>3 DEF TypeOK
      <4> QED BY <3>1, <4>1 DEF PagesIn
    <3>3. f.msg \notin AllArrived
      BY <3>1, <3>2 DEF AllArrived, Arrived, OnTheWay
    <3>4. ToQueue' \subseteq {f.msg}
      BY <2>3 DEF Buffered, At, ToQueue
    <3>5. S \subseteq S' /\ channels_' = channels_
      BY <1>0, <1>10, <3>3, <3>4 DEF Receive
    <3> QED BY <1>3, <3>5 DEF q
  <2> QED BY <2>1, <2>2, <2>3
<1>11. CASE Complete
  <2> DEFINE m == receiver.msg.msg
             e == [msg |-> m, pages |-> fragmentBuffers_[m]]
  <2>1. m \in Messages /\ receiver.pc = "complete" /\ fragmentBuffers_[m] \in Seq(Nat)
    BY <1>0, <1>11, ReceiverTyped, MessagesTyped DEF Complete, TypeOK
  <2>2. ToSet(fragmentBuffers_[m]) = Pages(m)
    <3>1. /\ IsInjective(fragmentBuffers_[m]) /\ ToSet(fragmentBuffers_[m]) \subseteq Pages(m)
          /\ Len(fragmentBuffers_[m]) = totalPages[m[2]]
      BY <1>0, <2>1 DEF BuffersHoldOnce, InHandIsFull, BeingTaken
    <3> HIDE DEF m
    <3> QED BY <2>1, <3>1, AllPages
  <2>3. m \in AllArrived
    BY <1>0, <2>1, <2>2 DEF AllArrived, BuffersHoldOnce
  <2>4. e \in Queued /\ e.msg = m /\ e.pages = fragmentBuffers_[m]
    BY <2>1 DEF Queued
  <2>5. ToQueue = {m} /\ ToQueue' = {}
    BY <1>0, <1>11, <2>1 DEF Complete, ToQueue, TypeOK, ReceiverType
  <2> HIDE DEF m, e
  <2>6. \A c \in DOMAIN channels_ : c = m[1] => GoodQueue(c, Newest(Append(q(c), e)), AllArrived)
    BY <1>0, <1>1, <2>2, <2>3, <2>4, <2>5, QueueGrows
  <2>7. /\ DOMAIN channels_' = DOMAIN channels_
        /\ \A c \in DOMAIN channels_ :
             channels_'[c].completeBuffers = IF c = m[1] THEN Newest(Append(q(c), e)) ELSE q(c)
    BY <1>1, <1>11 DEF Complete, ChannelType, m, e, q
  <2>8. \A c \in DOMAIN channels_' : channels_'[c].completeBuffers \in Seq(Queued)
    BY <1>0, <1>11, CompleteTyped, ChannelTyped DEF TypeOK
  <2> SUFFICES ASSUME NEW c \in DOMAIN channels_
               PROVE  GoodQueue(c, channels_'[c].completeBuffers, AllArrived')
    BY <2>5, <2>7 DEF QueuesAreGood
  <2>9. GoodQueue(c, channels_'[c].completeBuffers, AllArrived)
    <3>1. GoodQueue(c, q(c), AllArrived)
      BY <1>0, <1>1, QueueKept
    <3> QED BY <2>6, <2>7, <3>1
  <2> QED BY <1>0, <2>7, <2>8, <2>9, QueueKept
<1>12. CASE \/ disconnect \/ ConnectBegins \/ Sending \/ CloseLocks \/ CloseTells \/ Acknowledged
            \/ TimesOut \/ (\E c \in Channels : Resubscribe(c)) \/ Connected
            \/ Server \/ (\E m \in Messages : \E p \in Pages(m) : Publish(m, p)) \/ UNCHANGED vars
  <2>1. UNCHANGED <<channels_, receiver>>
    BY <1>12 DEF disconnect, ConnectBegins, Sending, Sent, NotSent, CloseLocks, CloseTells, Acknowledged,
       TimesOut, Resubscribe, Connected, Server, ServerReceives, ServerWrites, Publish, vars
  <2> QED BY <1>4, <2>1 DEF ToQueue
<1> QED BY <1>6, <1>7, <1>8, <1>9, <1>10, <1>11, <1>12 DEF Next, Program, Closing, Connecting, Receiver

\* However many messages come between, and although incomplete ones are pruned, what
\* receiveMsg returns has all its pages, each once, and no message is queued twice
\* (UnixClient.cc:680-768).
THEOREM WholeMessagesAlways == Spec => []WholeMessages
<1>1. Init => PagesInv
  BY NoPages DEF Init, PagesInv, PagesTravelOnce, BuffersHoldOnce, QueuesAreGood, InHandIsFull,
     BeingTaken, OnTheWay, NotKnown, NoThread, ToSet, IsInjective
<1>2. TInv /\ PagesInv /\ [Next]_vars => PagesInv'
  BY TravelStep, BuffersStep, HandStep, QueuesStep DEF PagesInv
<1>3. PagesInv => WholeMessages
  BY DEF PagesInv, QueuesAreGood, GoodQueue, WholeMessages
<1> QED BY <1>1, <1>2, <1>3, TInvAlways, PTL DEF Spec
=============================================================================
