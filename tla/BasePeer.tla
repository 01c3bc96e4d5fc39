------------------------------ MODULE BasePeer ------------------------------
(***************************************************************************)
(* The outbound half of a SimpleComms peer (BasePeer.cc, TcpPeer.cc): the  *)
(* clients_ of one remote peering method, the channel they subscribe to,   *)
(* and what doWrites sends on their sockets.  The operations here are the  *)
(* sections the code runs under clientsMutex_, and the send() between two  *)
(* of them that it runs without; CommsServer gives them their threads.     *)
(*                                                                         *)
(* A host is the name of a client, and a ClientData is an object: an entry *)
(* of clients_ that is erased and made again is a new object, while the    *)
(* write queues may still hold the old one.  A message is a number, sent   *)
(* as FrameLength bytes; one data channel stands for all of them.          *)
(* A definition X_Word is X with a plausible mistake, for mutation.        *)
(***************************************************************************)
EXTENDS Naturals, Sequences, FiniteSets, SequencesExt

CONSTANTS
  Hosts,                  \* the names of the remote peers
  Workers,                \* the output threads, callers of doWrites
  MaxObjects,             \* bound: the ClientData made for one host
  MaxConnections,         \* bound: the connections made in all
  MaxMessages,            \* bound: the messages received and queued
  FrameLength,            \* the bytes a message is sent as
  Reconnects,             \* whether a host connects more than once
  supportsPartialWrites,  \* TRUE for TcpPeer, FALSE for UdpPeer
  staleThresholdValid     \* staleFragmentPruningThreshold is not 0

ASSUME BasePeerAssumption ==
  /\ IsFiniteSet(Hosts) /\ IsFiniteSet(Workers) /\ Workers # {}
  /\ MaxObjects \in Nat /\ MaxConnections \in Nat /\ MaxMessages \in Nat
  /\ FrameLength \in Nat \ {0} /\ Reconnects \in BOOLEAN
  /\ supportsPartialWrites \in BOOLEAN /\ staleThresholdValid \in BOOLEAN

VARIABLES
  clients_,     \* per host, the number of its object in clients_, or 0
  made,         \* per host, how many ClientData have been made
  client,       \* the ClientData
  subscribers,  \* the objects that currentChannel.subscribers points to
  files,        \* the connection behind every descriptor number, or 0
  stream,       \* per connection, whose it is and the bytes sent on it
  broken,       \* the connections the other side has reset
  received,     \* how many messages have been queued
  writing       \* per worker, the locals of its doWrites

peerVars == <<clients_, made, client, subscribers, files, stream, broken,
              received, writing>>

-----------------------------------------------------------------------------
NoMsg  == 0
Closed == 0

Messages    == 1 .. MaxMessages
Connections == 1 .. MaxConnections
Objects     == Hosts \X (1 .. MaxObjects)
Fds         == 1 .. Cardinality(Objects)

NewClient ==
  [fd |-> Closed, fdStamp |-> 0, readyToWrite |-> FALSE, outBox |-> <<>>,
   currentOutboundMessage |-> NoMsg, bytesWrittenSoFar |-> 0,
   dataPending |-> FALSE, onWriteQueue |-> FALSE]

NotWriting == [fd |-> Closed, fdStamp |-> 0, msg |-> NoMsg, offset |-> 0,
               sent |-> 0, status |-> "none"]

Entry(h) == <<h, clients_[h]>>
InClients(c) == clients_[c[1]] = c[2]
Connected(c) == client[c].fd # Closed

\* socket() and accept() return the lowest number that is free.
LowestFree(fd, fs) == fs[fd] = 0 /\ \A n \in 1 .. fd - 1 : fs[n] # 0
Close(fd)  == IF fd = Closed THEN files ELSE [files EXCEPT ![fd] = 0]

PeerInit ==
  /\ clients_ = [h \in Hosts |-> 0] /\ made = [h \in Hosts |-> 0]
  /\ client = [c \in Objects |-> NewClient]
  /\ subscribers = {}
  /\ files = [n \in Fds |-> 0]
  /\ stream = <<>> /\ broken = {} /\ received = 0
  /\ writing = [w \in Workers |-> NotWriting]

-----------------------------------------------------------------------------
(* Connections.                                                            *)

Reset(r) ==
  [r EXCEPT !.fd = Closed, !.fdStamp = 0, !.outBox = <<>>,
            !.currentOutboundMessage = NoMsg, !.dataPending = FALSE]

\* The entry of a client that is reset is never erased.
clientReset_KeepsEntry(c, retireEntry) ==
  /\ client' = [client EXCEPT ![c] = Reset(@)]
  /\ files' = Close(client[c].fd)
  /\ subscribers' = subscribers \ {c}
  /\ clients_' = clients_

\* clientReset, called with clientsMutex_ held.  retireEntry erases the entry
\* of that *name*.
clientReset(c, retireEntry) ==
  /\ client' = [client EXCEPT ![c] = Reset(@)]
  /\ files' = Close(client[c].fd)
  /\ subscribers' = subscribers \ {c}
  /\ clients_' = IF retireEntry THEN [clients_ EXCEPT ![c[1]] = 0] ELSE clients_

Named(h) == IF clients_[h] # 0 THEN Entry(h) ELSE <<h, made[h] + 1>>

\* handleControlMsg on Connect when clientConnect succeeds: an entry that is
\* connected is reset first and keeps its object, an unknown name gets one.
Connect(h) ==
  LET c    == Named(h)
      k    == Len(stream) + 1
      free == Close(client[c].fd)
      r    == IF Connected(c) THEN Reset(client[c]) ELSE client[c]
  IN  /\ Reconnects \/ made[h] = 0
      /\ c \in Objects /\ k \in Connections
      /\ clients_' = [clients_ EXCEPT ![h] = c[2]]
      /\ made' = [made EXCEPT ![h] = IF c[2] > @ THEN c[2] ELSE @]
      /\ \E fd \in Fds :
           /\ LowestFree(fd, free)
           /\ client' = [client EXCEPT ![c] = [r EXCEPT !.fd = fd, !.fdStamp = k]]
           /\ files' = [free EXCEPT ![fd] = k]
      /\ subscribers' = IF Connected(c) THEN subscribers \ {c} ELSE subscribers
      /\ stream' = Append(stream, [client |-> c, bytes |-> <<>>])
      /\ UNCHANGED <<broken, received, writing>>

\* handleControlMsg on Connect when clientConnect fails: the entry is erased.
ConnectFails(h) ==
  /\ Reconnects /\ clients_[h] # 0
  /\ clientReset(Entry(h), TRUE)
  /\ UNCHANGED <<made, stream, broken, received, writing>>

Subscribe(h) ==
  /\ clients_[h] # 0 /\ Entry(h) \notin subscribers
  /\ subscribers' = subscribers \union {Entry(h)}
  /\ UNCHANGED <<clients_, made, client, files, stream, broken, received, writing>>

Unsubscribe(h) ==
  /\ clients_[h] # 0 /\ Entry(h) \in subscribers
  /\ subscribers' = subscribers \ {Entry(h)}
  /\ UNCHANGED <<clients_, made, client, files, stream, broken, received, writing>>

\* The other side of a connection resets it.
Break(k) ==
  /\ k \in 1 .. Len(stream) \ broken
  /\ broken' = broken \union {k}
  /\ UNCHANGED <<clients_, made, client, subscribers, files, stream, received, writing>>

-----------------------------------------------------------------------------
(* queueMsg.                                                               *)

\* The outBox without the messages at its front that are older than the
\* threshold, `old` being those that are.
Pruned(outBox, old) ==
  LET kept == {i \in 1 .. Len(outBox) + 1 :
                 \A k \in 1 .. i - 1 : staleThresholdValid /\ outBox[k] \in old}
  IN  SubSeq(outBox, CHOOSE i \in kept : \A k \in kept : k <= i, Len(outBox))

Reached == {c \in subscribers : Connected(c)}

\* The newest message goes first.
Queued_First(r, msg, old) ==
  LET box == Pruned(<<msg>> \o r.outBox, old)
  IN  [r EXCEPT !.outBox = box,
                !.dataPending = box # <<>> \/ r.currentOutboundMessage # NoMsg]

Queued(r, msg, old) ==
  LET box == Pruned(Append(r.outBox, msg), old)
  IN  [r EXCEPT !.outBox = box,
                !.dataPending = box # <<>> \/ r.currentOutboundMessage # NoMsg]

\* The clients that had nothing to write before and have now.
NewPending(msg, old) ==
  {c \in Reached : ~client[c].dataPending /\ Queued(client[c], msg, old).dataPending}

\* The orders in which they may be listed.
Listings(S) == {q \in [1 .. Cardinality(S) -> S] : ToSet(q) = S}

queueMsg(msg, old) ==
  /\ received' = msg
  /\ client' = [c \in Objects |-> IF c \in Reached THEN Queued(client[c], msg, old)
                                  ELSE client[c]]
  /\ UNCHANGED <<clients_, made, subscribers, files, stream, broken, writing>>

-----------------------------------------------------------------------------
(* doWrites, for one client: choose a message, send, record the outcome.   *)

NothingToWrite(c) == ~Connected(c) \/ ~client[c].dataPending

\* outBox.front() of an empty list: the handle read there is null, and the
\* program dies when it asks the message for its length.
FrontOfNothing(c) ==
  /\ ~NothingToWrite(c)
  /\ client[c].currentOutboundMessage = NoMsg
  /\ client[c].outBox = <<>>

ChooseMessage(w, c) ==
  LET r   == client[c]
      msg == IF r.currentOutboundMessage # NoMsg THEN r.currentOutboundMessage
             ELSE Head(r.outBox)
  IN  /\ ~NothingToWrite(c) /\ ~FrontOfNothing(c)
      /\ client' = [client EXCEPT ![c].currentOutboundMessage = msg]
      /\ writing' = [writing EXCEPT ![w] =
           [fd |-> r.fd, fdStamp |-> r.fdStamp, msg |-> msg, sent |-> 0,
            offset |-> IF supportsPartialWrites THEN r.bytesWrittenSoFar ELSE 0,
            status |-> "none"]]
      /\ UNCHANGED <<clients_, made, subscribers, files, stream, broken, received>>

Bytes(msg, from, to) == [i \in 1 .. to - from |-> <<msg, from + i>>]

\* send() without a lock: on whatever connection is behind the descriptor by
\* now.  EAGAIN and partial writes are those of a nonblocking stream.
send(w) ==
  LET d == writing[w]
      k == files[d.fd]
      Result(status, n) ==
        writing' = [writing EXCEPT ![w].status = status, ![w].sent = n]
  IN  /\ \/ /\ k = 0 \/ k \in broken
            /\ Result("error", 0)
            /\ UNCHANGED stream
         \/ /\ k # 0 /\ k \notin broken
            /\ supportsPartialWrites
            /\ Result("again", 0)
            /\ UNCHANGED stream
         \/ /\ k # 0 /\ k \notin broken
            /\ \E n \in 1 .. FrameLength - d.offset :
                 /\ n < FrameLength - d.offset => supportsPartialWrites
                 /\ Result(IF n < FrameLength - d.offset THEN "partial" ELSE "full", n)
                 /\ stream' = [stream EXCEPT ![k].bytes =
                                 @ \o Bytes(d.msg, d.offset, d.offset + n)]
      /\ UNCHANGED <<clients_, made, client, subscribers, files, broken, received>>

\* What the outcome of send() changes in a client that is still on the
\* connection it was sent on.
Again(r)   == [r EXCEPT !.readyToWrite = FALSE, !.currentOutboundMessage = NoMsg]
\* The rest counts from the start again.
Partial_FromStart(r, n) == [r EXCEPT !.readyToWrite = FALSE]

Partial(r, n) == [r EXCEPT !.readyToWrite = FALSE, !.bytesWrittenSoFar = @ + n]

\* What was sent stays in the outBox.
Full_Kept(r) ==
  [r EXCEPT !.currentOutboundMessage = NoMsg, !.bytesWrittenSoFar = 0,
            !.dataPending = r.outBox # <<>>]

\* Whatever is at the front of the outBox is taken for what was sent.
Full_AnyFront(r) ==
  LET box == IF r.outBox # <<>> THEN Tail(r.outBox) ELSE r.outBox
  IN  [r EXCEPT !.outBox = box, !.currentOutboundMessage = NoMsg,
                !.bytesWrittenSoFar = 0, !.dataPending = box # <<>>]

Full(r) ==
  LET box == IF r.outBox # <<>> /\ Head(r.outBox) = r.currentOutboundMessage
             THEN Tail(r.outBox) ELSE r.outBox
  IN  [r EXCEPT !.outBox = box, !.currentOutboundMessage = NoMsg,
                !.bytesWrittenSoFar = 0, !.dataPending = box # <<>>]

recordWrite(w, c) ==
  LET d == writing[w]
      Set(r) == /\ client' = [client EXCEPT ![c] = r]
                /\ UNCHANGED <<clients_, subscribers, files>>
  IN  /\ IF d.fdStamp # client[c].fdStamp
         THEN UNCHANGED <<clients_, client, subscribers, files>>
         ELSE \/ d.status = "again"   /\ Set(Again(client[c]))
              \/ d.status = "partial" /\ Set(Partial(client[c], d.sent))
              \/ d.status = "full"    /\ Set(Full(client[c]))
              \/ d.status = "error"   /\ clientReset(c, TRUE)
      /\ writing' = [writing EXCEPT ![w] = NotWriting]
      /\ UNCHANGED <<made, stream, broken, received>>

-----------------------------------------------------------------------------
(* handleErrors, for one client.                                           *)

\* getsockopt fails on a closed descriptor, which counts as an error.
SocketError(c) == ~Connected(c) \/ files[client[c].fd] \in broken

handleErrors(c) ==
  /\ IF SocketError(c) THEN clientReset(c, TRUE)
     ELSE UNCHANGED <<clients_, client, subscribers, files>>
  /\ UNCHANGED <<made, stream, broken, received, writing>>

=============================================================================
