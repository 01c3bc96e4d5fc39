------------------------------ MODULE CommsLink ------------------------------
(***************************************************************************)
(* The other end of the connections of CommsServer: the input thread of    *)
(* the host that accepted them, which reads whatever bytes have come and   *)
(* makes messages of them (TcpPeer.cc, Server.cc).  The first bytes of a   *)
(* message are its header, whose checksum tells whether they are one.      *)
(* Once a recv has failed the connection is closed here; the code may call *)
(* recv once more before handleErrors resets it.                           *)
(***************************************************************************)
EXTENDS CommsServer

CONSTANT HeaderLength   \* the bytes of a message that are its header

ASSUME LinkAssumption == HeaderLength \in 1 .. FrameLength - 1

VARIABLES
  inbound,    \* per connection: open, the bytes taken from it, msgHeaderBuf and msg
  relayed     \* per connection: the messages handed to the local peer

linkVars == <<inbound, relayed>>

Untouched == [open |-> "no", taken |-> 0, buf |-> <<>>]

LinkInit ==
  /\ Init
  /\ inbound = [k \in Connections |-> Untouched] /\ relayed = [k \in Connections |-> <<>>]

\* A new InboundClientDataTCP.
Accept(k) ==
  /\ k \in 1 .. Len(stream) /\ inbound[k].open = "no"
  /\ inbound' = [inbound EXCEPT ![k].open = "yes"]
  /\ UNCHANGED <<vars, relayed>>

\* What recv may return of the bytes that have come.
Arrived(k) == Len(stream[k].bytes) - inbound[k].taken

\* A recv asks for any number of bytes.
Wanted_Any(buf) == FrameLength

\* A recv asks for the rest of the header, or else for the rest of the message.
Wanted(buf) ==
  IF Len(buf) < HeaderLength THEN HeaderLength - Len(buf) ELSE FrameLength - Len(buf)

\* The bytes of one header, in their order.
ValidHeader(buf) == \A i \in 1 .. HeaderLength : buf[i] = <<buf[1][1], i>>

\* receiveMsg when there are bytes: a header that is not one is an error, and the
\* message is handed on with its last byte.
receiveMsg(k) ==
  /\ inbound[k].open = "yes" /\ k \notin broken
  /\ \E n \in 1 .. Wanted(inbound[k].buf) :
       LET taken == inbound[k].taken
           buf   == inbound[k].buf \o SubSeq(stream[k].bytes, taken + 1, taken + n)
           bad   == Len(buf) = HeaderLength /\ ~ValidHeader(buf)
           whole == Len(buf) = FrameLength
       IN  /\ n <= Arrived(k)
           /\ inbound' = [inbound EXCEPT ![k] =
                [open |-> IF bad THEN "reset" ELSE "yes", taken |-> taken + n,
                 buf |-> IF whole THEN <<>> ELSE buf]]
           /\ relayed' = [relayed EXCEPT ![k] = IF whole THEN Append(@, buf[1][1]) ELSE @]
           /\ broken' = IF bad THEN broken \union {k} ELSE broken
  /\ UNCHANGED <<clients_, made, client, subscribers, files, stream, received, writing,
                 serverVars>>

\* receiveMsg when the sender has closed the connection and all has been read.
ReadsEnd(k) ==
  /\ inbound[k].open = "yes" /\ k \notin broken
  /\ Arrived(k) = 0 /\ \A fd \in Fds : files[fd] # k
  /\ inbound' = [inbound EXCEPT ![k].open = "reset"]
  /\ UNCHANGED <<vars, relayed>>

\* The connection has been reset: receiveMsg resets the client, and then handleErrors
\* does so again.  It closes a number that is not open, or somebody else's, and looks
\* behind the end of inboundClients_: what becomes of the program is undefined.
ReadsReset(k) ==
  /\ inbound[k].open = "yes" /\ k \in broken
  /\ \/ inbound' = [inbound EXCEPT ![k].open = "reset"]
     \/ inbound' = [c \in Connections |-> [inbound[c] EXCEPT !.open = "crashed"]]
  /\ UNCHANGED <<vars, relayed>>

Reader(k) == Accept(k) \/ receiveMsg(k) \/ ReadsEnd(k) \/ ReadsReset(k)

LinkNext == (Next /\ UNCHANGED linkVars) \/ \E k \in Connections : Reader(k)

allVars == <<vars, linkVars>>
LinkSpec == LinkInit /\ [][LinkNext]_allVars

\* As in FairSpec, and the other input thread reads what has come.
LinkFairSpec ==
  /\ LinkInit /\ [][LinkNext]_allVars
  /\ FairServer
  /\ \A k \in Connections : WF_allVars(Reader(k))

-----------------------------------------------------------------------------
\* What the other host has made of a connection, however the bytes were split on
\* either side, is the messages sent on it, whole, in order and each once; so it
\* never meets a header that is not one (TcpPeer.cc:241-245).
SentOn(k) == [j \in 1 .. Len(stream[k].bytes) \div FrameLength |->
                stream[k].bytes[j * FrameLength][1]]
RelaysWhatWasSent ==
  \A k \in 1 .. Len(stream) :
    LET n == inbound[k].taken \div FrameLength
    IN  /\ relayed[k] = SubSeq(SentOn(k), 1, n)
        /\ inbound[k].buf = SubSeq(stream[k].bytes, n * FrameLength + 1, inbound[k].taken)
        /\ inbound[k].open = "reset" => k \in broken \/ \A fd \in Fds : files[fd] # k

\* A message in the outBox of a client leaves it in the end and is handed to the local
\* peer of the other host, though every worker may have been asleep or in poll() when
\* it was queued (Server.cc:272, 280-294), unless the connection is lost on the way.
InOutBox(k, m) == k <= Len(stream) /\ m \in ToSet(client[stream[k].client].outBox)
HandedOn(k, m) == m \in ToSet(relayed[k]) \/ inbound[k].open \in {"reset", "crashed"}
Arrives ==
  \A k \in Connections, m \in Messages :
    InOutBox(k, m) ~> ~InOutBox(k, m) /\ HandedOn(k, m)

=============================================================================
