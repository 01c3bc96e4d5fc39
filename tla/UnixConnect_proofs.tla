-------------------------- MODULE UnixConnect_proofs --------------------------
(***************************************************************************)
(* Proof that a connect that returned Ok has told the server, which the    *)
(* client infers from an echo: the notice of a connection is in one place, *)
(* from the client's socket to the server and back to the condition.  From *)
(* it, that the subscriptions outlive a connection.                        *)
(***************************************************************************)
EXTENDS UnixClient_proofs

Has(q, t) == \E i \in DOMAIN q : q[i].type = t
Once(q)   == \A i, j \in DOMAIN q : q[i].type = "Connect" /\ q[j].type = "Connect" => i = j

LEMMA HasAppend ==
  ASSUME NEW S, NEW q \in Seq(S), NEW m \in S
  PROVE  /\ \A t : Has(Append(q, m), t) <=> Has(q, t) \/ m.type = t
         /\ Once(q) /\ (m.type = "Connect" => ~Has(q, "Connect")) => Once(Append(q, m))
<1> DEFINE a == Append(q, m)
<1>1. /\ DOMAIN a = 1 .. Len(q) + 1 /\ DOMAIN q = 1 .. Len(q) /\ Len(q) \in Nat
      /\ a[Len(q) + 1] = m /\ \A i \in 1 .. Len(q) : a[i] = q[i]
  OBVIOUS
<1> HIDE DEF a
<1>2. \A i \in DOMAIN a : i = Len(q) + 1 \/ (i \in DOMAIN q /\ a[i] = q[i])
  BY <1>1
<1>3. \A i \in DOMAIN q : i \in DOMAIN a /\ a[i] = q[i]
  BY <1>1
<1>4. Len(q) + 1 \in DOMAIN a
  BY <1>1
<1>5. ASSUME NEW t PROVE Has(a, t) <=> Has(q, t) \/ m.type = t
  BY <1>1, <1>2, <1>3, <1>4 DEF Has
<1>6. Once(q) /\ (m.type = "Connect" => ~Has(q, "Connect")) => Once(a)
  BY <1>1, <1>2 DEF Has, Once
<1> QED BY <1>5, <1>6 DEF a

LEMMA HasTail ==
  ASSUME NEW S, NEW q \in Seq(S), q # <<>>
  PROVE  /\ \A t : Has(q, t) <=> Head(q).type = t \/ Has(Tail(q), t)
         /\ Once(q) => Once(Tail(q)) /\ (Head(q).type = "Connect" => ~Has(Tail(q), "Connect"))
<1> DEFINE r == Tail(q)
<1>1. \A i \in DOMAIN r : i + 1 \in DOMAIN q /\ r[i] = q[i + 1] /\ i \in Nat /\ i + 1 # 1
  OBVIOUS
<1>2. 1 \in DOMAIN q /\ Head(q) = q[1]
  OBVIOUS
<1>3. \A i \in DOMAIN q : i = 1 \/ (i - 1 \in DOMAIN r /\ q[i] = r[i - 1])
  OBVIOUS
<1> HIDE DEF r
<1>4. ASSUME NEW t PROVE Has(q, t) <=> Head(q).type = t \/ Has(r, t)
  <2>1. Has(q, t) => Head(q).type = t \/ Has(r, t)
    BY <1>2, <1>3 DEF Has
  <2>2. Has(r, t) => Has(q, t)
    BY <1>1 DEF Has
  <2> QED BY <1>2, <2>1, <2>2 DEF Has
<1>5. ASSUME Once(q) PROVE Once(r)
  <2> SUFFICES ASSUME NEW i \in DOMAIN r, NEW j \in DOMAIN r,
                      r[i].type = "Connect", r[j].type = "Connect"
               PROVE  i = j
    BY DEF Once
  <2>1. i + 1 = j + 1
    BY <1>1, <1>5 DEF Once
  <2> QED BY <1>1, <2>1
<1>6. Once(q) /\ Head(q).type = "Connect" => ~Has(r, "Connect")
  BY <1>1, <1>2 DEF Has, Once
<1> QED BY <1>4, <1>5, <1>6 DEF r

LEMMA HasNone ==
  /\ \A t : ~Has(<<>>, t)
  /\ Once(<<>>)
  /\ \A m : Once(<<m>>) /\ \A t : Has(<<m>>, t) <=> m.type = t
BY DEF Has, Once

-----------------------------------------------------------------------------
(* Where the notice is.                                                    *)

InInbox  == Has(inbox, "Connect")
InOutBox == Has(client.outBox, "Connect")
InQueue  == Has(queue, "Connect")
InHand   == receiver.pc = "control" /\ receiver.msg.type = "Connect"
Echoing  == InOutBox \/ InQueue \/ InHand \/ connectionAcknowledgedCondition

\* As long as no connect has given up there is one notice, and only while the
\* program waits for its echo.
Chain ==
  /\ Once(inbox) /\ Once(client.outBox) /\ Once(queue)
  /\ InInbox => ~Echoing
  /\ InOutBox => ~InQueue /\ ~InHand /\ ~connectionAcknowledgedCondition
  /\ InQueue => ~InHand /\ ~connectionAcknowledgedCondition
  /\ InHand => ~connectionAcknowledgedCondition
  /\ app # "wait" => ~InInbox /\ ~Echoing

\* The notice that the server has not taken yet comes after all that was sent on
\* earlier sockets.
NoticeIsLast ==
  app = "wait" /\ fd_ # 0 =>
    \A i \in DOMAIN inbox : inbox[i].type = "Connect" => i = Len(inbox)

\* When it has taken it, it has the client at its socket, and nothing in its way
\* to the server will change that.
Subscribing == fd_ # 0 /\ (app = "resubscribe" \/ (app \in {"idle", "call"} /\ isConnected))
ServerHasClient ==
  /\ app \in {"join", "open", "notice"} => ~isConnected
  /\ Subscribing \/ (fd_ # 0 /\ app = "wait" /\ Echoing) =>
       client.to = fd_ /\ ~InInbox /\ ~Has(inbox, "Disconnect")

KInv == ~timedOut /\ app # "crashed" => Chain /\ NoticeIsLast /\ ServerHasClient

\* Steps that leave all that as it is.
LEMMA Frame ==
  ASSUME KInv, UNCHANGED <<app, isConnected, fd_, queue, connectionAcknowledgedCondition, inbox,
                           client, timedOut>>, InHand' <=> InHand
  PROVE  KInv'
BY DEF KInv, Chain, NoticeIsLast, ServerHasClient, Subscribing, InInbox, InOutBox, InQueue, Echoing

\* While the program does not wait for it there is no notice.
LEMMA Quiet ==
  ASSUME KInv, ~timedOut, app \notin {"wait", "crashed"}
  PROVE  /\ ~InInbox /\ ~InOutBox /\ ~InQueue /\ ~InHand /\ ~connectionAcknowledgedCondition
         /\ ServerHasClient
BY DEF KInv, Chain, Echoing

LEMMA QuietIs ==
  ASSUME app' # "wait", ~InInbox', ~InOutBox', ~InQueue', ~InHand', ~connectionAcknowledgedCondition',
         ServerHasClient'
  PROVE  KInv'
<1>1. Once(inbox') /\ Once(client'.outBox) /\ Once(queue')
  BY DEF InInbox, InOutBox, InQueue, Has, Once
<1>2. Chain' /\ NoticeIsLast'
  BY <1>1 DEF Chain, NoticeIsLast, Echoing
<1> QED BY <1>2 DEF KInv

\* closeConnection tells the server, or fails to.
LEMMA TellsDisconnect ==
  ASSUME TInv, Tell(Notice("Disconnect"))
  PROVE  (InInbox' <=> InInbox) /\ (Once(inbox) => Once(inbox'))
<1> DEFINE n == Notice("Disconnect")
<1>1. n \in RequestType /\ n.type = "Disconnect" /\ inbox \in Seq(RequestType)
  BY RequestsTyped DEF Notice, Request, TInv, TypeOK
<1>2. inbox' = inbox \/ inbox' = Append(inbox, n)
  BY DEF Tell
<1> HIDE DEF n
<1>3. /\ Has(Append(inbox, n), "Connect") <=> Has(inbox, "Connect") \/ n.type = "Connect"
      /\ Once(inbox) => Once(Append(inbox, n))
  BY <1>1, HasAppend
<1> QED BY <1>1, <1>2, <1>3 DEF InInbox

\* The socket is closed: what it holds is gone.
LEMMA Closes ==
  ASSUME KInv, ~timedOut, app # "crashed", CloseFds, UNCHANGED <<client, timedOut, inbox>>,
         InHand' => InHand, connectionAcknowledgedCondition' = connectionAcknowledgedCondition,
         app' = app, isConnected' = isConnected
  PROVE  KInv'
<1>0. Chain /\ NoticeIsLast /\ ServerHasClient
  BY DEF KInv
<1>1. fd_' = 0 /\ queue' = <<>>
  BY DEF CloseFds
<1>2. (InInbox' <=> InInbox) /\ (InOutBox' <=> InOutBox) /\ ~InQueue' /\ Once(queue')
  BY <1>1, HasNone DEF InInbox, InOutBox, InQueue
<1>3. Chain'
  BY <1>0, <1>1, <1>2 DEF Chain, Echoing
<1>4. NoticeIsLast' /\ ServerHasClient'
  BY <1>0, <1>1 DEF NoticeIsLast, ServerHasClient, Subscribing
<1> QED BY <1>3, <1>4 DEF KInv

\* A request to subscribe or to unsubscribe is neither a notice.
LEMMA SentKeeps == ASSUME TInv, KInv, ~timedOut, app # "crashed", Sent PROVE KInv'
<1>0. /\ app \in {"notice", "call", "resubscribe"} /\ inbox \in Seq(RequestType)
      /\ request \in RequestType /\ inbox' = Append(inbox, request)
      /\ app = "notice" => request = Notice("Connect")
      /\ app # "notice" => request.type \in {"Subscribe", "Unsubscribe"}
  BY DEF TInv, TypeOK, Asks, Sent
<1>1. /\ UNCHANGED <<fd_, queue, client, connectionAcknowledgedCondition, receiver, isConnected>>
      /\ app' = CASE app = "notice" -> "wait" [] app = "call" -> "idle" [] OTHER -> app
  BY DEF Sent, conditions, server
<1>2. /\ ~InInbox /\ ~InOutBox /\ ~InQueue /\ ~InHand /\ ~connectionAcknowledgedCondition
      /\ ServerHasClient
  BY <1>0, Quiet
<1>3. ~InOutBox' /\ ~InQueue' /\ ~InHand' /\ ~connectionAcknowledgedCondition'
  BY <1>1, <1>2 DEF InOutBox, InQueue, InHand
<1>4. /\ \A t : Has(inbox', t) <=> Has(inbox, t) \/ request.type = t
      /\ Once(inbox) /\ (request.type = "Connect" => ~Has(inbox, "Connect")) => Once(inbox')
  BY <1>0, HasAppend
<1>5. CASE app = "notice"
  <2>1. Once(inbox) /\ Once(client'.outBox) /\ Once(queue')
    BY <1>2, <1>3 DEF InInbox, InOutBox, InQueue, Has, Once
  <2>2. Once(inbox')
    BY <1>2, <1>4, <2>1 DEF InInbox
  <2>3. \A i \in DOMAIN inbox' : inbox'[i].type = "Connect" => i = Len(inbox')
    <3>1. /\ DOMAIN inbox' = 1 .. Len(inbox) + 1 /\ Len(inbox') = Len(inbox) + 1
          /\ DOMAIN inbox = 1 .. Len(inbox) /\ Len(inbox) \in Nat
          /\ \A i \in 1 .. Len(inbox) : inbox'[i] = inbox[i]
      BY <1>0
    <3> QED BY <1>2, <3>1 DEF InInbox, Has
  <2>4. app' = "wait"
    BY <1>1, <1>5
  <2>5. Chain' /\ NoticeIsLast' /\ ServerHasClient'
    BY <1>3, <2>1, <2>2, <2>3, <2>4 DEF Chain, Echoing, NoticeIsLast, ServerHasClient, Subscribing
  <2> QED BY <2>5 DEF KInv
<1>6. CASE app # "notice"
  <2>1. ~InInbox' /\ (Has(inbox', "Disconnect") <=> Has(inbox, "Disconnect"))
    BY <1>0, <1>2, <1>4, <1>6 DEF InInbox
  <2>2. app' \in {"idle", "resubscribe"} /\ (Subscribing' => Subscribing)
    BY <1>0, <1>1, <1>6 DEF Subscribing
  <2>3. ServerHasClient'
    BY <1>1, <1>2, <2>1, <2>2 DEF ServerHasClient
  <2> QED BY <1>3, <2>1, <2>2, <2>3, QuietIs
<1> QED BY <1>5, <1>6

\* A step of the program that sends nothing and receives nothing.
LEMMA MovesOn ==
  ASSUME KInv, ~timedOut, app \notin {"wait", "crashed"}, app' \notin {"wait", "crashed"},
         UNCHANGED <<queue, inbox, client, connectionAcknowledgedCondition>>,
         InHand' => InHand, app' \in {"join", "open", "notice"} => ~isConnected',
         Subscribing' => Subscribing /\ fd_' = fd_
  PROVE  KInv'
<1>1. /\ ~InInbox /\ ~InOutBox /\ ~InQueue /\ ~InHand /\ ~connectionAcknowledgedCondition
      /\ ServerHasClient
  BY Quiet
<1>2. ~InInbox' /\ ~InOutBox' /\ ~InQueue' /\ ~InHand'
  BY <1>1 DEF InInbox, InOutBox, InQueue
<1>3. ServerHasClient'
  BY <1>1, <1>2 DEF ServerHasClient
<1> QED BY <1>1, <1>2, <1>3, QuietIs

\* connect and disconnect.
LEMMA ConnectKeeps ==
  ASSUME TInv, KInv, ~timedOut, app # "crashed", disconnect \/ ConnectBegins \/ Program
  PROVE  KInv'
<1>0. TypeOK /\ Threads /\ Asks
  BY DEF TInv
<1>1. CASE disconnect
  BY <1>1, MovesOn DEF disconnect, conditions, server, Subscribing, InHand
<1>2. CASE CloseLocks
  <2>1. /\ app = "lock" /\ app' \in {"closing", "close"} /\ fd_' = 0 /\ queue' = <<>>
        /\ UNCHANGED <<inbox, client, connectionAcknowledgedCondition, receiver>>
    BY <1>2 DEF CloseLocks, CloseFds, conditions, server
  <2>2. ~InInbox /\ ~InOutBox /\ ~InHand /\ ~connectionAcknowledgedCondition
    BY <2>1, Quiet
  <2>3. ~InInbox' /\ ~InOutBox' /\ ~InQueue' /\ ~InHand'
    BY <2>1, <2>2, HasNone DEF InInbox, InOutBox, InQueue, InHand
  <2> QED BY <2>1, <2>2, <2>3, QuietIs DEF ServerHasClient, Subscribing
<1>3. CASE CloseTells
  <2>1. /\ app = "closing" /\ app' = "close" /\ Tell(Notice("Disconnect"))
        /\ UNCHANGED <<fd_, queue, client, connectionAcknowledgedCondition, receiver>>
    BY <1>3 DEF CloseTells, conditions, server
  <2>2. ~InInbox /\ ~InOutBox /\ ~InQueue /\ ~InHand /\ ~connectionAcknowledgedCondition
    BY <2>1, Quiet
  <2>3. ~InInbox' /\ ~InOutBox' /\ ~InQueue' /\ ~InHand'
    BY <2>1, <2>2, TellsDisconnect DEF InOutBox, InQueue, InHand
  <2> QED BY <2>1, <2>2, <2>3, QuietIs DEF ServerHasClient, Subscribing
<1>4. CASE CloseJoins
  BY <1>0, <1>4, MovesOn DEF CloseJoins, Threads, conditions, server, Subscribing, InHand, NoThread
<1>5. CASE ConnectBegins
  BY <1>5, MovesOn DEF ConnectBegins, conditions, server, Subscribing, InHand
<1>6. CASE ConnectJoins
  <2>1. ~isConnected
    BY <1>6, Quiet DEF ConnectJoins, ServerHasClient
  <2> QED BY <1>6, <2>1, MovesOn DEF ConnectJoins, conditions, server, Subscribing, InHand, NoThread
<1>7. CASE Open
  <2>1. ~isConnected /\ fd_ = 0
    BY <1>0, <1>7, Quiet DEF Open, ServerHasClient, Threads
  <2>2. /\ app = "open" /\ app' \in {"notice", "idle", "close", "closing"}
        /\ UNCHANGED <<queue, inbox, client, connectionAcknowledgedCondition, isConnected>>
        /\ receiver' = At("loop") \/ receiver' = receiver
    BY <1>7 DEF Open, InitConditions, conditions, server
  <2>3. InHand' => InHand
    BY <2>2 DEF InHand, At
  <2>4. ~Subscribing'
    BY <2>1, <2>2 DEF Subscribing
  <2> QED BY <2>1, <2>2, <2>3, <2>4, MovesOn
<1>8. CASE NotSent
  <2>1. /\ app \in {"notice", "call", "resubscribe"}
        /\ app' = IF app = "resubscribe" THEN app ELSE "idle"
        /\ UNCHANGED <<fd_, queue, inbox, client, connectionAcknowledgedCondition, isConnected, receiver>>
    BY <1>0, <1>8 DEF NotSent, Asks, conditions, server
  <2>2. app = "notice" => ~isConnected
    BY Quiet DEF ServerHasClient
  <2> QED BY <2>1, <2>2, MovesOn DEF Subscribing, InHand
<1>9. CASE Acknowledged
  <2>1. /\ app = "wait" /\ connectionAcknowledgedCondition /\ app' = "resubscribe"
        /\ connectionAcknowledgedCondition' = FALSE
        /\ UNCHANGED <<fd_, queue, client, receiver, isConnected, inbox>>
    BY <1>9 DEF Acknowledged, Echoed, server
  <2>2. Chain /\ ServerHasClient
    BY DEF KInv
  <2>3. ~InInbox /\ ~InOutBox /\ ~InQueue /\ ~InHand
    BY <2>1, <2>2 DEF Chain, Echoing
  <2>4. ~InInbox' /\ ~InOutBox' /\ ~InQueue' /\ ~InHand'
    BY <2>1, <2>3 DEF InInbox, InOutBox, InQueue, InHand
  <2>5. ServerHasClient'
    BY <2>1, <2>2, <2>4 DEF ServerHasClient, Echoing, Subscribing
  <2> QED BY <2>1, <2>4, <2>5, QuietIs
<1>10. CASE TimesOut
  BY <1>10 DEF TimesOut, KInv
<1>11. ASSUME NEW c \in Channels, Resubscribe(c) PROVE KInv'
  BY <1>11, Frame DEF Resubscribe, conditions, server, bounds, InHand
<1>12. CASE Connected
  BY <1>12, MovesOn DEF Connected, conditions, server, Subscribing, InHand
<1> QED BY <1>1, <1>2, <1>3, <1>4, <1>5, <1>6, <1>7, <1>8, <1>9, <1>10, <1>11, <1>12, SentKeeps
        DEF Program, Sending, Closing, Connecting

\* subscribe, unsubscribe and receiveMsg.
LEMMA CallsKeep ==
  ASSUME TInv, KInv, ~timedOut, NEW c \in Channels, subscribe(c) \/ unsubscribe(c) \/ receiveMsg(c)
  PROVE  KInv'
<1>1. CASE subscribe(c) \/ unsubscribe(c)
  <2>1. /\ app = "idle" /\ app' \in {"idle", "call"}
        /\ UNCHANGED <<fd_, queue, inbox, client, connectionAcknowledgedCondition, isConnected, receiver>>
    BY <1>1 DEF subscribe, unsubscribe, conditions, server
  <2> QED BY <2>1, MovesOn DEF Subscribing, InHand
<1>2. receiveMsg(c) => KInv'
  BY Frame DEF receiveMsg, server, bounds, InHand
<1> QED BY <1>1, <1>2

-----------------------------------------------------------------------------
(* The receiver thread.                                                    *)

LEMMA ReceiveKeeps == ASSUME TInv, KInv, ~timedOut, app # "crashed", Receive PROVE KInv'
<1>0. /\ Chain /\ NoticeIsLast /\ ServerHasClient /\ queue \in Seq(MessageType)
      /\ receiver.pc = "loop" /\ ~InHand
  BY DEF KInv, TInv, TypeOK, Receive, InHand
<1>1. UNCHANGED <<app, isConnected, fd_, inbox, client, connectionAcknowledgedCondition, timedOut>>
  BY DEF Receive, server, conditions, bounds
<1>2. CASE UNCHANGED queue /\ ~InHand'
  BY <1>0, <1>1, <1>2, Frame
<1>3. CASE /\ queue # <<>> /\ queue' = Tail(queue)
           /\ InHand' => Head(queue).type = "Connect"
  <2>1. /\ InQueue <=> Head(queue).type = "Connect" \/ Has(queue', "Connect")
        /\ Once(queue')
        /\ Head(queue).type = "Connect" => ~Has(queue', "Connect")
    <3>1. /\ Has(queue, "Connect") <=> Head(queue).type = "Connect" \/ Has(Tail(queue), "Connect")
          /\ Once(queue) => Once(Tail(queue)) /\ (Head(queue).type = "Connect" => ~Has(Tail(queue), "Connect"))
      BY <1>0, <1>3, HasTail
    <3> QED BY <1>0, <1>3, <3>1 DEF InQueue, Chain
  <2>2. (InInbox' <=> InInbox) /\ (InOutBox' <=> InOutBox)
    BY <1>1 DEF InInbox, InOutBox
  <2>3. Echoing' => Echoing
    BY <1>0, <1>1, <1>3, <2>1, <2>2 DEF Echoing, InQueue
  <2>4. Chain'
    BY <1>0, <1>1, <1>3, <2>1, <2>2, <2>3 DEF Chain, Echoing, InQueue
  <2>5. NoticeIsLast' /\ ServerHasClient'
    BY <1>0, <1>1, <2>2, <2>3 DEF NoticeIsLast, ServerHasClient, Subscribing
  <2> QED BY <2>4, <2>5 DEF KInv
<1>4. \/ UNCHANGED queue /\ ~InHand'
      \/ /\ queue # <<>> /\ queue' = Tail(queue)
         /\ InHand' => Head(queue).type = "Connect"
  <2>1. \E n \in 0 .. Len(fragmentBuffersLRU_) : Round(n)
    BY RoundTheLoop DEF TInv
  <2> QED BY <1>0, <2>1 DEF Round, TakeFragment, DropFragment, At, InHand
<1> QED BY <1>2, <1>3, <1>4

LEMMA ControlKeeps == ASSUME TInv, KInv, ~timedOut, app # "crashed", handleControlMsg PROVE KInv'
<1>0. Chain /\ NoticeIsLast /\ ServerHasClient
  BY DEF KInv
<1>1. /\ UNCHANGED <<app, isConnected, fd_, inbox, client, queue, timedOut>> /\ ~InHand'
      /\ connectionAcknowledgedCondition' <=> connectionAcknowledgedCondition \/ InHand
  BY DEF handleControlMsg, server, bounds, At, InHand
<1>2. (InInbox' <=> InInbox) /\ (InOutBox' <=> InOutBox) /\ (InQueue' <=> InQueue)
  BY <1>1 DEF InInbox, InOutBox, InQueue
<1>3. Echoing' <=> Echoing
  BY <1>1, <1>2 DEF Echoing
<1>4. Chain'
  BY <1>0, <1>1, <1>2, <1>3 DEF Chain, Echoing
<1>5. NoticeIsLast' /\ ServerHasClient'
  BY <1>0, <1>1, <1>2, <1>3 DEF NoticeIsLast, ServerHasClient, Subscribing
<1> QED BY <1>4, <1>5 DEF KInv

LEMMA ReceiverKeeps ==
  ASSUME TInv, KInv, ~timedOut, app # "crashed", Receiver \/ Report \/ ReceiveFails
  PROVE  KInv'
<1>1. CASE Complete \/ SetAvailable \/ Report \/ Reported
  <2>1. /\ UNCHANGED <<app, isConnected, fd_, queue, connectionAcknowledgedCondition, inbox, client, timedOut>>
        /\ receiver.pc # "control" /\ receiver'.pc # "control"
    BY <1>1 DEF Complete, SetAvailable, Report, Reported, server, conditions, bounds, At, TInv, TypeOK, ReceiverType
  <2> QED BY <2>1, Frame DEF InHand
<1>2. CASE ReceiveFails
  <2>1. /\ ~InHand' /\ CloseFds
        /\ UNCHANGED <<app, isConnected, client, inbox, timedOut, connectionAcknowledgedCondition>>
    BY <1>2 DEF ReceiveFails, server, conditions, At, InHand
  <2> QED BY <2>1, Closes
<1>3. CASE ReceiverEnds
  BY <1>3, Frame DEF ReceiverEnds, server, conditions, bounds, InHand, At
<1>4. CASE ReceiverTells
  <2>1. /\ UNCHANGED <<app, isConnected, fd_, queue, client, timedOut, connectionAcknowledgedCondition>>
        /\ Tell(Notice("Disconnect")) /\ ~InHand' /\ receiver.pc = "closing"
    BY <1>4 DEF ReceiverTells, server, conditions, At, InHand
  <2>2. fd_ = 0
    BY <2>1 DEF TInv, Threads, OneReceiver
  <2>3. Chain /\ ServerHasClient /\ (InInbox' <=> InInbox) /\ (Once(inbox) => Once(inbox'))
    BY <2>1, TellsDisconnect DEF KInv
  <2>4. (InOutBox' <=> InOutBox) /\ (InQueue' <=> InQueue)
    BY <2>1 DEF InOutBox, InQueue
  <2>5. Chain'
    BY <2>1, <2>3, <2>4 DEF Chain, Echoing
  <2>6. NoticeIsLast' /\ ServerHasClient'
    BY <2>1, <2>2, <2>3 DEF NoticeIsLast, ServerHasClient, Subscribing
  <2> QED BY <2>5, <2>6 DEF KInv
<1> QED BY <1>1, <1>2, <1>3, <1>4, ReceiveKeeps, ControlKeeps DEF Receiver

-----------------------------------------------------------------------------
(* The server.                                                             *)

\* It takes a request and appends its echo to the outBox, if at all.
LEMMA TakesRequest ==
  ASSUME TInv, KInv, ~timedOut, app # "crashed", inbox # <<>>, inbox' = Tail(inbox), Head(inbox).type # "Connect",
         Head(inbox).type = "Disconnect" => client' = NotKnown,
         Head(inbox).type # "Disconnect" =>
           client' = client \/ client' = [client EXCEPT !.outBox = Append(@, Head(inbox))],
         UNCHANGED <<app, isConnected, fd_, queue, connectionAcknowledgedCondition, timedOut, receiver>>
  PROVE  KInv'
<1> DEFINE m == Head(inbox)
<1>0. /\ Chain /\ NoticeIsLast /\ ServerHasClient /\ inbox \in Seq(RequestType)
      /\ client.outBox \in Seq(MessageType) /\ m \in MessageType
      /\ client = [to |-> client.to, outBox |-> client.outBox]
  BY DEF KInv, TInv, TypeOK, MessageType
<1>1. /\ \A t : Has(inbox, t) <=> m.type = t \/ Has(Tail(inbox), t)
      /\ Once(inbox) => Once(Tail(inbox))
  BY <1>0, HasTail
<1>2. /\ \A t : Has(Append(client.outBox, m), t) <=> Has(client.outBox, t) \/ m.type = t
      /\ Once(client.outBox) => Once(Append(client.outBox, m))
  BY <1>0, HasAppend
<1>3. (InInbox' <=> InInbox) /\ Once(inbox') /\ (Has(inbox', "Disconnect") => Has(inbox, "Disconnect"))
  BY <1>0, <1>1 DEF InInbox, Chain
<1>4. /\ Once(client'.outBox)
      /\ m.type # "Disconnect" => (InOutBox' <=> InOutBox) /\ client'.to = client.to
      /\ InOutBox' => InOutBox
  <2>1. CASE m.type = "Disconnect"
    BY <2>1, HasNone DEF NotKnown, InOutBox
  <2>2. CASE m.type # "Disconnect" /\ client' = client
    BY <1>0, <2>2 DEF InOutBox, Chain
  <2>3. CASE m.type # "Disconnect" /\ client' = [client EXCEPT !.outBox = Append(@, m)]
    <3>1. client'.outBox = Append(client.outBox, m) /\ client'.to = client.to
      BY <1>0, <2>3
    <3> QED BY <1>0, <1>2, <2>3, <3>1 DEF InOutBox, Chain
  <2> QED BY <2>1, <2>2, <2>3
<1>5. (InQueue' <=> InQueue) /\ (InHand' <=> InHand)
  BY DEF InQueue, InHand
<1>6. (Echoing' => Echoing) /\ (m.type # "Disconnect" => (Echoing' <=> Echoing))
  BY <1>4, <1>5 DEF Echoing
<1>7. Chain'
  BY <1>0, <1>3, <1>4, <1>5, <1>6 DEF Chain
<1>8. NoticeIsLast'
  <2> SUFFICES ASSUME app = "wait", fd_ # 0, NEW i \in DOMAIN Tail(inbox), Tail(inbox)[i].type = "Connect"
               PROVE  i = Len(Tail(inbox))
    BY DEF NoticeIsLast
  <2>1. /\ i + 1 \in DOMAIN inbox /\ Tail(inbox)[i] = inbox[i + 1]
        /\ Len(Tail(inbox)) = Len(inbox) - 1 /\ i \in Nat /\ Len(inbox) \in Nat
    BY <1>0
  <2>2. i + 1 = Len(inbox)
    BY <1>0, <2>1 DEF NoticeIsLast
  <2> QED BY <2>1, <2>2
<1>9. ServerHasClient'
  <2>1. m.type = "Disconnect" => Has(inbox, "Disconnect")
    BY <1>1
  <2> QED BY <1>0, <1>3, <1>4, <1>6, <2>1 DEF ServerHasClient, Subscribing
<1> QED BY <1>7, <1>8, <1>9 DEF KInv

\* It takes the notice of a connection.
LEMMA TakesNotice ==
  ASSUME TInv, KInv, ~timedOut, app # "crashed", inbox # <<>>, inbox' = Tail(inbox), Head(inbox).type = "Connect",
         client' = NotKnown \/ (fd_ # 0 /\ client' = [to |-> fd_, outBox |-> <<Head(inbox)>>]),
         UNCHANGED <<app, isConnected, fd_, queue, connectionAcknowledgedCondition, timedOut, receiver>>
  PROVE  KInv'
<1> DEFINE m == Head(inbox)
<1>0. Chain /\ NoticeIsLast /\ ServerHasClient /\ inbox \in Seq(RequestType)
  BY DEF KInv, TInv, TypeOK
<1>1. InInbox /\ ~Has(inbox', "Connect") /\ Once(inbox')
  <2>1. /\ Has(inbox, "Connect") <=> m.type = "Connect" \/ Has(Tail(inbox), "Connect")
        /\ Once(inbox) => Once(Tail(inbox)) /\ (m.type = "Connect" => ~Has(Tail(inbox), "Connect"))
    BY <1>0, HasTail
  <2> QED BY <1>0, <2>1 DEF InInbox, Chain
<1>2. app = "wait" /\ ~Echoing
  BY <1>0, <1>1 DEF Chain
<1>3. ~InInbox' /\ ~InQueue' /\ ~InHand' /\ ~connectionAcknowledgedCondition'
  BY <1>1, <1>2 DEF Echoing, InInbox, InQueue, InHand
<1>4. Once(client'.outBox)
  BY HasNone DEF NotKnown
<1>5. Chain'
  BY <1>0, <1>2, <1>3, <1>4, <1>1 DEF Chain, Echoing
<1>6. NoticeIsLast'
  BY <1>3 DEF NoticeIsLast, InInbox, Has
<1>7. ServerHasClient'
  <2> SUFFICES ASSUME fd_ # 0, Echoing' PROVE client'.to = fd_ /\ ~Has(inbox', "Disconnect")
    BY <1>2, <1>3 DEF ServerHasClient, Subscribing
  <2>1. client'.to = fd_
    BY <1>3, HasNone DEF Echoing, InOutBox, NotKnown
  <2>2. 1 \in DOMAIN inbox /\ inbox[1] = m
    BY <1>0
  <2>3. Len(inbox) = 1
    BY <1>0, <1>2, <2>2 DEF NoticeIsLast
  <2>4. Tail(inbox) = <<>>
    BY <1>0, <2>3
  <2> QED BY <2>1, <2>4, HasNone
<1> QED BY <1>5, <1>6, <1>7 DEF KInv

LEMMA ReceivesKeeps == ASSUME TInv, KInv, ~timedOut, app # "crashed", ServerReceives PROVE KInv'
<1>1. /\ inbox # <<>> /\ inbox' = Tail(inbox)
      /\ UNCHANGED <<app, isConnected, fd_, queue, connectionAcknowledgedCondition, timedOut, receiver>>
  BY DEF ServerReceives, conditions
<1>2. CASE Head(inbox).type = "Connect"
  <2>1. client' = NotKnown \/ (fd_ # 0 /\ client' = [to |-> fd_, outBox |-> <<Head(inbox)>>])
    BY <1>2 DEF ServerReceives, ServerConnects, ServerForgets
  <2> QED BY <1>1, <1>2, <2>1, TakesNotice
<1>3. CASE Head(inbox).type # "Connect"
  <2>1. Head(inbox).type = "Disconnect" => client' = NotKnown
    BY DEF ServerReceives, ServerForgets
  <2>2. Head(inbox).type # "Disconnect" =>
           client' = client \/ client' = [client EXCEPT !.outBox = Append(@, Head(inbox))]
    BY <1>3 DEF ServerReceives
  <2> QED BY <1>1, <1>3, <2>1, <2>2, TakesRequest
<1> QED BY <1>2, <1>3

LEMMA WritesKeeps == ASSUME TInv, KInv, ~timedOut, app # "crashed", ServerWrites PROVE KInv'
<1> DEFINE m == Head(client.outBox)
<1>0. /\ Chain /\ NoticeIsLast /\ ServerHasClient
      /\ client.outBox \in Seq(MessageType) /\ client.outBox # <<>> /\ queue \in Seq(MessageType)
      /\ client = [to |-> client.to, outBox |-> client.outBox]
  BY DEF KInv, TInv, TypeOK, ServerWrites
<1>1. /\ UNCHANGED <<app, isConnected, fd_, inbox, connectionAcknowledgedCondition, timedOut, receiver>>
      /\ (InInbox' <=> InInbox) /\ (InHand' <=> InHand)
  BY DEF ServerWrites, conditions, bounds, InInbox, InHand
<1>2. /\ InOutBox <=> m.type = "Connect" \/ Has(Tail(client.outBox), "Connect")
      /\ Once(Tail(client.outBox)) /\ (m.type = "Connect" => ~Has(Tail(client.outBox), "Connect"))
  <2>1. /\ Has(client.outBox, "Connect") <=> m.type = "Connect" \/ Has(Tail(client.outBox), "Connect")
        /\ Once(client.outBox) => /\ Once(Tail(client.outBox))
                                  /\ m.type = "Connect" => ~Has(Tail(client.outBox), "Connect")
    BY <1>0, HasTail
  <2> QED BY <1>0, <2>1 DEF InOutBox, Chain
<1>3. CASE client.to = fd_ /\ queue' = Append(queue, m) /\ client' = [client EXCEPT !.outBox = Tail(@)]
  <2>1. client'.to = client.to /\ client'.outBox = Tail(client.outBox)
    BY <1>0, <1>3
  <2>2. /\ InQueue' <=> InQueue \/ m.type = "Connect"
        /\ Once(queue')
    <3>1. m \in MessageType
      BY <1>0
    <3>2. /\ Has(Append(queue, m), "Connect") <=> Has(queue, "Connect") \/ m.type = "Connect"
          /\ Once(queue) /\ (m.type = "Connect" => ~Has(queue, "Connect")) => Once(Append(queue, m))
      BY <1>0, <3>1, HasAppend
    <3>3. m.type = "Connect" => ~InQueue
      BY <1>0, <1>2 DEF Chain
    <3> QED BY <1>0, <1>3, <3>2, <3>3 DEF InQueue, Chain
  <2>3. (InOutBox' <=> Has(Tail(client.outBox), "Connect")) /\ Once(client'.outBox)
    BY <1>2, <2>1 DEF InOutBox
  <2>4. Echoing' <=> Echoing
    BY <1>1, <1>2, <2>2, <2>3 DEF Echoing
  <2>5. Chain'
    BY <1>0, <1>1, <1>2, <2>2, <2>3, <2>4 DEF Chain, Echoing
  <2> QED BY <1>0, <1>1, <2>1, <2>4, <2>5 DEF KInv, NoticeIsLast, ServerHasClient, Subscribing
<1>4. CASE client.to # fd_ /\ ServerForgets /\ UNCHANGED queue
  <2>1. ~InOutBox' /\ Once(client'.outBox) /\ (InQueue' <=> InQueue)
    BY <1>4, HasNone DEF ServerForgets, NotKnown, InOutBox, InQueue
  <2>2. Echoing' => Echoing
    BY <1>1, <2>1 DEF Echoing
  <2>3. Chain'
    BY <1>0, <1>1, <1>4, <2>1, <2>2 DEF Chain
  <2>4. ServerHasClient'
    BY <1>0, <1>1, <1>4, <2>2 DEF ServerHasClient, Subscribing
  <2> QED BY <1>0, <1>1, <2>3, <2>4 DEF KInv, NoticeIsLast
<1> QED BY <1>3, <1>4 DEF ServerWrites

LEMMA PublishKeeps ==
  ASSUME TInv, KInv, ~timedOut, app # "crashed", NEW m \in Messages, NEW p \in Pages(m), Publish(m, p)
  PROVE  KInv'
<1> DEFINE f == Fragment(m, p)
<1>0. /\ Chain /\ NoticeIsLast /\ ServerHasClient /\ client.outBox \in Seq(MessageType)
      /\ client = [to |-> client.to, outBox |-> client.outBox]
  BY DEF KInv, TInv, TypeOK
<1>1. f \in MessageType /\ f.type = "Fragment"
  BY RequestsTyped, MessagesTyped DEF MessageType
<1>2. /\ UNCHANGED <<app, isConnected, fd_, inbox, queue, connectionAcknowledgedCondition, timedOut, receiver>>
      /\ client' = [client EXCEPT !.outBox = Append(@, f)]
  BY DEF Publish, conditions, bounds
<1> HIDE DEF f
<1>3. client'.to = client.to /\ client'.outBox = Append(client.outBox, f)
  BY <1>0, <1>2
<1>4. (InOutBox' <=> InOutBox) /\ Once(client'.outBox)
  <2>1. /\ Has(Append(client.outBox, f), "Connect") <=> Has(client.outBox, "Connect") \/ f.type = "Connect"
        /\ Once(client.outBox) => Once(Append(client.outBox, f))
    BY <1>0, <1>1, HasAppend
  <2> QED BY <1>0, <1>1, <1>3, <2>1 DEF InOutBox, Chain
<1>5. (InInbox' <=> InInbox) /\ (InQueue' <=> InQueue) /\ (InHand' <=> InHand) /\ (Echoing' <=> Echoing)
  BY <1>2, <1>4 DEF InInbox, InQueue, InHand, Echoing
<1>6. Chain'
  BY <1>0, <1>2, <1>4, <1>5 DEF Chain
<1> QED BY <1>0, <1>2, <1>3, <1>5, <1>6 DEF KInv, NoticeIsLast, ServerHasClient, Subscribing

-----------------------------------------------------------------------------
\* What is given up, or dead, stays so.
LEMMA StaysGivenUp ==
  ASSUME TInv, [Next]_vars
  PROVE  (timedOut => timedOut') /\ (app = "crashed" => app' = "crashed")
<1>1. CASE disconnect \/ ConnectBegins \/ Closing \/ Connecting
  BY <1>1 DEF Closing, Connecting, disconnect, ConnectBegins, CloseLocks, CloseTells, CloseJoins,
     ConnectJoins, Open, Acknowledged, TimesOut, Resubscribe, Connected, bounds
<1>2. CASE Sending
  BY <1>2 DEF TInv, Asks, Sending, Sent, NotSent, bounds
<1>3. ASSUME NEW c \in Channels, subscribe(c) \/ unsubscribe(c) \/ receiveMsg(c)
      PROVE  (timedOut => timedOut') /\ (app = "crashed" => app' = "crashed")
  BY <1>3 DEF subscribe, unsubscribe, receiveMsg, bounds
<1>4. CASE Receiver \/ Report \/ ReceiveFails
  <2>1. UNCHANGED <<app, timedOut>>
    BY <1>4 DEF Receiver, Receive, Report, Reported, ReceiveFails, ReceiverTells, ReceiverEnds,
       handleControlMsg, Complete, SetAvailable, bounds
  <2> QED BY <2>1
<1>5. CASE Crash
  BY <1>5 DEF Crash, bounds
<1>6. CASE Server \/ (\E m \in Messages : \E p \in Pages(m) : Publish(m, p)) \/ UNCHANGED vars
  <2>1. ASSUME NEW m \in Messages, NEW p \in Pages(m), Publish(m, p) PROVE UNCHANGED <<app, timedOut>>
    BY <2>1 DEF Publish, bounds
  <2>2. Server \/ UNCHANGED vars => UNCHANGED <<app, timedOut>>
    BY DEF Server, ServerReceives, ServerWrites, bounds, vars
  <2> QED BY <1>6, <2>1, <2>2
<1> QED BY <1>1, <1>2, <1>3, <1>4, <1>5, <1>6 DEF Next, Program

LEMMA KInvKept == TInv /\ KInv /\ [Next]_vars => KInv'
<1> SUFFICES ASSUME TInv, KInv, [Next]_vars PROVE KInv'
  OBVIOUS
<1>1. CASE timedOut \/ app = "crashed"
  BY <1>1, StaysGivenUp DEF KInv
<1>2. CASE ~timedOut /\ app # "crashed" /\ Next
  <2>1. Crash => KInv'
    BY DEF Crash, KInv
  <2> QED BY <1>2, <2>1, ConnectKeeps, CallsKeep, ReceiverKeeps, ReceivesKeeps, WritesKeeps, PublishKeeps
             DEF Next, Server
<1>3. CASE UNCHANGED vars
  BY <1>3, Frame DEF vars, server, conditions, bounds, InHand
<1> QED BY <1>1, <1>2, <1>3

\* After a connect that returned Ok the server, when it has taken all requests, has
\* the client at the open socket, as long as no connect has given up (UnixClient.cc:280-302).
THEOREM ServerKnowsClientAlways == Spec => []ServerKnowsClient
<1>1. Init => KInv
  <2> SUFFICES ASSUME Init PROVE KInv
    OBVIOUS
  <2>1. ~InInbox /\ ~InOutBox /\ ~InQueue /\ ~InHand /\ ~Echoing
    BY HasNone DEF Init, InInbox, InOutBox, InQueue, InHand, Echoing, NoThread, NotKnown
  <2> QED BY <2>1, HasNone DEF Init, KInv, Chain, NoticeIsLast, ServerHasClient, Subscribing, NotKnown
<1>2. KInv => ServerKnowsClient
  BY DEF KInv, ServerHasClient, Subscribing, ServerKnowsClient
<1> QED BY <1>1, <1>2, KInvKept, TInvAlways, PTL DEF Spec



-----------------------------------------------------------------------------
(* The subscriptions.  No request of an earlier connection is acknowledged *)
(* when a channel is subscribed to again, and from then on the last        *)
(* request for it on its way to the server says what the client wants, if  *)
(* it could be sent.                                                       *)

\* The sockets are numbered by the attempt; the server may have an older one.
SocketsInOrder ==
  /\ fd_ \in {0, attempts} /\ client.to <= attempts
  /\ fd_ = 0 => queue = <<>>
  /\ client.to = 0 => client.outBox = <<>> /\ subscribers = {}
  /\ app \in {"join", "open", "notice"} => client.to < attempts

\* connect has not come to the channel yet, or there is no connection.
Asking(c) == app = "resubscribe" /\ fd_ # 0 /\ c \in asking
Unsubscribed ==
  \/ app \in {"open", "notice", "wait"}
  \/ fd_ = 0 /\ app # "close" /\ receiver.pc \in {"none", "done"}

\* A request for c, and an echo that will acknowledge it.
For(c, r)    == r.type \in {"Subscribe", "Unsubscribe"} /\ r.channel = c
NoneFor(q, c) == \A i \in DOMAIN q : ~For(c, q[i])
Acks(c, r)   == r.type = "Subscribe" /\ r.channel = c
NoAck(q, c)  == \A i \in DOMAIN q : ~Acks(c, q[i])
AckInHand(c) == receiver.pc = "control" /\ Acks(c, receiver.msg)

NoneAcknowledged(c) ==
  Unsubscribed \/ Asking(c) =>
    (c \in DOMAIN channels_ => ~channels_[c].acknowledged) /\ NoAck(queue, c) /\ ~AckInHand(c)

NewEntryIsEmpty(c) ==
  fd_ # 0 /\ client.to = fd_ /\ (app = "wait" \/ Asking(c)) =>
    c \notin subscribers /\ NoAck(client.outBox, c) /\ NoneFor(inbox, c) /\ ~For(c, request)

\* The last request for c in q, or if there is none the subscriptions S, say whether
\* c is in wanted.
Agree(q, S, c, wanted) ==
  /\ \A i \in DOMAIN q :
       For(c, q[i]) /\ (\A j \in DOMAIN q : For(c, q[j]) => j <= i) =>
         (q[i].type = "Subscribe" <=> c \in wanted)
  /\ NoneFor(q, c) => (c \in S <=> c \in wanted)

\* What the server has not taken yet, and what is being sent.
Asked == IF request = NoRequest THEN inbox ELSE Append(inbox, request)
RequestsSayIt(c) ==
  Subscribing /\ (c \notin unsent \/ For(c, request)) =>
    Agree(Asked, subscribers, c, DOMAIN channels_ \ asking)

SInv ==
  ~timedOut /\ app # "crashed" =>
    /\ SocketsInOrder
    /\ \A c \in Channels : NoneAcknowledged(c) /\ NewEntryIsEmpty(c) /\ RequestsSayIt(c)

LEMMA ForAppend ==
  ASSUME NEW S, NEW q \in Seq(S), NEW m \in S, NEW c
  PROVE  /\ NoneFor(Append(q, m), c) <=> NoneFor(q, c) /\ ~For(c, m)
         /\ NoAck(Append(q, m), c) <=> NoAck(q, c) /\ ~Acks(c, m)
<1> DEFINE a == Append(q, m)
<1>1. /\ DOMAIN a = 1 .. Len(q) + 1 /\ DOMAIN q = 1 .. Len(q) /\ Len(q) \in Nat
      /\ a[Len(q) + 1] = m /\ \A i \in 1 .. Len(q) : a[i] = q[i]
  OBVIOUS
<1> HIDE DEF a
<1>2. \A i \in DOMAIN a : a[i] = m \/ (i \in DOMAIN q /\ a[i] = q[i])
  BY <1>1
<1>3. \A i \in DOMAIN q : i \in DOMAIN a /\ a[i] = q[i]
  BY <1>1
<1>4. Len(q) + 1 \in DOMAIN a
  BY <1>1
<1>5. NoneFor(a, c) <=> NoneFor(q, c) /\ ~For(c, m)
  BY <1>1, <1>2, <1>3, <1>4 DEF NoneFor
<1>6. NoAck(a, c) <=> NoAck(q, c) /\ ~Acks(c, m)
  BY <1>1, <1>2, <1>3, <1>4 DEF NoAck
<1> QED BY <1>5, <1>6 DEF a

LEMMA ForTail ==
  ASSUME NEW S, NEW q \in Seq(S), q # <<>>, NEW c
  PROVE  /\ NoneFor(q, c) => NoneFor(Tail(q), c) /\ ~For(c, Head(q))
         /\ NoAck(q, c) => NoAck(Tail(q), c) /\ ~Acks(c, Head(q))
<1> DEFINE r == Tail(q)
<1>1. \A i \in DOMAIN r : i + 1 \in DOMAIN q /\ r[i] = q[i + 1]
  OBVIOUS
<1>2. 1 \in DOMAIN q /\ Head(q) = q[1]
  OBVIOUS
<1> HIDE DEF r
<1>3. NoneFor(q, c) => NoneFor(r, c) /\ ~For(c, Head(q))
  BY <1>1, <1>2 DEF NoneFor
<1>4. NoAck(q, c) => NoAck(r, c) /\ ~Acks(c, Head(q))
  BY <1>1, <1>2 DEF NoAck
<1> QED BY <1>3, <1>4 DEF r

LEMMA ForNone == \A c : NoneFor(<<>>, c) /\ NoAck(<<>>, c)
BY DEF NoneFor, NoAck

LEMMA AgreeAppend ==
  ASSUME NEW q \in Seq(RequestType), NEW r \in RequestType, NEW S, NEW c,
         NEW wanted, NEW before, Agree(q, S, c, before),
         IF For(c, r) THEN r.type = "Subscribe" <=> c \in wanted ELSE c \in wanted <=> c \in before
  PROVE  Agree(Append(q, r), S, c, wanted)
<1> DEFINE a == Append(q, r)
           k == Len(q) + 1
<1>1. /\ DOMAIN a = 1 .. k /\ DOMAIN q = 1 .. Len(q) /\ Len(q) \in Nat /\ a[k] = r
      /\ \A i \in 1 .. Len(q) : a[i] = q[i]
  OBVIOUS
<1> HIDE DEF a
<1>2. /\ \A i \in DOMAIN a : (i = k /\ a[i] = r) \/ (i \in DOMAIN q /\ a[i] = q[i] /\ i < k)
      /\ k \in DOMAIN a /\ \A i \in DOMAIN q : i \in DOMAIN a /\ a[i] = q[i]
      /\ \A i \in DOMAIN q : ~(k <= i)
  BY <1>1
<1> HIDE DEF k
<1>3. CASE For(c, r)
  <2>1. ASSUME NEW i \in DOMAIN a, \A j \in DOMAIN a : For(c, a[j]) => j <= i
        PROVE  i = k
    BY <1>1, <1>2, <1>3, <2>1
  <2>2. ~NoneFor(a, c)
    BY <1>1, <1>2, <1>3 DEF NoneFor
  <2> QED BY <1>1, <1>3, <2>1, <2>2 DEF Agree, a
<1>4. CASE ~For(c, r)
  <2>1. ASSUME NEW i \in DOMAIN a, For(c, a[i]), \A j \in DOMAIN a : For(c, a[j]) => j <= i
        PROVE  a[i].type = "Subscribe" <=> c \in before
    <3>1. i \in DOMAIN q /\ a[i] = q[i]
      BY <1>2, <1>4, <2>1
    <3>2. \A j \in DOMAIN q : For(c, q[j]) => j <= i
      BY <1>2, <2>1
    <3> QED BY <2>1, <3>1, <3>2 DEF Agree
  <2>2. NoneFor(a, c) => (c \in S <=> c \in before)
    BY <1>2 DEF Agree, NoneFor
  <2> QED BY <1>4, <2>1, <2>2 DEF Agree, a
<1> QED BY <1>3, <1>4

LEMMA AgreeTail ==
  ASSUME NEW q \in Seq(RequestType), q # <<>>, NEW S, NEW T, NEW c, NEW wanted,
         Agree(q, S, c, wanted),
         IF For(c, Head(q)) THEN c \in T <=> Head(q).type = "Subscribe" ELSE c \in T <=> c \in S
  PROVE  Agree(Tail(q), T, c, wanted)
<1> DEFINE r == Tail(q)
<1>1. /\ \A i \in DOMAIN r : i + 1 \in DOMAIN q /\ r[i] = q[i + 1] /\ i \in Nat /\ i + 1 # 1
      /\ \A i \in DOMAIN q : i = 1 \/ (i - 1 \in DOMAIN r /\ q[i] = r[i - 1])
      /\ DOMAIN q = 1 .. Len(q) /\ Len(q) \in Nat
      /\ 1 \in DOMAIN q /\ Head(q) = q[1]
  OBVIOUS
<1> HIDE DEF r
<1>2. ASSUME NEW i \in DOMAIN r, For(c, r[i]), \A j \in DOMAIN r : For(c, r[j]) => j <= i
      PROVE  r[i].type = "Subscribe" <=> c \in wanted
  <2>1. ASSUME NEW j \in DOMAIN q, For(c, q[j]) PROVE j <= i + 1
    BY <1>1, <1>2, <2>1
  <2>2. i + 1 \in DOMAIN q /\ r[i] = q[i + 1] /\ For(c, q[i + 1])
    BY <1>1, <1>2
  <2> QED BY <2>1, <2>2 DEF Agree
<1>3. ASSUME NoneFor(r, c) PROVE c \in T <=> c \in wanted
  <2>1. CASE For(c, Head(q))
    <3>1. \A j \in DOMAIN q : For(c, q[j]) => j <= 1
      BY <1>1, <1>3 DEF NoneFor
    <3> QED BY <1>1, <2>1, <3>1 DEF Agree
  <2>2. CASE ~For(c, Head(q))
    <3>1. NoneFor(q, c)
      BY <1>1, <1>3, <2>2 DEF NoneFor
    <3> QED BY <2>2, <3>1 DEF Agree
  <2> QED BY <2>1, <2>2
<1> QED BY <1>2, <1>3 DEF Agree, r

\* The last request alone decides.
LEMMA AgreeLast ==
  ASSUME NEW q \in Seq(RequestType), NEW r \in RequestType, NEW S, NEW c, NEW wanted,
         For(c, r), r.type = "Subscribe" <=> c \in wanted
  PROVE  Agree(Append(q, r), S, c, wanted)
<1> DEFINE a == Append(q, r)
           k == Len(q) + 1
<1>1. /\ DOMAIN a = 1 .. k /\ Len(q) \in Nat /\ a[k] = r /\ k \in DOMAIN a
  OBVIOUS
<1> HIDE DEF a
<1>2. \A i \in DOMAIN a : k <= i => i = k
  BY <1>1
<1> HIDE DEF k
<1>3. ~NoneFor(a, c)
  BY <1>1 DEF NoneFor
<1>4. ASSUME NEW i \in DOMAIN a, \A j \in DOMAIN a : For(c, a[j]) => j <= i PROVE a[i] = r
  BY <1>1, <1>2, <1>4
<1> QED BY <1>3, <1>4 DEF Agree, a

\* A request for another channel decides nothing.
LEMMA AgreeDrop ==
  ASSUME NEW q \in Seq(RequestType), NEW r \in RequestType, NEW S, NEW c, NEW wanted,
         ~For(c, r), Agree(Append(q, r), S, c, wanted)
  PROVE  Agree(q, S, c, wanted)
<1> DEFINE a == Append(q, r)
           k == Len(q) + 1
<1>1. /\ DOMAIN a = 1 .. k /\ DOMAIN q = 1 .. Len(q) /\ Len(q) \in Nat /\ a[k] = r
      /\ \A i \in 1 .. Len(q) : a[i] = q[i]
  OBVIOUS
<1> HIDE DEF a
<1>2. /\ \A i \in DOMAIN a : a[i] = r \/ (i \in DOMAIN q /\ a[i] = q[i])
      /\ \A i \in DOMAIN q : i \in DOMAIN a /\ a[i] = q[i]
  BY <1>1
<1>3. ASSUME NEW i \in DOMAIN q, For(c, q[i]), \A j \in DOMAIN q : For(c, q[j]) => j <= i
      PROVE  q[i].type = "Subscribe" <=> c \in wanted
  <2>1. i \in DOMAIN a /\ For(c, a[i]) /\ a[i] = q[i]
    BY <1>2, <1>3
  <2>2. ASSUME NEW j \in DOMAIN a, For(c, a[j]) PROVE j <= i
    BY <1>2, <1>3, <2>2
  <2> QED BY <2>1, <2>2 DEF Agree, a
<1>4. NoneFor(q, c) => NoneFor(a, c)
  BY <1>2 DEF NoneFor
<1> QED BY <1>3, <1>4 DEF Agree, a

\* The server takes the first request while another is being sent.
LEMMA AppendTail ==
  ASSUME NEW S, NEW q \in Seq(S), q # <<>>, NEW r \in S
  PROVE  /\ Append(q, r) \in Seq(S) /\ Append(q, r) # <<>> /\ Head(Append(q, r)) = Head(q)
         /\ Tail(Append(q, r)) = Append(Tail(q), r)
OBVIOUS

LEMMA AskedTyped ==
  ASSUME TypeOK
  PROVE  /\ Asked \in Seq(RequestType)
         /\ inbox # <<>> => Asked # <<>> /\ Head(Asked) = Head(inbox)
         /\ ServerReceives => Asked' = Tail(Asked)
<1>1. inbox \in Seq(RequestType) /\ request \in RequestType \union {NoRequest}
  BY DEF TypeOK
<1>2. CASE request = NoRequest
  BY <1>1, <1>2 DEF Asked, ServerReceives, requests
<1>3. CASE request # NoRequest
  <2>1. request \in RequestType
    BY <1>1, <1>3
  <2>2. Asked \in Seq(RequestType)
    BY <1>1, <1>3, <2>1 DEF Asked
  <2>3. inbox # <<>> => /\ Append(inbox, request) # <<>> /\ Head(Append(inbox, request)) = Head(inbox)
                        /\ Tail(Append(inbox, request)) = Append(Tail(inbox), request)
    BY <1>1, <2>1, AppendTail
  <2>4. ServerReceives => inbox # <<>> /\ inbox' = Tail(inbox) /\ request' = request
    BY DEF ServerReceives, requests
  <2> QED BY <1>3, <2>2, <2>3, <2>4 DEF Asked
<1> QED BY <1>2, <1>3

LEMMA SocketsStep ==
  ASSUME TInv, KInv, ~timedOut, app # "crashed", SocketsInOrder, [Next]_vars
  PROVE  SocketsInOrder'
<1>0. /\ TypeOK /\ Threads /\ Chain /\ attempts \in Nat
      /\ client = [to |-> client.to, outBox |-> client.outBox] /\ client.to \in Nat
      /\ fd_ \in Nat /\ inbox \in Seq(RequestType)
  BY UnixClientAssumption DEF TInv, KInv, TypeOK
<1>1. CASE /\ UNCHANGED <<fd_, attempts, client, subscribers>>
           /\ queue' = queue \/ (queue # <<>> /\ queue' = Tail(queue))
           /\ app' \in {"join", "open", "notice"} => app \in {"join", "open", "notice"}
  BY <1>0, <1>1 DEF SocketsInOrder
<1>2. CASE fd_' = 0 /\ queue' = <<>> /\ UNCHANGED <<attempts, client, subscribers>> /\
           (app' \in {"join", "open", "notice"} => app' = app)
  BY <1>0, <1>2 DEF SocketsInOrder
<1>3. CASE disconnect \/ TimesOut
  BY <1>1, <1>3 DEF disconnect, TimesOut, server, bounds
<1>4. CASE CloseLocks
  BY <1>2, <1>4 DEF CloseLocks, CloseFds, server, bounds
<1>5. CASE CloseTells \/ CloseJoins \/ ConnectJoins
  BY <1>1, <1>5 DEF CloseTells, CloseJoins, ConnectJoins, server, bounds
<1>6. CASE ConnectBegins
  <2>1. fd_ = 0 /\ attempts' = attempts + 1 /\ UNCHANGED <<fd_, queue, client, subscribers>>
    BY <1>6 DEF ConnectBegins, server
  <2> QED BY <1>0, <2>1 DEF SocketsInOrder
<1>7. CASE Open
  <2>1. /\ app = "open" /\ attempts # 0 /\ UNCHANGED <<queue, client, subscribers, attempts>>
        /\ fd_' = attempts \/ UNCHANGED fd_
    BY <1>0, <1>7 DEF Open, Threads, server
  <2> QED BY <1>0, <2>1 DEF SocketsInOrder
<1>8. CASE Sending \/ Acknowledged \/ Connected
  BY <1>1, <1>8 DEF Sending, Sent, NotSent, Acknowledged, Connected, server, bounds
<1>9. ASSUME NEW c \in Channels, subscribe(c) \/ unsubscribe(c) \/ receiveMsg(c) \/ Resubscribe(c)
      PROVE  SocketsInOrder'
  BY <1>1, <1>9 DEF subscribe, unsubscribe, receiveMsg, Resubscribe, server, bounds
<1>10. CASE Receive
  <2>1. /\ UNCHANGED <<fd_, attempts, client, subscribers, app>>
        /\ queue' = queue \/ (queue # <<>> /\ queue' = Tail(queue))
    BY <1>0, <1>10, RoundTheLoop DEF Round, server
  <2> QED BY <1>1, <2>1
<1>11. CASE ReceiveFails \/ Crash
  BY <1>2, <1>11 DEF ReceiveFails, Crash, CloseFds, server, bounds
<1>12. CASE handleControlMsg \/ Complete \/ SetAvailable \/ Report \/ Reported \/ ReceiverTells \/ ReceiverEnds
  <2>1. UNCHANGED <<fd_, attempts, client, subscribers, app, queue>>
    BY <1>12 DEF handleControlMsg, Complete, SetAvailable, Report, Reported, ReceiverTells, ReceiverEnds,
       server, bounds
  <2> QED BY <1>1, <2>1
<1>13. CASE ServerReceives
  <2> DEFINE msg == Head(inbox)
  <2>1. /\ UNCHANGED <<fd_, attempts, queue, app>>
        /\ msg.type = "Connect" => app = "wait"
    <3>1. msg.type = "Connect" => InInbox
      <4>1. 1 \in DOMAIN inbox /\ inbox[1] = msg
        BY <1>0, <1>13 DEF ServerReceives
      <4> QED BY <4>1 DEF InInbox, Has
    <3> QED BY <1>0, <1>13, <3>1 DEF ServerReceives, Chain
  <2>2. CASE msg.type = "Connect" /\ ServerConnects(msg)
    BY <1>0, <2>1, <2>2 DEF ServerConnects, NotKnown, SocketsInOrder
  <2>3. CASE ServerForgets
    BY <1>0, <2>1, <2>3 DEF ServerForgets, NotKnown, SocketsInOrder
  <2>4. CASE Known /\ client' = [client EXCEPT !.outBox = Append(@, msg)]
    <3>1. client'.to = client.to /\ client.to # 0
      BY <1>0, <2>4 DEF Known
    <3> QED BY <1>0, <2>1, <3>1 DEF SocketsInOrder
  <2>5. CASE UNCHANGED <<client, subscribers>>
    BY <1>0, <2>1, <2>5 DEF SocketsInOrder
  <2> QED BY <1>13, <2>2, <2>3, <2>4, <2>5 DEF ServerReceives
<1>14. CASE ServerWrites
  <2>1. UNCHANGED <<fd_, attempts, app>>
    BY <1>14 DEF ServerWrites, bounds
  <2>2. CASE client.to = fd_ /\ client' = [client EXCEPT !.outBox = Tail(@)] /\ UNCHANGED subscribers
    <3>1. client'.to = client.to /\ client.to # 0
      BY <1>0, <1>14, <2>2 DEF ServerWrites, SocketsInOrder
    <3> QED BY <1>0, <2>1, <2>2, <3>1 DEF SocketsInOrder
  <2>3. CASE ServerForgets /\ UNCHANGED queue
    BY <1>0, <2>1, <2>3 DEF ServerForgets, NotKnown, SocketsInOrder
  <2> QED BY <1>14, <2>2, <2>3 DEF ServerWrites
<1>15. ASSUME NEW m \in Messages, NEW p \in Pages(m), Publish(m, p) PROVE SocketsInOrder'
  <2>1. /\ UNCHANGED <<fd_, attempts, app, queue, subscribers>> /\ subscribers # {}
        /\ client' = [client EXCEPT !.outBox = Append(@, Fragment(m, p))]
    BY <1>15 DEF Publish, bounds
  <2>2. client'.to = client.to /\ client.to # 0
    BY <1>0, <2>1 DEF SocketsInOrder
  <2> QED BY <1>0, <2>1, <2>2 DEF SocketsInOrder
<1>16. CASE UNCHANGED vars
  BY <1>1, <1>16 DEF vars, server, bounds
<1> QED BY <1>3, <1>4, <1>5, <1>6, <1>7, <1>8, <1>9, <1>10, <1>11, <1>12, <1>13, <1>14, <1>15, <1>16
        DEF Next, Program, Closing, Connecting, Receiver, Server

LEMMA NoneAcknowledgedStep ==
  ASSUME TInv, ~timedOut, app' # "crashed", SocketsInOrder, NEW c \in Channels, NoneAcknowledged(c),
         NewEntryIsEmpty(c), [Next]_vars
  PROVE  NoneAcknowledged(c)'
<1> DEFINE Early == Unsubscribed \/ Asking(c)
<1>0. /\ TypeOK /\ Threads /\ Asks /\ queue \in Seq(MessageType) /\ client.outBox \in Seq(MessageType)
      /\ receiver.pc \in {"none", "loop", "report", "closing", "closed", "done", "crashed", "control",
                          "complete", "signal"}
      /\ \A d \in DOMAIN channels_ : channels_[d] \in ChannelType
  BY DEF TInv, TypeOK, ReceiverType
<1>1. CASE ~Early'
  BY <1>1 DEF NoneAcknowledged
<1>2. CASE /\ Early' => Early
           /\ c \in DOMAIN channels_' =>
                \/ channels_'[c].acknowledged = FALSE
                \/ (c \in DOMAIN channels_ /\ channels_'[c].acknowledged = channels_[c].acknowledged)
           /\ NoAck(queue, c) => NoAck(queue', c)
           /\ AckInHand(c)' => AckInHand(c) \/ ~NoAck(queue, c)
  BY <1>2 DEF NoneAcknowledged, NoAck
<1>3. CASE channels_' = Unacknowledged /\ queue' = <<>> /\ receiver'.pc \in {"none", "done"}
  BY <1>0, <1>3, ForNone DEF NoneAcknowledged, Unacknowledged, ChannelType, AckInHand, NoAck
<1>4. CASE disconnect \/ TimesOut
  <2>1. /\ UNCHANGED <<channels_, queue, receiver, fd_>> /\ app' = "lock" /\ app \in {"idle", "wait"}
    BY <1>4 DEF disconnect, TimesOut
  <2> QED BY <1>2, <2>1 DEF Unsubscribed, Asking, AckInHand
<1>5. CASE CloseLocks
  <2>1. /\ app' = IF fd_ # 0 THEN "closing" ELSE "close"
        /\ UNCHANGED receiver
    BY <1>5 DEF CloseLocks
  <2>2. app' = "closing" => receiver.pc \notin {"none", "done"}
    BY <1>0, <2>1 DEF Threads, OneReceiver
  <2> QED BY <1>1, <2>1, <2>2 DEF Unsubscribed, Asking
<1>6. CASE CloseTells
  BY <1>1, <1>6 DEF CloseTells, Unsubscribed, Asking
<1>7. CASE CloseJoins
  <2>1. queue' = <<>> /\ receiver'.pc = "none" /\ channels_' = Unacknowledged
    BY <1>0, <1>7 DEF CloseJoins, Threads, SocketsInOrder, NoThread
  <2> QED BY <1>3, <2>1
<1>8. CASE ConnectBegins
  <2>1. /\ UNCHANGED <<channels_, queue, receiver, fd_>> /\ app = "idle" /\ fd_ = 0 /\ app' \in {"join", "open"}
    BY <1>8 DEF ConnectBegins
  <2>2. app' = "open" => receiver.pc = "none"
    BY <1>0, <1>8 DEF ConnectBegins, ToJoin, Threads, OneReceiver, TypeOK
  <2> QED BY <1>2, <2>1, <2>2 DEF Unsubscribed, Asking, AckInHand
<1>9. CASE ConnectJoins
  <2>1. /\ UNCHANGED <<channels_, queue, fd_>> /\ app = "join" /\ receiver.pc = "done"
        /\ receiver'.pc = "none" /\ fd_ = 0
    BY <1>0, <1>9 DEF ConnectJoins, NoThread, Threads
  <2> QED BY <1>2, <2>1 DEF Unsubscribed, AckInHand
<1>10. CASE Open
  <2>1. /\ UNCHANGED <<channels_, queue>> /\ app = "open"
        /\ receiver' = receiver \/ receiver'.pc = "loop"
    BY <1>10 DEF Open, At
  <2> QED BY <1>2, <2>1 DEF Unsubscribed, AckInHand
<1>11. CASE Sending \/ Acknowledged \/ Connected
  <2>1. /\ UNCHANGED <<channels_, queue, receiver, fd_>>
        /\ app \in {"notice", "wait", "call", "resubscribe"}
        /\ app' = "wait" => app = "notice"
        /\ app' \in {"wait", "idle", "resubscribe"}
        /\ app' = "resubscribe" /\ app = "resubscribe" => asking' = asking
        /\ app' = "resubscribe" => app \in {"wait", "resubscribe"}
    BY <1>0, <1>11 DEF Asks, Sending, Sent, NotSent, Acknowledged, Connected, requests
  <2> QED BY <1>2, <2>1 DEF Unsubscribed, Asking, AckInHand
<1>12. ASSUME NEW d \in Channels, Resubscribe(d) PROVE NoneAcknowledged(c)'
  <2>1. UNCHANGED <<app, fd_, channels_, queue, receiver>> /\ asking' \subseteq asking
    BY <1>12 DEF Resubscribe
  <2> QED BY <1>2, <2>1 DEF Unsubscribed, Asking, AckInHand
<1>13. ASSUME NEW d \in Channels, subscribe(d) \/ unsubscribe(d) \/ receiveMsg(d)
       PROVE  NoneAcknowledged(c)'
  <2>1. UNCHANGED <<queue, receiver, fd_>> /\ app = "idle" /\ app' \in {"idle", "call"}
    BY <1>13 DEF subscribe, unsubscribe, receiveMsg
  <2>2. c \in DOMAIN channels_' =>
          \/ channels_'[c].acknowledged = FALSE
          \/ (c \in DOMAIN channels_ /\ channels_'[c].acknowledged = channels_[c].acknowledged)
    <3>1. CASE subscribe(d)
      <4>1. channels_' = [e \in DOMAIN channels_ \union {d} |->
                            IF e \in DOMAIN channels_ THEN channels_[e] ELSE NewChannel]
        BY <3>1 DEF subscribe
      <4> QED BY <4>1 DEF NewChannel
    <3>2. CASE unsubscribe(d)
      BY <3>2 DEF unsubscribe
    <3>3. CASE receiveMsg(d)
      BY <1>0, <3>3 DEF receiveMsg, ChannelType
    <3> QED BY <1>13, <3>1, <3>2, <3>3
  <2> QED BY <1>2, <2>1, <2>2 DEF Unsubscribed, Asking, AckInHand
<1>14. CASE Receive
  <2>1. UNCHANGED <<channels_, app, fd_, asking>> /\ receiver.pc = "loop" /\ app # "closing"
    BY <1>0, <1>14, RoundTheLoop DEF requests
  <2>2. /\ receiver'.pc = "done" => fd_ = 0
        /\ receiver'.pc # "none"
        /\ \/ queue' = queue /\ receiver'.pc # "control"
           \/ /\ queue # <<>> /\ queue' = Tail(queue)
              /\ receiver'.pc = "control" => receiver'.msg = Head(queue)
    <3>1. \E n \in 0 .. Len(fragmentBuffersLRU_) : Round(n)
      BY <1>0, <1>14, RoundTheLoop
    <3> QED BY <2>1, <3>1 DEF Round, TakeFragment, DropFragment, At
  <2>3. fd_ = 0 => app = "close"
    BY <1>0, <2>1 DEF Threads, Reading
  <2>4. queue # <<>> /\ NoAck(queue, c) => NoAck(Tail(queue), c) /\ ~Acks(c, Head(queue))
    BY <1>0, ForTail
  <2> QED BY <1>2, <2>1, <2>2, <2>3, <2>4 DEF Unsubscribed, Asking, AckInHand
<1>15. CASE ReceiveFails
  <2>1. UNCHANGED <<channels_, app>> /\ queue' = <<>> /\ receiver'.pc = "closing" /\ fd_' = 0
    BY <1>15 DEF ReceiveFails, CloseFds, At
  <2> QED BY <1>2, <2>1, ForNone DEF Unsubscribed, Asking, AckInHand
<1>16. CASE ReceiverTells \/ Report \/ Reported \/ SetAvailable
  <2>1. UNCHANGED <<channels_, app, fd_, queue, asking>> /\ receiver'.pc \in {"closed", "report", "loop"}
    BY <1>16 DEF ReceiverTells, Report, Reported, SetAvailable, At, requests
  <2> QED BY <1>2, <2>1 DEF Unsubscribed, Asking, AckInHand
<1>17. CASE ReceiverEnds
  <2>1. channels_' = Unacknowledged /\ receiver'.pc = "done" /\ receiver.pc = "closed" /\ UNCHANGED queue
    BY <1>17 DEF ReceiverEnds, At
  <2>2. queue = <<>>
    BY <1>0, <2>1 DEF Threads, OneReceiver, SocketsInOrder
  <2> QED BY <1>3, <2>1, <2>2
<1>18. CASE handleControlMsg
  <2>1. /\ UNCHANGED <<queue, app, fd_, asking>> /\ receiver'.pc = "loop" /\ receiver.pc = "control"
        /\ channels_' = [d \in DOMAIN channels_ |->
              IF receiver.msg.type = "Subscribe" /\ d = receiver.msg.channel
              THEN [channels_[d] EXCEPT !.acknowledged = TRUE] ELSE channels_[d]]
    BY <1>18 DEF handleControlMsg, At, requests
  <2>2. Early' => Early
    BY <2>1 DEF Unsubscribed, Asking
  <2>3. CASE Early
    <3>1. ~(receiver.msg.type = "Subscribe" /\ c = receiver.msg.channel)
      BY <2>1, <2>3 DEF NoneAcknowledged, AckInHand, Acks
    <3>2. c \in DOMAIN channels_' => c \in DOMAIN channels_ /\ channels_'[c] = channels_[c]
      BY <2>1, <3>1
    <3> QED BY <1>2, <2>1, <2>2, <3>2 DEF AckInHand
  <2> QED BY <1>1, <2>2, <2>3
<1>19. CASE Complete
  <2>1. UNCHANGED <<queue, app, fd_, asking>> /\ receiver'.pc = "signal"
    BY <1>0, <1>19 DEF Complete, TypeOK, ReceiverType, requests
  <2>2. c \in DOMAIN channels_' => c \in DOMAIN channels_
                                   /\ channels_'[c].acknowledged = channels_[c].acknowledged
    BY <1>0, <1>19 DEF Complete, ChannelType
  <2> QED BY <1>2, <2>1, <2>2 DEF Unsubscribed, Asking, AckInHand
<1>20. CASE ServerWrites
  <2>1. /\ UNCHANGED <<channels_, app, fd_, receiver, asking>> /\ client.outBox # <<>>
        /\ queue' = queue \/ (client.to = fd_ /\ queue' = Append(queue, Head(client.outBox)))
    BY <1>20 DEF ServerWrites, requests
  <2>2. Early' => Early
    BY <2>1 DEF Unsubscribed, Asking
  <2>3. CASE Early /\ client.to = fd_
    <3>1. fd_ # 0
      BY <2>1, <2>3 DEF SocketsInOrder
    <3>2. client.to \in Nat /\ attempts \in Nat
      BY <1>0, UnixClientAssumption DEF TypeOK
    <3>3. app = "wait" \/ Asking(c)
      BY <2>3, <3>1, <3>2 DEF Unsubscribed, SocketsInOrder
    <3> DEFINE m == Head(client.outBox)
    <3>4. m \in MessageType /\ ~Acks(c, m)
      BY <1>0, <2>1, <2>3, <3>1, <3>3, ForTail DEF NewEntryIsEmpty
    <3> HIDE DEF m
    <3>5. NoAck(Append(queue, m), c) <=> NoAck(queue, c) /\ ~Acks(c, m)
      BY <1>0, <3>4, ForAppend
    <3> QED BY <1>2, <2>1, <3>4, <3>5 DEF m, AckInHand, Unsubscribed, Asking
  <2>4. CASE client.to # fd_
    BY <1>2, <2>1, <2>2, <2>4 DEF AckInHand
  <2> QED BY <1>1, <2>2, <2>3, <2>4
<1>21. CASE ServerReceives \/ (\E m \in Messages : \E p \in Pages(m) : Publish(m, p)) \/ UNCHANGED vars
  <2>1. ASSUME NEW m \in Messages, NEW p \in Pages(m), Publish(m, p)
        PROVE  UNCHANGED <<channels_, app, fd_, receiver, queue, asking>>
    BY <2>1 DEF Publish, requests
  <2>2. ServerReceives \/ UNCHANGED vars => UNCHANGED <<channels_, app, fd_, receiver, queue, asking>>
    BY DEF ServerReceives, vars, requests
  <2>3. UNCHANGED <<channels_, app, fd_, receiver, queue, asking>>
    BY <1>21, <2>1, <2>2
  <2> QED BY <1>2, <2>3 DEF Unsubscribed, Asking, AckInHand
<1>22. ~Crash
  BY DEF Crash
<1> QED BY <1>4, <1>5, <1>6, <1>7, <1>8, <1>9, <1>10, <1>11, <1>12, <1>13, <1>14, <1>15, <1>16, <1>17,
           <1>18, <1>19, <1>20, <1>21, <1>22 DEF Next, Program, Closing, Connecting, Receiver, Server

LEMMA NewEntryStep ==
  ASSUME TInv, KInv, ~timedOut, app # "crashed", SocketsInOrder, NEW c \in Channels, NewEntryIsEmpty(c),
         [Next]_vars
  PROVE  NewEntryIsEmpty(c)'
<1> SUFFICES ASSUME fd_' # 0, client'.to = fd_', app' = "wait" \/ Asking(c)'
             PROVE  /\ c \notin subscribers' /\ NoAck(client'.outBox, c) /\ NoneFor(inbox', c)
                    /\ ~For(c, request')
  BY DEF NewEntryIsEmpty
<1>a. app' \in {"wait", "resubscribe"}
  BY DEF Asking
<1>0. /\ TypeOK /\ Threads /\ Asks
      /\ Chain /\ NoticeIsLast /\ inbox \in Seq(RequestType) /\ client.outBox \in Seq(MessageType)
      /\ client = [to |-> client.to, outBox |-> client.outBox] /\ client.to \in Nat /\ attempts \in Nat
  BY UnixClientAssumption DEF TInv, KInv, TypeOK
<1>1. CASE /\ UNCHANGED <<fd_, client, inbox, subscribers, request>>
           /\ app = "wait" \/ Asking(c)
  BY <1>1 DEF NewEntryIsEmpty
<1>2. ~(disconnect \/ Closing \/ ConnectBegins \/ ConnectJoins \/ Open \/ TimesOut \/ Connected \/ Crash)
  BY <1>a DEF disconnect, Closing, CloseLocks, CloseTells, CloseJoins, ConnectBegins, ConnectJoins, Open,
              TimesOut, Connected, Crash
<1>3. \A d \in Channels : ~(subscribe(d) \/ unsubscribe(d) \/ receiveMsg(d))
  BY <1>a DEF subscribe, unsubscribe, receiveMsg
<1>4. ~ReceiveFails
  BY DEF ReceiveFails, CloseFds
<1>5. ~ReceiverTells
  BY <1>0 DEF ReceiverTells, Threads, OneReceiver
<1>6. CASE Sending
  <2>1. /\ UNCHANGED <<fd_, client, subscribers, asking>> /\ request' = NoRequest /\ request # NoRequest
        /\ inbox' = inbox \/ inbox' = Append(inbox, request)
        /\ app \in {"notice", "resubscribe"}
    BY <1>0, <1>6, <1>a DEF Sending, Sent, NotSent, Asks, server
  <2>2. app # "notice"
    BY <1>0, <2>1 DEF SocketsInOrder
  <2>3. Asking(c)
    BY <1>6, <2>1, <2>2 DEF Asking, Sending, Sent, NotSent
  <2>4. /\ c \notin subscribers /\ NoAck(client.outBox, c) /\ NoneFor(inbox, c) /\ ~For(c, request)
    BY <2>1, <2>3 DEF NewEntryIsEmpty
  <2>5. request \in RequestType
    BY <1>0, <2>1 DEF TypeOK
  <2>6. NoneFor(Append(inbox, request), c)
    BY <1>0, <2>4, <2>5, ForAppend
  <2> QED BY <2>1, <2>4, <2>6 DEF For, NoRequest, Notice, Request
<1>7. CASE Acknowledged
  <2>1. app = "wait" /\ UNCHANGED <<fd_, client, inbox, subscribers, request>>
    BY <1>7 DEF Acknowledged, server
  <2> QED BY <1>1, <2>1
<1>8. ASSUME NEW d \in Channels, Resubscribe(d)
      PROVE  /\ c \notin subscribers' /\ NoAck(client'.outBox, c) /\ NoneFor(inbox', c)
             /\ ~For(c, request')
  <2>1. /\ app = "resubscribe" /\ app' = app /\ UNCHANGED <<fd_, client, inbox, subscribers>> /\ asking' = asking \ {d}
        /\ request' = request \/ request' = Request("Subscribe", d)
    BY <1>8 DEF Resubscribe, Ask, server
  <2>2. Asking(c) /\ c # d
    BY <2>1 DEF Asking
  <2>3. ~For(c, Request("Subscribe", d))
    BY <2>2 DEF For, Request
  <2> QED BY <2>1, <2>2, <2>3 DEF NewEntryIsEmpty
<1>9. CASE Receive \/ handleControlMsg \/ Complete \/ SetAvailable \/ Report \/ Reported \/ ReceiverEnds
           \/ UNCHANGED vars
  <2>1. UNCHANGED <<app, asking, fd_, client, inbox, subscribers, request>>
    BY <1>9 DEF Receive, handleControlMsg, Complete, SetAvailable, Report, Reported, ReceiverEnds, requests,
       server, vars
  <2> QED BY <1>1, <2>1 DEF Asking
<1>10. CASE ServerReceives
  <2> DEFINE msg == Head(inbox)
  <2>1. UNCHANGED <<app, fd_, request, asking>> /\ inbox # <<>> /\ inbox' = Tail(inbox)
    BY <1>10 DEF ServerReceives, requests
  <2>2. 1 \in DOMAIN inbox /\ inbox[1] = msg /\ msg \in MessageType
    BY <1>0, <2>1 DEF MessageType
  <2>3. app = "wait" \/ Asking(c)
    BY <2>1 DEF Asking
  <2>4. CASE msg.type = "Connect"
    <3>1. app = "wait" /\ request = NoRequest
      BY <1>0, <2>2, <2>4 DEF Chain, InInbox, Has, Asks
    <3>2. Len(inbox) = 1
      BY <1>0, <2>1, <2>2, <2>4, <3>1 DEF NoticeIsLast
    <3>3. inbox' = <<>>
      BY <1>0, <2>1, <3>2
    <3>4. subscribers' = {} /\ client'.outBox \in {<<>>, <<msg>>}
      BY <1>10, <2>4 DEF ServerReceives, ServerConnects, ServerForgets, NotKnown
    <3>5. NoAck(<<msg>>, c) /\ NoAck(<<>>, c) /\ NoneFor(<<>>, c)
      BY <2>4 DEF NoAck, NoneFor, Acks
    <3> QED BY <2>1, <3>1, <3>3, <3>4, <3>5 DEF For, NoRequest, Notice, Request
  <2>5. CASE msg.type # "Connect"
    <3>1. client' # NotKnown
      BY DEF NotKnown
    <3>2. \/ client' = client
          \/ client' = [client EXCEPT !.outBox = Append(@, msg)]
      BY <1>10, <2>5, <3>1 DEF ServerReceives, ServerForgets
    <3>3. /\ client'.to = client.to
          /\ client'.outBox = client.outBox \/ client'.outBox = Append(client.outBox, msg)
      BY <1>0, <3>2
    <3>4. /\ c \notin subscribers /\ NoAck(client.outBox, c) /\ NoneFor(inbox, c) /\ ~For(c, request)
      BY <2>1, <2>3, <3>3 DEF NewEntryIsEmpty
    <3>5. NoneFor(Tail(inbox), c) /\ ~For(c, msg)
      BY <1>0, <2>1, <3>4, ForTail
    <3>6. ~Acks(c, msg)
      BY <3>5 DEF For, Acks
    <3>7. NoAck(Append(client.outBox, msg), c)
      <4> HIDE DEF msg
      <4> QED BY <1>0, <2>2, <3>4, <3>6, ForAppend
    <3>8. c \notin subscribers'
      BY <1>10, <2>5, <3>4, <3>5 DEF ServerReceives, ServerForgets, For
    <3> QED BY <2>1, <3>3, <3>4, <3>5, <3>7, <3>8
  <2> QED BY <2>4, <2>5
<1>11. CASE ServerWrites
  <2>1. UNCHANGED <<app, fd_, inbox, request, asking>> /\ client.outBox # <<>>
    BY <1>11 DEF ServerWrites, requests
  <2>2. ~ServerForgets
    BY <2>1 DEF ServerForgets, NotKnown
  <2>3. client.to = fd_ /\ client'.outBox = Tail(client.outBox) /\ UNCHANGED subscribers
    BY <1>0, <1>11, <2>2 DEF ServerWrites
  <2>4. NoAck(client.outBox, c) => NoAck(Tail(client.outBox), c)
    BY <1>0, <2>1, ForTail
  <2> QED BY <2>1, <2>3, <2>4 DEF NewEntryIsEmpty, Asking
<1>12. ASSUME NEW m \in Messages, NEW p \in Pages(m), Publish(m, p)
       PROVE  /\ c \notin subscribers' /\ NoAck(client'.outBox, c) /\ NoneFor(inbox', c)
              /\ ~For(c, request')
  <2>1. UNCHANGED <<app, fd_, inbox, request, asking, subscribers>>
    BY <1>12 DEF Publish, requests
  <2>2. client' = [client EXCEPT !.outBox = Append(@, Fragment(m, p))]
    BY <1>12 DEF Publish
  <2>3. Fragment(m, p) \in MessageType /\ ~Acks(c, Fragment(m, p))
    BY RequestsTyped, MessagesTyped DEF MessageType, Acks, Fragment
  <2>4. client'.to = client.to /\ client'.outBox = Append(client.outBox, Fragment(m, p))
    BY <1>0, <2>2
  <2>5. NoAck(client.outBox, c) => NoAck(Append(client.outBox, Fragment(m, p)), c)
    BY <1>0, <2>3, ForAppend
  <2> QED BY <2>1, <2>4, <2>5 DEF NewEntryIsEmpty, Asking
<1> QED BY <1>2, <1>3, <1>4, <1>5, <1>6, <1>7, <1>8, <1>9, <1>10, <1>11, <1>12
        DEF Next, Program, Connecting, Receiver, Server

\* One request more is being sent.
LEMMA AsksOne ==
  ASSUME TypeOK, request = NoRequest, NEW r \in RequestType, request' = r, inbox' = inbox
  PROVE  Asked' = Append(Asked, r) /\ r # NoRequest
BY DEF Asked, RequestType, NoRequest, Notice, Request

LEMMA SayStep ==
  ASSUME TInv, KInv, ~timedOut, app # "crashed", SocketsInOrder, NEW c \in Channels,
         \A d \in Channels : NoneAcknowledged(d), NewEntryIsEmpty(c), RequestsSayIt(c), [Next]_vars
  PROVE  RequestsSayIt(c)'
<1> DEFINE wanted == DOMAIN channels_ \ asking
           Says == Agree(Asked, subscribers, c, wanted)
<1> SUFFICES ASSUME Subscribing', c \notin unsent' \/ For(c, request')
             PROVE  Says'
  BY DEF RequestsSayIt
<1>0. /\ TypeOK /\ Threads /\ Asks /\ Chain /\ ServerHasClient /\ inbox \in Seq(RequestType)
      /\ client.outBox \in Seq(MessageType) /\ Asked \in Seq(RequestType)
      /\ fd_' # 0 /\ app' \in {"resubscribe", "idle", "call"}
  BY AskedTyped DEF TInv, KInv, TypeOK, Subscribing
<1>1. CASE UNCHANGED <<app, isConnected, fd_, inbox, request, asking, unsent, subscribers>>
           /\ DOMAIN channels_' = DOMAIN channels_
  <2>1. UNCHANGED Asked /\ (Subscribing' <=> Subscribing)
    BY <1>1 DEF Asked, Subscribing
  <2> QED BY <1>1, <2>1 DEF RequestsSayIt
<1>2. ~(disconnect \/ Closing \/ ConnectBegins \/ ConnectJoins \/ Open \/ TimesOut \/ Crash \/ ReceiveFails)
  <2>1. ~(disconnect \/ CloseLocks \/ CloseTells \/ ConnectBegins \/ ConnectJoins \/ TimesOut \/ Crash \/ ReceiveFails)
    BY <1>0 DEF disconnect, CloseLocks, CloseTells, ConnectBegins, ConnectJoins, TimesOut, Crash,
       ReceiveFails, CloseFds
  <2>2. ~(CloseJoins \/ Open)
    BY <1>0 DEF CloseJoins, Open, Threads
  <2> QED BY <2>1, <2>2 DEF Closing
<1>3. ~ReceiverTells
  BY <1>0 DEF ReceiverTells, Threads, OneReceiver
<1>4. CASE Sent
  <2>1. /\ request # NoRequest /\ request' = NoRequest /\ inbox' = Append(inbox, request)
        /\ unsent' = unsent \ {request.channel} /\ UNCHANGED <<fd_, isConnected, asking, subscribers, channels_>>
        /\ app # "notice" /\ (app' = "resubscribe" <=> app = "resubscribe") /\ app \in {"call", "resubscribe"}
    BY <1>0, <1>4 DEF Sent, Asks, server
  <2>2. Asked' = Asked
    BY <2>1 DEF Asked
  <2>3. c \notin unsent \/ For(c, request)
    BY <1>0, <2>1 DEF Asks, For, NoRequest, Notice, Request
  <2>4. Subscribing
    BY <1>0, <2>1 DEF Subscribing
  <2> QED BY <2>1, <2>2, <2>3, <2>4 DEF RequestsSayIt
<1>5. CASE NotSent
  <2>1. /\ request # NoRequest /\ request' = NoRequest /\ UNCHANGED inbox
        /\ unsent' = unsent \union ({request.channel} \intersect Channels)
        /\ UNCHANGED <<fd_, isConnected, asking, subscribers, channels_>>
        /\ app' = IF app = "resubscribe" THEN app ELSE "idle"
        /\ app \in {"notice", "call", "resubscribe"}
    BY <1>0, <1>5 DEF NotSent, Asks, server
  <2>2. Subscribing /\ app # "notice"
    BY <1>0, <2>1 DEF Subscribing, ServerHasClient
  <2>3. c \notin unsent /\ ~For(c, request)
    BY <2>1 DEF For, NoRequest, Notice, Request
  <2>4. Agree(Append(inbox, request), subscribers, c, wanted)
    BY <2>1, <2>2, <2>3 DEF RequestsSayIt, Asked
  <2>5. request \in RequestType
    BY <1>0, <2>1 DEF TypeOK
  <2>6. Agree(inbox, subscribers, c, wanted)
    <3> HIDE DEF wanted
    <3> QED BY <1>0, <2>3, <2>4, <2>5, AgreeDrop
  <2> QED BY <2>1, <2>6 DEF Asked
<1>6. CASE Acknowledged
  <2>1. /\ app = "wait" /\ connectionAcknowledgedCondition /\ asking' = DOMAIN channels_
        /\ UNCHANGED <<fd_, inbox, subscribers, channels_, request, client>>
    BY <1>6 DEF Acknowledged, Echoed, server
  <2>2. request = NoRequest /\ fd_ # 0 /\ client.to = fd_
    BY <1>0, <2>1 DEF Asks, ServerHasClient, Echoing
  <2>3. c \notin subscribers /\ NoneFor(inbox, c)
    BY <2>1, <2>2 DEF NewEntryIsEmpty
  <2>4. Asked' = inbox
    BY <2>1, <2>2 DEF Asked
  <2> QED BY <2>1, <2>3, <2>4 DEF Agree, NoneFor
<1>7. ASSUME NEW d \in Channels, Resubscribe(d) PROVE Says'
  <2> DEFINE r == Request("Subscribe", d)
  <2>1. /\ app = "resubscribe" /\ request = NoRequest /\ d \in asking /\ asking' = asking \ {d}
        /\ UNCHANGED <<fd_, isConnected, inbox, subscribers, channels_>>
    BY <1>7 DEF Resubscribe, server
  <2>2. d \in DOMAIN channels_ /\ ~channels_[d].acknowledged /\ fd_ # 0 /\ Subscribing
    BY <1>0, <2>1 DEF TypeOK, NoneAcknowledged, Asking, Subscribing
  <2>3. request' = r /\ UNCHANGED unsent
    BY <1>7, <2>2 DEF Resubscribe, Ask, serverfd_
  <2>4. r \in RequestType /\ r.type = "Subscribe" /\ r.channel = d
    BY RequestsTyped DEF Request
  <2> HIDE DEF r
  <2>5. Asked' = Append(Asked, r)
    BY <1>0, <2>1, <2>3, <2>4, AsksOne
  <2>6. CASE c = d
    <3>1. For(c, r) /\ (r.type = "Subscribe" <=> c \in wanted')
      BY <2>1, <2>2, <2>4, <2>6 DEF For
    <3> HIDE DEF wanted
    <3> QED BY <1>0, <2>1, <2>4, <2>5, <3>1, AgreeLast
  <2>7. CASE c # d
    <3>1. ~For(c, r) /\ (c \in wanted' <=> c \in wanted)
      BY <2>1, <2>4, <2>7 DEF For
    <3>2. Says
      BY <2>2, <2>3, <3>1 DEF RequestsSayIt
    <3> HIDE DEF wanted
    <3>3. Agree(Append(Asked, r), subscribers, c, wanted')
      BY <1>0, <2>4, <3>1, <3>2, AgreeAppend
    <3> QED BY <2>1, <2>5, <3>3
  <2> QED BY <2>6, <2>7
<1>8. CASE Connected
  <2>1. /\ app = "resubscribe" /\ UNCHANGED <<fd_, inbox, request, asking, unsent, subscribers, channels_>>
    BY <1>8 DEF Connected, requests, server
  <2>2. UNCHANGED Asked /\ Subscribing
    BY <1>0, <2>1 DEF Asked, Subscribing
  <2> QED BY <2>1, <2>2 DEF RequestsSayIt
<1>9. ASSUME NEW d \in Channels, subscribe(d) \/ unsubscribe(d) PROVE Says'
  <2>1. /\ app = "idle" /\ request = NoRequest /\ asking = {} /\ Subscribing /\ serverfd_
        /\ UNCHANGED <<fd_, isConnected, inbox, subscribers, asking>>
    BY <1>0, <1>9 DEF Asks, subscribe, unsubscribe, Subscribing, serverfd_, server
  <2>2. \/ UNCHANGED <<request, unsent>> /\ DOMAIN channels_' = DOMAIN channels_
        \/ \E r \in RequestType :
             /\ request' = r /\ UNCHANGED unsent /\ r.type \in {"Subscribe", "Unsubscribe"} /\ r.channel = d
             /\ r.type = "Subscribe" <=> d \in DOMAIN channels_'
             /\ \A e \in Channels \ {d} : e \in DOMAIN channels_' <=> e \in DOMAIN channels_
    <3>1. CASE unsubscribe(d)
      <4> DEFINE r == Request("Unsubscribe", d)
      <4>1. r \in RequestType /\ r.type = "Unsubscribe" /\ r.channel = d
        BY RequestsTyped DEF Request
      <4>2. request' = r /\ UNCHANGED unsent /\ DOMAIN channels_' = DOMAIN channels_ \ {d}
        BY <2>1, <3>1 DEF unsubscribe, Ask
      <4> QED BY <4>1, <4>2
    <3>2. CASE subscribe(d) /\ channels_'[d].acknowledged /\ UNCHANGED <<request, unsent>>
      <4>1. channels_' = [e \in DOMAIN channels_ \union {d} |->
                            IF e \in DOMAIN channels_ THEN channels_[e] ELSE NewChannel]
        BY <3>2 DEF subscribe
      <4>2. d \in DOMAIN channels_
        BY <3>2, <4>1 DEF NewChannel
      <4> QED BY <3>2, <4>1, <4>2
    <3>3. CASE subscribe(d) /\ Ask(Request("Subscribe", d))
      <4> DEFINE r == Request("Subscribe", d)
      <4>1. r \in RequestType /\ r.type = "Subscribe" /\ r.channel = d
        BY RequestsTyped DEF Request
      <4>2. DOMAIN channels_' = DOMAIN channels_ \union {d}
        BY <3>3 DEF subscribe
      <4>3. request' = r /\ UNCHANGED unsent
        BY <2>1, <3>3 DEF Ask
      <4> QED BY <4>1, <4>2, <4>3
    <3>4. subscribe(d) => \/ channels_'[d].acknowledged /\ UNCHANGED <<request, unsent>>
                          \/ Ask(Request("Subscribe", d))
      BY DEF subscribe
    <3> QED BY <1>9, <3>1, <3>2, <3>3, <3>4
  <2>3. CASE UNCHANGED <<request, unsent>> /\ DOMAIN channels_' = DOMAIN channels_
    <3>1. UNCHANGED Asked
      BY <2>1, <2>3 DEF Asked
    <3> QED BY <2>1, <2>3, <3>1 DEF RequestsSayIt
  <2>4. ASSUME NEW r \in RequestType,
               request' = r, UNCHANGED unsent, r.type \in {"Subscribe", "Unsubscribe"}, r.channel = d,
               r.type = "Subscribe" <=> d \in DOMAIN channels_',
               \A e \in Channels \ {d} : e \in DOMAIN channels_' <=> e \in DOMAIN channels_
        PROVE  Says'
    <3>1. Asked' = Append(Asked, r)
      BY <1>0, <2>1, <2>4, AsksOne
    <3>2. CASE c = d
      <4>1. For(c, r) /\ (r.type = "Subscribe" <=> c \in wanted')
        BY <2>1, <2>4, <3>2 DEF For
      <4> HIDE DEF wanted
      <4> QED BY <1>0, <2>1, <3>1, <4>1, AgreeLast
    <3>3. CASE c # d
      <4>1. ~For(c, r) /\ (c \in wanted' <=> c \in wanted)
        BY <2>1, <2>4, <3>3 DEF For
      <4>2. Says
        BY <2>1, <2>4, <4>1 DEF RequestsSayIt
      <4> HIDE DEF wanted
      <4>3. Agree(Append(Asked, r), subscribers, c, wanted')
        BY <1>0, <4>1, <4>2, AgreeAppend
      <4> QED BY <2>1, <3>1, <4>3
    <3> QED BY <3>2, <3>3
  <2> QED BY <2>2, <2>3, <2>4
<1>10. ASSUME NEW d \in Channels, receiveMsg(d) PROVE Says'
  BY <1>1, <1>10 DEF receiveMsg, server, requests
<1>11. CASE Receive \/ handleControlMsg \/ Complete \/ SetAvailable \/ Report \/ Reported \/ ReceiverEnds
            \/ UNCHANGED vars
  <2>1. UNCHANGED <<app, isConnected, fd_, inbox, request, asking, unsent, subscribers>>
    BY <1>11 DEF Receive, handleControlMsg, Complete, SetAvailable, Report, Reported, ReceiverEnds,
       requests, server, vars
  <2>2. DOMAIN channels_' = DOMAIN channels_
    BY <1>11 DEF Receive, handleControlMsg, Complete, SetAvailable, Report, Reported, ReceiverEnds,
       Unacknowledged, vars
  <2> QED BY <1>1, <2>1, <2>2
<1>12. CASE ServerReceives
  <2> DEFINE m == Head(inbox)
  <2>1. /\ Subscribing /\ UNCHANGED <<channels_, asking, request, unsent>>
        /\ inbox # <<>> /\ inbox' = Tail(inbox)
    BY <1>12 DEF ServerReceives, Subscribing, requests
  <2>2. client.to = fd_ /\ fd_ # 0 /\ ~InInbox /\ ~Has(inbox, "Disconnect")
    BY <1>0, <2>1 DEF ServerHasClient, Subscribing
  <2>3. m.type \notin {"Connect", "Disconnect"}
    BY <1>0, <2>1, <2>2, HasTail DEF InInbox
  <2>4. /\ m.type \in {"Subscribe", "Unsubscribe"}
        /\ m.type = "Subscribe" => subscribers' = subscribers \union {m.channel}
        /\ m.type = "Unsubscribe" => subscribers' = subscribers \ {m.channel}
    BY <1>12, <2>1, <2>2, <2>3 DEF ServerReceives, Known
  <2>5. Says
    BY <2>1 DEF RequestsSayIt
  <2>6. IF For(c, m) THEN c \in subscribers' <=> m.type = "Subscribe" ELSE c \in subscribers' <=> c \in subscribers
    BY <2>4 DEF For
  <2>7. Asked # <<>> /\ Head(Asked) = m /\ Asked' = Tail(Asked)
    BY <1>0, <1>12, <2>1, AskedTyped
  <2>8. Agree(Tail(Asked), subscribers', c, wanted)
    <3> HIDE DEF m, wanted
    <3> QED BY <1>0, <2>5, <2>6, <2>7, AgreeTail
  <2> QED BY <2>1, <2>7, <2>8
<1>13. CASE ServerWrites
  <2>1. Subscribing /\ UNCHANGED <<app, isConnected, fd_, inbox, request, asking, unsent, channels_>>
    BY <1>13 DEF ServerWrites, Subscribing, requests
  <2>2. client.to = fd_
    BY <1>0, <2>1 DEF ServerHasClient
  <2>3. UNCHANGED subscribers
    BY <1>13, <2>2 DEF ServerWrites
  <2> QED BY <1>1, <2>1, <2>3
<1>14. ASSUME NEW m \in Messages, NEW p \in Pages(m), Publish(m, p) PROVE Says'
  BY <1>1, <1>14 DEF Publish, requests
<1> QED BY <1>2, <1>3, <1>4, <1>5, <1>6, <1>7, <1>8, <1>9, <1>10, <1>11, <1>12, <1>13, <1>14
        DEF Next, Program, Sending, Connecting, Receiver, Server

LEMMA SInvKept == TInv /\ KInv /\ SInv /\ [Next]_vars => SInv'
<1> SUFFICES ASSUME TInv, KInv, SInv, [Next]_vars, ~timedOut', app' # "crashed" PROVE SInv'
  BY DEF SInv
<1>1. ~timedOut /\ app # "crashed"
  BY StaysGivenUp
<1>2. /\ SocketsInOrder
      /\ \A c \in Channels : NoneAcknowledged(c) /\ NewEntryIsEmpty(c) /\ RequestsSayIt(c)
  BY <1>1 DEF SInv
<1>3. SocketsInOrder'
  BY <1>1, <1>2, SocketsStep
<1>4. ASSUME NEW c \in Channels
      PROVE  (NoneAcknowledged(c) /\ NewEntryIsEmpty(c) /\ RequestsSayIt(c))'
  BY <1>1, <1>2, NoneAcknowledgedStep, NewEntryStep, SayStep
<1> QED BY <1>3, <1>4 DEF SInv

\* The subscriptions outlive a connection, whichever side or thread ends it: when all
\* requests have been taken those of the client are those of the server, but for the
\* channels whose last request could not be sent, and as long as no connect has given
\* up on its echo (UnixClient.cc:286-302, 312, 378, 423, 854-858).
THEOREM SubscriptionsSurviveAlways == Spec => []SubscriptionsSurvive
<1>1. Init => KInv
  <2> SUFFICES ASSUME Init PROVE KInv
    OBVIOUS
  <2>1. ~InInbox /\ ~InOutBox /\ ~InQueue /\ ~InHand /\ ~Echoing
    BY HasNone DEF Init, InInbox, InOutBox, InQueue, InHand, Echoing, NoThread, NotKnown
  <2> QED BY <2>1, HasNone DEF Init, KInv, Chain, NoticeIsLast, ServerHasClient, Subscribing, NotKnown
<1>2. Init => SInv
  <2> SUFFICES ASSUME Init PROVE SInv
    OBVIOUS
  <2>1. SocketsInOrder
    BY DEF Init, SocketsInOrder, NotKnown
  <2>2. ASSUME NEW c \in Channels PROVE NoneAcknowledged(c) /\ NewEntryIsEmpty(c) /\ RequestsSayIt(c)
    BY ForNone DEF Init, NoneAcknowledged, NewEntryIsEmpty, RequestsSayIt, Subscribing, AckInHand, NoThread
  <2> QED BY <2>1, <2>2 DEF SInv
<1>3. TInv /\ SInv => SubscriptionsSurvive
  <2> SUFFICES ASSUME TInv, SInv, ~timedOut, Settled, NEW c \in Channels \ unsent
               PROVE  c \in subscribers <=> c \in DOMAIN channels_
    BY DEF SubscriptionsSurvive
  <2>1. inbox = <<>> /\ request = NoRequest /\ asking = {} /\ Subscribing /\ app # "crashed"
    BY DEF TInv, TypeOK, Asks, Settled, Subscribing
  <2>2. Agree(<<>>, subscribers, c, DOMAIN channels_ \ {})
    BY <2>1 DEF SInv, RequestsSayIt, Asked
  <2> QED BY <2>2 DEF Agree, NoneFor
<1> QED BY <1>1, <1>2, <1>3, KInvKept, SInvKept, TInvAlways, PTL DEF Spec
=============================================================================
