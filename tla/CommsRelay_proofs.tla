--------------------------- MODULE CommsRelay_proofs ---------------------------
(***************************************************************************)
(* Proofs about the way of a message from the server that accepts it to    *)
(* the host it is for: the server implements MessageRelay, and the other   *)
(* end of a connection makes of the bytes the messages that were sent.     *)
(***************************************************************************)
EXTENDS CommsLink, CommsStream_proofs, SequenceTheorems

-----------------------------------------------------------------------------
(***************************************************************************)
(* What is delivered, and what is to be: the messages due that are not.    *)
(***************************************************************************)
LEMMA DeliveredIs ==
  /\ \A c, d : d \in Delivered(c) <=>
       \E k \in DOMAIN stream : /\ stream[k].client = c
                                /\ \E i \in DOMAIN stream[k].bytes :
                                     /\ stream[k].bytes[i][2] = FrameLength
                                     /\ d = [at |-> <<k, i>>, msg |-> stream[k].bytes[i][1]]
  /\ \A c, d : d \in Delivered(c)' <=>
       \E k \in DOMAIN stream' : /\ stream'[k].client = c
                                 /\ \E i \in DOMAIN stream'[k].bytes :
                                      /\ stream'[k].bytes[i][2] = FrameLength
                                      /\ d = [at |-> <<k, i>>, msg |-> stream'[k].bytes[i][1]]
<1>1. \A k, d : d \in DeliveredOn(k) <=>
        \E i \in DOMAIN stream[k].bytes : /\ stream[k].bytes[i][2] = FrameLength
                                          /\ d = [at |-> <<k, i>>, msg |-> stream[k].bytes[i][1]]
  BY DEF DeliveredOn
<1>2. \A k, d : d \in DeliveredOn(k)' <=>
        \E i \in DOMAIN stream'[k].bytes : /\ stream'[k].bytes[i][2] = FrameLength
                                           /\ d = [at |-> <<k, i>>, msg |-> stream'[k].bytes[i][1]]
  BY DEF DeliveredOn
<1>3. \A c, d : d \in Delivered(c) <=>
        \E k \in DOMAIN stream : stream[k].client = c /\ d \in DeliveredOn(k)
  BY DEF Delivered
<1>4. \A c, d : d \in Delivered(c)' <=>
        \E k \in DOMAIN stream' : stream'[k].client = c /\ d \in DeliveredOn(k)'
  BY DEF Delivered
<1> QED BY <1>1, <1>2, <1>3, <1>4

LEMMA DueIs ==
  ASSUME NEW r \in ClientType
  PROVE  Due(r) = {m \in ToSet(r.outBox) \union {r.currentOutboundMessage} : m # NoMsg}
<1>1. /\ r.outBox \in Seq(Messages) /\ NoMsg \notin Messages
      /\ r.currentOutboundMessage # NoMsg => r.currentOutboundMessage \in Messages
  BY TypedClient DEF NoMsg, Messages
<1>2. \A m : m \in ToSet(r.outBox) <=> m \in Messages /\ \E i \in DOMAIN r.outBox : m = r.outBox[i]
  BY <1>1 DEF ToSet
<1> QED BY <1>1, <1>2 DEF Due

LEMMA OutboundIs ==
  ASSUME NEW c
  PROVE  /\ client[c] \in ClientType =>
              \A m : m \in Outbound(c) <=> m \in Due(client[c]) /\ \A d \in Delivered(c) : d.msg # m
         /\ client'[c] \in ClientType =>
              \A m : m \in Outbound(c)' <=>
                       m \in Due(client'[c]) /\ \A d \in Delivered(c)' : d.msg # m
<1>1. ASSUME client[c] \in ClientType
      PROVE  \A m : m \in Outbound(c) <=> m \in Due(client[c]) /\ \A d \in Delivered(c) : d.msg # m
  BY <1>1, DueIs DEF Outbound
<1>2. ASSUME client'[c] \in ClientType
      PROVE  \A m : m \in Outbound(c)' <=>
                      m \in Due(client'[c]) /\ \A d \in Delivered(c)' : d.msg # m
  BY <1>2, DueIs DEF Outbound
<1> QED BY <1>1, <1>2

(***************************************************************************)
(* No message is delivered by a step that sends nothing.                   *)
(***************************************************************************)
LEMMA NothingDelivered ==
  ASSUME \A k \in DOMAIN stream : k \in DOMAIN stream' /\ stream'[k] = stream[k],
         \A k \in DOMAIN stream' : k \in DOMAIN stream \/ stream'[k].bytes = <<>>, NEW c
  PROVE  Delivered(c)' = Delivered(c)
<1>1. ASSUME NEW d, d \in Delivered(c) PROVE d \in Delivered(c)'
  <2>1. PICK k \in DOMAIN stream :
          /\ stream[k].client = c
          /\ \E i \in DOMAIN stream[k].bytes :
               /\ stream[k].bytes[i][2] = FrameLength
               /\ d = [at |-> <<k, i>>, msg |-> stream[k].bytes[i][1]]
    BY <1>1, DeliveredIs
  <2>2. k \in DOMAIN stream' /\ stream'[k] = stream[k]
    OBVIOUS
  <2> QED BY <2>1, <2>2, DeliveredIs
<1>2. ASSUME NEW d, d \in Delivered(c)' PROVE d \in Delivered(c)
  <2>1. PICK k \in DOMAIN stream' :
          /\ stream'[k].client = c
          /\ \E i \in DOMAIN stream'[k].bytes :
               /\ stream'[k].bytes[i][2] = FrameLength
               /\ d = [at |-> <<k, i>>, msg |-> stream'[k].bytes[i][1]]
    BY <1>2, DeliveredIs
  <2>2. k \in DOMAIN stream
    BY <2>1
  <2>3. stream'[k] = stream[k]
    BY <2>2
  <2> QED BY <2>1, <2>2, <2>3, DeliveredIs
<1> QED BY <1>1, <1>2

-----------------------------------------------------------------------------
(***************************************************************************)
(* A client has had its earlier connections before the one it has, and     *)
(* what was sent on them is older than what is due, nothing without a      *)
(* connection; without pruning, the current message is at the front of the *)
(* outBox.                                                                 *)
(***************************************************************************)
PastOK(c, k) ==
  stream[k].client = c /\ k # client[c].fdStamp =>
    /\ Connected(c) => k < client[c].fdStamp
    /\ \A i \in DOMAIN stream[k].bytes, q \in Due(client[c]) : stream[k].bytes[i][1] < q

IdleOK(c) == ~Connected(c) => Due(client[c]) = {}

RelayInv ==
  /\ \A c \in Objects, k \in DOMAIN stream : PastOK(c, k)
  /\ \A c \in Objects : IdleOK(c)
  /\ ~staleThresholdValid => \A c \in Objects : HeadOK(c)

LEMMA InitRelay == Init => RelayInv
<1> SUFFICES ASSUME Init PROVE RelayInv
  OBVIOUS
<1>1. client = [c \in Objects |-> NewClient] /\ stream = <<>>
  BY DEF Init, PeerInit
<1>2. NewClient.outBox = <<>> /\ NewClient.currentOutboundMessage = NoMsg
  BY DEF NewClient
<1>3. Due(NewClient) = {}
  BY <1>2 DEF Due, Messages, NoMsg
<1> QED BY <1>1, <1>2, <1>3 DEF RelayInv, HeadOK, IdleOK

(***************************************************************************)
(* What a step does to the relay: nothing for a client; one that loses     *)
(* some of what is due, or all, with the connection; a message delivered   *)
(* to one; a message accepted for some.                                    *)
(***************************************************************************)
Quiet(c) == Outbound(c)' = Outbound(c) /\ Delivered(c)' = Delivered(c)

Loses(c) ==
  /\ received' = received /\ \A e \in Objects : e # c => Quiet(e)
  /\ Delivered(c)' = Delivered(c)
  /\ \/ Outbound(c)' = {} \/ Outbound(c)' = Outbound(c)
     \/ staleThresholdValid /\ Outbound(c)' \subseteq Outbound(c)

Hands(c) ==
  /\ received' = received /\ \A e \in Objects : e # c => Quiet(e)
  /\ \E m \in Outbound(c) :
       /\ \A n \in Outbound(c) : m <= n
       /\ Outbound(c)' = Outbound(c) \ {m}
       /\ \E d \in Delivered(c)' :
            /\ d.msg = m /\ \A e \in Delivered(c) : Before(e.at, d.at)
            /\ Delivered(c)' = Delivered(c) \union {d}

Accepts ==
  /\ received' = received + 1 /\ \A c \in Objects : Delivered(c)' = Delivered(c)
  /\ \A c \in Objects :
       \/ Quiet(c)
       \/ Outbound(c)' = Outbound(c) \union {received'}
       \/ staleThresholdValid /\ Outbound(c)' \subseteq Outbound(c) \union {received'}

Relays ==
  \/ received' = received /\ \A c \in Objects : Quiet(c)
  \/ \E c \in Objects : Loses(c) \/ Hands(c)
  \/ Accepts

LEMMA StepRelays ==
  ASSUME Relays
  PROVE  [Relay!Next]_(Relay!relayVars)
<1> DEFINE out == [c \in Objects |-> Outbound(c)]
           del == [c \in Objects |-> Delivered(c)]
<1>1. CASE received' = received /\ \A c \in Objects : Quiet(c)
  <2>1. out' = out /\ del' = del
    BY <1>1 DEF Quiet
  <2> QED BY <1>1, <2>1 DEF Relay!relayVars
<1>2. ASSUME NEW c \in Objects, Loses(c) PROVE Relay!Next
  <2>1. received' = received /\ del' = del
    BY <1>2 DEF Loses, Quiet
  <2>2. out' = [out EXCEPT ![c] = Outbound(c)']
    BY <1>2 DEF Loses, Quiet
  <2>3. CASE Outbound(c)' = {}
    <3>1. Relay!Drop(c)
      BY <2>1, <2>2, <2>3 DEF Relay!Drop
    <3> QED BY <3>1 DEF Relay!Next
  <2>4. CASE Outbound(c)' = Outbound(c) \/ (staleThresholdValid /\ Outbound(c)' \subseteq Outbound(c))
    <3>1. Outbound(c)' \in Relay!Kept(out[c])
      BY <2>4 DEF Relay!Kept
    <3>2. Relay!Discard(c)
      BY <2>1, <2>2, <3>1 DEF Relay!Discard
    <3> QED BY <3>2 DEF Relay!Next
  <2> QED BY <1>2, <2>3, <2>4 DEF Loses
<1>3. ASSUME NEW c \in Objects, Hands(c) PROVE Relay!Next
  <2>1. PICK m \in Outbound(c) :
          /\ \A n \in Outbound(c) : m <= n
          /\ Outbound(c)' = Outbound(c) \ {m}
          /\ \E d \in Delivered(c)' :
               /\ d.msg = m /\ \A e \in Delivered(c) : Before(e.at, d.at)
               /\ Delivered(c)' = Delivered(c) \union {d}
    BY <1>3 DEF Hands
  <2>2. PICK d \in Delivered(c)' :
          /\ d.msg = m /\ \A e \in Delivered(c) : Before(e.at, d.at)
          /\ Delivered(c)' = Delivered(c) \union {d}
    BY <2>1
  <2>3. received' = received
    BY <1>3 DEF Hands
  <2>4. out' = [out EXCEPT ![c] = out[c] \ {m}]
    BY <1>3, <2>1 DEF Hands, Quiet
  <2>5. del' = [del EXCEPT ![c] = del[c] \union {d}]
    BY <1>3, <2>2 DEF Hands, Quiet
  <2>6. out[c] = Outbound(c) /\ del[c] = Delivered(c) /\ del'[c] = Delivered(c)'
    OBVIOUS
  <2>7. \A e \in del[c] : Relay!Earlier(e.at, d.at)
    BY <2>2, <2>6 DEF Before, Relay!Earlier
  <2>8. m \in out[c] /\ (\A n \in out[c] : m <= n) /\ d \in del'[c] /\ d.msg = m
    BY <2>1, <2>2, <2>6
  <2> HIDE DEF out, del
  <2>9. Relay!Deliver(c)
    BY <2>3, <2>4, <2>5, <2>7, <2>8 DEF Relay!Deliver, out, del
  <2> QED BY <2>9 DEF Relay!Next
<1>4. CASE Accepts
  <2>1. PICK S \in SUBSET Objects : S = {c \in Objects : ~Quiet(c)}
    OBVIOUS
  <2>2. received' = received + 1 /\ del' = del /\ DOMAIN out' = Objects
    BY <1>4 DEF Accepts
  <2>3. \A c \in S : out'[c] \in Relay!Kept(out[c] \union {received'})
    BY <1>4, <2>1 DEF Accepts, Relay!Kept
  <2>4. \A c \in Objects \ S : out'[c] = out[c]
    BY <2>1 DEF Quiet
  <2>5. Relay!Accept
    BY <2>2, <2>3, <2>4 DEF Relay!Accept
  <2> QED BY <2>5 DEF Relay!Next
<1> QED BY <1>1, <1>2, <1>3, <1>4 DEF Relays

-----------------------------------------------------------------------------
(***************************************************************************)
(* Steps that send nothing, by what they do to the clients.                *)
(***************************************************************************)
SameDue(e) ==
  /\ client'[e].fd = client[e].fd /\ client'[e].fdStamp = client[e].fdStamp
  /\ client'[e].outBox = client[e].outBox
  /\ client'[e].currentOutboundMessage = client[e].currentOutboundMessage

LEMMA SameIsQuiet ==
  ASSUME NEW e, SameDue(e), Delivered(e)' = Delivered(e)
  PROVE  Quiet(e) /\ (HeadOK(e) => HeadOK(e)') /\ (IdleOK(e) => IdleOK(e)')
<1>1. Due(client'[e]) = Due(client[e])
  BY DEF SameDue, Due
<1> QED BY <1>1 DEF Quiet, SameDue, Outbound, HeadOK, IdleOK, Connected

LEMMA PastKept ==
  ASSUME NEW e, NEW k, PastOK(e, k), stream'[k] = stream[k],
         client'[e].fd = client[e].fd, client'[e].fdStamp = client[e].fdStamp,
         Due(client'[e]) \subseteq Due(client[e])
  PROVE  PastOK(e, k)'
BY DEF PastOK, Connected

(***************************************************************************)
(* One client loses some of what is due to it: all if it loses the         *)
(* connection, and nothing without pruning if it does not.                 *)
(***************************************************************************)
LEMMA OneLoses ==
  ASSUME ServerInv, ServerInv', RelayInv, UNCHANGED <<stream, received>>, NEW c,
         \A e \in Objects : e # c => SameDue(e),
         c \in Objects =>
           \/ client'[c].fd = Closed /\ Due(client'[c]) = {}
           \/ /\ client'[c].fd = client[c].fd /\ client'[c].fdStamp = client[c].fdStamp
              /\ Due(client'[c]) \subseteq Due(client[c])
              /\ \/ staleThresholdValid
                 \/ \A m \in Due(client[c]) \ Due(client'[c]) : \E d \in Delivered(c) : d.msg = m,
         c \in Objects /\ ~staleThresholdValid => HeadOK(c)'
  PROVE  RelayInv' /\ Relays
<1>1. \A e : Delivered(e)' = Delivered(e)
  BY NothingDelivered
<1>2. \A e \in Objects :
        e # c => Quiet(e) /\ (HeadOK(e) => HeadOK(e)') /\ (IdleOK(e) => IdleOK(e)')
  BY <1>1, SameIsQuiet
<1>3. /\ ~staleThresholdValid => \A e \in Objects : HeadOK(e)'
      /\ \A e \in Objects : IdleOK(e)'
  <2>1. c \in Objects => IdleOK(c)'
    BY DEF RelayInv, IdleOK, Connected
  <2> QED BY <1>2, <2>1 DEF RelayInv
<1>4. ASSUME NEW e \in Objects, NEW k \in DOMAIN stream', e # c PROVE PastOK(e, k)'
  <2>1. PastOK(e, k) /\ SameDue(e)
    BY <1>4 DEF RelayInv
  <2>2. Due(client'[e]) = Due(client[e])
    BY <2>1 DEF SameDue, Due
  <2> QED BY <2>1, <2>2, PastKept DEF SameDue
<1>5. ASSUME NEW k \in DOMAIN stream', c \in Objects PROVE PastOK(c, k)'
  <2>1. PastOK(c, k)
    BY <1>5 DEF RelayInv
  <2>2. CASE client'[c].fd = Closed /\ Due(client'[c]) = {}
    BY <2>2 DEF PastOK, Connected
  <2>3. CASE /\ client'[c].fd = client[c].fd /\ client'[c].fdStamp = client[c].fdStamp
             /\ Due(client'[c]) \subseteq Due(client[c])
    BY <2>1, <2>3, PastKept
  <2> QED BY <1>5, <2>2, <2>3
<1>6. Relays
  <2>1. CASE c \notin Objects
    BY <1>2, <2>1 DEF Relays
  <2>2. CASE c \in Objects
    <3>1. /\ \A m : m \in Outbound(c) <=> m \in Due(client[c]) /\ \A d \in Delivered(c) : d.msg # m
          /\ \A m : m \in Outbound(c)' <=> m \in Due(client'[c]) /\ \A d \in Delivered(c) : d.msg # m
      <4>1. client[c] \in ClientType /\ client'[c] \in ClientType
        BY <2>2 DEF ServerInv, PeerInv, PeerTypes
      <4> QED BY <1>1, <4>1, OutboundIs
    <3>2. CASE Due(client'[c]) = {}
      <4>1. Outbound(c)' = {}
        BY <3>1, <3>2
      <4> QED BY <1>1, <1>2, <2>2, <4>1 DEF Loses, Relays
    <3>3. CASE Due(client'[c]) \subseteq Due(client[c]) /\ staleThresholdValid
      <4>1. Outbound(c)' \subseteq Outbound(c)
        BY <3>1, <3>3
      <4> QED BY <1>1, <1>2, <2>2, <3>3, <4>1 DEF Loses, Relays
    <3>4. CASE /\ Due(client'[c]) \subseteq Due(client[c])
               /\ \A m \in Due(client[c]) \ Due(client'[c]) : \E d \in Delivered(c) : d.msg = m
      <4>1. Outbound(c)' = Outbound(c)
        BY <3>1, <3>4
      <4> QED BY <1>1, <1>2, <2>2, <4>1 DEF Loses, Relays
    <3> QED BY <2>2, <3>2, <3>3, <3>4
  <2> QED BY <2>1, <2>2
<1> QED BY <1>3, <1>4, <1>5, <1>6 DEF RelayInv

LEMMA FieldRelay ==
  ASSUME ServerInv, ServerInv', RelayInv, UNCHANGED <<stream, received>>, NEW c,
         \/ client' = client
         \/ \E b \in BOOLEAN : client' = [client EXCEPT ![c].onWriteQueue = b]
         \/ \E b \in BOOLEAN : client' = [client EXCEPT ![c].readyToWrite = b]
  PROVE  RelayInv' /\ Relays
<1>1. \A e \in Objects : SameWrite(e)
  BY StreamFacts, FieldSame
<1>2. \A e \in Objects : SameDue(e)
  BY <1>1 DEF SameWrite, SameDue
<1>3. NoClient \notin Objects
  BY NoClientIsNone
<1> QED BY <1>2, <1>3, OneLoses

LEMMA ResetRelay ==
  ASSUME ServerInv, ServerInv', RelayInv, NEW c \in Objects, clientReset(c, TRUE),
         UNCHANGED <<stream, received>>
  PROVE  RelayInv' /\ Relays
<1>1. client[c] \in ClientType /\ client = [e \in Objects |-> client[e]]
  BY StreamFacts
<1>2. client'[c] = Reset(client[c]) /\ \A e \in Objects : e # c => SameDue(e)
  BY <1>1 DEF clientReset, SameDue
<1>3. /\ client'[c].fd = Closed /\ client'[c].outBox = <<>>
      /\ client'[c].currentOutboundMessage = NoMsg
  BY <1>1, <1>2 DEF Reset, ClientType
<1>4. Due(client'[c]) = {} /\ HeadOK(c)'
  BY <1>3 DEF Due, HeadOK, Messages, NoMsg
<1> QED BY <1>2, <1>3, <1>4, OneLoses

(***************************************************************************)
(* A connection is made: nothing is due to the client, and nothing has     *)
(* been sent on the connection.                                            *)
(***************************************************************************)
LEMMA ConnectRelay ==
  ASSUME ServerInv, ServerInv', StreamInv, RelayInv, NEW h \in Hosts, Connect(h)
  PROVE  RelayInv' /\ Relays
<1>0. /\ client = [d \in Objects |-> client[d]] /\ \A d \in Objects : client[d] \in ClientType
      /\ stream \in Seq(StreamType)
      /\ DOMAIN stream = 1 .. Len(stream) /\ Len(stream) \in Nat
  BY StreamFacts
<1>1. PICK c : c = Named(h)
  OBVIOUS
<1>2. PICK r : r = IF Connected(c) THEN Reset(client[c]) ELSE client[c]
  OBVIOUS
<1>3. PICK k : k = Len(stream) + 1
  OBVIOUS
<1>4. PICK fd \in Fds : client' = [client EXCEPT ![c] = [r EXCEPT !.fd = fd, !.fdStamp = k]]
  BY <1>1, <1>2, <1>3 DEF Connect
<1>5. /\ c \in Objects /\ received' = received
      /\ stream' = Append(stream, [client |-> c, bytes |-> <<>>])
  BY <1>1 DEF Connect
<1>6. /\ \A n \in DOMAIN stream : stream'[n] = stream[n] /\ n \in DOMAIN stream' /\ n < k
      /\ stream'[k].client = c /\ stream'[k].bytes = <<>>
      /\ \A n \in DOMAIN stream' : n # k => n \in DOMAIN stream
  BY <1>0, <1>3, <1>5
<1>7. r \in ClientType /\ Due(r) = {}
  <2>1. CASE ~Connected(c)
    BY <1>0, <1>2, <1>5, <2>1 DEF RelayInv, IdleOK
  <2>2. CASE Connected(c)
    <3>1. r \in ClientType /\ r.outBox = <<>> /\ r.currentOutboundMessage = NoMsg
      <4>1. client[c] \in ClientType /\ r = Reset(client[c])
        BY <1>0, <1>2, <1>5, <2>2
      <4> QED BY <4>1, OutcomesTyped DEF Reset, ClientType
    <3> QED BY <3>1 DEF Due, Messages, NoMsg
  <2> QED BY <2>1, <2>2
<1>8. PICK s : s = [r EXCEPT !.fd = fd, !.fdStamp = k]
  OBVIOUS
<1>9. /\ s.fd = fd /\ s.fdStamp = k /\ s.outBox = r.outBox
      /\ s.currentOutboundMessage = r.currentOutboundMessage
  BY <1>7, <1>8 DEF ClientType
<1>10. client'[c] = s /\ \A d \in Objects \ {c} : client'[d] = client[d]
  <2>1. client' = [client EXCEPT ![c] = s]
    BY <1>4, <1>8
  <2> QED BY <1>0, <1>5, <2>1
<1>11. Due(client'[c]) = {} /\ client'[c].currentOutboundMessage = NoMsg
  <2>1. Due(s) = Due(r)
    BY <1>9 DEF Due
  <2>2. r.currentOutboundMessage = NoMsg
    BY <1>7, TypedClient DEF Due
  <2> QED BY <1>7, <1>9, <1>10, <2>1, <2>2
<1>12. \A e : Delivered(e)' = Delivered(e)
  BY <1>6, NothingDelivered
<1>13. \A e \in Objects : e # c =>
         Quiet(e) /\ (HeadOK(e) => HeadOK(e)') /\ (IdleOK(e) => IdleOK(e)')
  BY <1>10, <1>12, SameIsQuiet DEF SameDue
<1>14. /\ ~staleThresholdValid => \A e \in Objects : HeadOK(e)'
       /\ \A e \in Objects : IdleOK(e)'
  BY <1>11, <1>13 DEF RelayInv, HeadOK, IdleOK
<1>15. ASSUME NEW e \in Objects, NEW n \in DOMAIN stream' PROVE PastOK(e, n)'
  <2>1. CASE e = c
    BY <1>6, <1>9, <1>10, <1>11, <2>1 DEF PastOK
  <2>2. CASE e # c /\ n = k
    BY <1>6, <2>2 DEF PastOK
  <2>3. CASE e # c /\ n # k
    <3>1. n \in DOMAIN stream /\ PastOK(e, n) /\ stream'[n] = stream[n] /\ client'[e] = client[e]
      BY <1>6, <1>10, <2>3 DEF RelayInv
    <3> QED BY <3>1, PastKept
  <2> QED BY <2>1, <2>2, <2>3
<1>16. Outbound(c)' = {}
  <2>1. client'[c] \in ClientType
    BY <1>5 DEF ServerInv, PeerInv, PeerTypes
  <2>2. \A m : m \in Outbound(c)' => m \in Due(client'[c])
    BY <2>1, OutboundIs
  <2> QED BY <1>11, <2>2
<1>17. Loses(c)
  BY <1>5, <1>12, <1>13, <1>16 DEF Loses
<1> QED BY <1>5, <1>14, <1>15, <1>17 DEF RelayInv, Relays

(***************************************************************************)
(* A message is accepted: it is newer than all that has been sent.         *)
(***************************************************************************)
LEMMA InQueueRelay ==
  ASSUME ServerInv, ServerInv', StreamInv, RelayInv, InQueue
  PROVE  RelayInv' /\ Relays
<1>0. received \in Nat /\ \A e \in Objects : client[e] \in ClientType /\ client'[e] \in ClientType
  BY StreamFacts DEF ServerInv, PeerInv, PeerTypes
<1>1. PICK old : queueMsg(received + 1, old)
  BY DEF InQueue
<1>2. received + 1 \in Messages /\ received' = received + 1 /\ UNCHANGED stream
  BY <1>0, <1>1, BasePeerAssumption DEF InQueue, Messages, queueMsg
<1>3. \A e \in Objects :
        \/ client'[e] = client[e]
        \/ Connected(e) /\ client'[e] = Queued(client[e], received + 1, old)
  BY <1>1 DEF queueMsg, Reached
<1>4. \A e : Delivered(e)' = Delivered(e)
  BY <1>2, NothingDelivered
<1>5. ASSUME NEW k \in DOMAIN stream, NEW i \in DOMAIN stream[k].bytes
      PROVE  stream[k].bytes[i][1] < received + 1
  BY <1>0, ByteFacts DEF StreamInv, StreamOK
<1>6. ASSUME NEW e \in Objects, NEW d \in Delivered(e) PROVE d.msg # received + 1
  BY <1>0, <1>5, DeliveredIs
<1>7. ASSUME NEW e \in Objects,
             Connected(e), client'[e] = Queued(client[e], received + 1, old)
      PROVE  /\ \A k \in DOMAIN stream : PastOK(e, k)'
             /\ ~staleThresholdValid => HeadOK(e)'
             /\ IdleOK(e)'
             /\ \/ Outbound(e)' = Outbound(e) \union {received'}
                \/ staleThresholdValid /\ Outbound(e)' \subseteq Outbound(e) \union {received'}
  <2>1. PICK r \in ClientType : r = client[e]
    BY <1>0
  <2>2. PICK s \in ClientType : s = client'[e] /\ s = Queued(r, received + 1, old)
    BY <1>0, <1>7, <2>1
  <2>3. /\ s.fd = r.fd /\ s.fdStamp = r.fdStamp
        /\ s.currentOutboundMessage = r.currentOutboundMessage
        /\ \A q \in Due(s) : q \in Due(r) \/ q = received + 1
        /\ ~staleThresholdValid => s.outBox = Append(r.outBox, received + 1)
    BY <1>0, <1>2, <2>1, <2>2, RisingQueued DEF StreamInv, ClientOK
  <2>4. ASSUME NEW k \in DOMAIN stream PROVE PastOK(e, k)'
    <3>1. PastOK(e, k)
      BY DEF RelayInv
    <3> QED BY <1>2, <1>5, <2>1, <2>2, <2>3, <3>1 DEF PastOK, Connected
  <2>5. IdleOK(e)'
    BY <1>7, <2>1, <2>2, <2>3 DEF IdleOK, Connected
  <2>6. ASSUME ~staleThresholdValid
        PROVE  HeadOK(e)' /\ Due(s) = Due(r) \union {received + 1}
    <3>1. PICK box \in Seq(Messages) : box = r.outBox
      BY <2>1, TypedClient
    <3>2. s.outBox = Append(box, received + 1)
      BY <2>3, <2>6, <3>1
    <3>3. /\ DOMAIN s.outBox = 1 .. Len(box) + 1 /\ s.outBox[Len(box) + 1] = received + 1
          /\ DOMAIN box = 1 .. Len(box) /\ Len(box) \in Nat
          /\ \A i \in 1 .. Len(box) : s.outBox[i] = box[i]
          /\ s.outBox # <<>> /\ (box # <<>> => s.outBox[1] = box[1])
      BY <1>2, <3>2
    <3>4. HeadOK(e)
      BY <2>6 DEF RelayInv
    <3>5. HeadOK(e)'
      BY <2>1, <2>2, <2>3, <3>1, <3>3, <3>4 DEF HeadOK
    <3>6. \A q : q \in Due(r) \/ q = received + 1 => q \in Due(s)
      BY <1>2, <2>3, <3>1, <3>3 DEF Due
    <3> QED BY <2>3, <3>5, <3>6
  <2>7. /\ \A m : m \in Outbound(e) <=> m \in Due(r) /\ \A d \in Delivered(e) : d.msg # m
        /\ \A m : m \in Outbound(e)' <=> m \in Due(s) /\ \A d \in Delivered(e) : d.msg # m
    BY <1>4, <2>1, <2>2, OutboundIs
  <2>8. Outbound(e)' \subseteq Outbound(e) \union {received'}
    BY <1>2, <2>3, <2>7
  <2>9. ~staleThresholdValid => Outbound(e)' = Outbound(e) \union {received'}
    BY <1>2, <1>6, <2>6, <2>7
  <2> QED BY <2>4, <2>5, <2>6, <2>8, <2>9
<1>8. ASSUME NEW e \in Objects, client'[e] = client[e]
      PROVE  /\ \A k \in DOMAIN stream : PastOK(e, k)'
             /\ ~staleThresholdValid => HeadOK(e)'
             /\ IdleOK(e)' /\ Quiet(e)
  <2>1. Quiet(e) /\ (HeadOK(e) => HeadOK(e)') /\ (IdleOK(e) => IdleOK(e)')
    BY <1>4, <1>8, SameIsQuiet DEF SameDue
  <2>2. ASSUME NEW k \in DOMAIN stream PROVE PastOK(e, k)'
    <3>1. PastOK(e, k)
      BY DEF RelayInv
    <3> QED BY <1>2, <1>8, <3>1, PastKept
  <2> QED BY <2>1, <2>2 DEF RelayInv
<1>9. Accepts
  BY <1>2, <1>3, <1>4, <1>7, <1>8 DEF Accepts
<1>10. RelayInv'
  BY <1>2, <1>3, <1>7, <1>8 DEF RelayInv
<1> QED BY <1>9, <1>10 DEF Relays

(***************************************************************************)
(* The message to send is chosen, and the outcome of a send() recorded.    *)
(***************************************************************************)
LEMMA BeginRelay ==
  ASSUME ServerInv, ServerInv', RelayInv, NEW w \in Workers, Begin(w)
  PROVE  RelayInv' /\ Relays
<1>0. client = [d \in Objects |-> client[d]]
  BY StreamFacts
<1>1. PICK c : c = currentClientPtr[w]
  OBVIOUS
<1>2. c \in Objects /\ client[c] \in ClientType
  <2>1. pc[w] = "write"
    BY DEF Begin
  <2>2. c \in Objects
    BY <1>1, <2>1 DEF ServerInv, QueueInv, QueueTypes, Writing
  <2> QED BY <2>2, StreamFacts
<1>3. CASE UNCHANGED peerVars
  <2>1. UNCHANGED <<client, stream, received>>
    BY <1>3 DEF peerVars
  <2> QED BY <1>2, <2>1, FieldRelay
<1>4. CASE ChooseMessage(w, c)
  <2>1. PICK m : m = IF client[c].currentOutboundMessage # NoMsg
                     THEN client[c].currentOutboundMessage ELSE Head(client[c].outBox)
    OBVIOUS
  <2>2. /\ client' = [client EXCEPT ![c].currentOutboundMessage = m]
        /\ client[c].currentOutboundMessage = NoMsg => client[c].outBox # <<>>
        /\ UNCHANGED <<stream, received>>
    BY <1>4, <2>1 DEF ChooseMessage, NothingToWrite, FrontOfNothing
  <2>3. PICK r \in ClientType : r = client[c]
    BY <1>2
  <2>4. PICK s : s = [r EXCEPT !.currentOutboundMessage = m]
    OBVIOUS
  <2>5. client'[c] = s /\ \A e \in Objects : e # c => SameDue(e)
    BY <1>0, <1>2, <2>2, <2>3, <2>4 DEF SameDue
  <2>6. /\ s.fd = r.fd /\ s.fdStamp = r.fdStamp /\ s.outBox = r.outBox
        /\ s.currentOutboundMessage = m
    BY <2>4 DEF ClientType
  <2>7. /\ r.outBox \in Seq(Messages) /\ NoMsg \notin Messages
        /\ r.currentOutboundMessage = NoMsg => r.outBox # <<>> /\ m = r.outBox[1]
        /\ r.currentOutboundMessage # NoMsg => m = r.currentOutboundMessage
    BY <2>1, <2>2, <2>3, TypedClient DEF NoMsg, Messages
  <2>8. 1 \in DOMAIN r.outBox \/ r.outBox = <<>>
    BY <2>7
  <2>9. Due(s) = Due(r)
    BY <2>6, <2>7, <2>8 DEF Due
  <2>10. ~staleThresholdValid => HeadOK(c)'
    BY <1>2, <2>3, <2>5, <2>6, <2>7 DEF RelayInv, HeadOK
  <2> QED BY <1>2, <2>2, <2>3, <2>5, <2>6, <2>9, <2>10, OneLoses
<1> QED BY <1>1, <1>3, <1>4 DEF Begin

LEMMA EndRelay ==
  ASSUME ServerInv, ServerInv', StreamInv, RelayInv, NEW w \in Workers, End(w)
  PROVE  RelayInv' /\ Relays
<1>0. client = [d \in Objects |-> client[d]] /\ received \in Nat
  BY StreamFacts
<1>1. PICK c : c = currentClientPtr[w]
  OBVIOUS
<1>2. PICK d : d = writing[w]
  OBVIOUS
<1>3. /\ c \in Objects /\ MatchOK(w) /\ ClientOK(c) /\ client[c] \in ClientType
      /\ pc[w] = "sent" /\ d.msg # NoMsg /\ UNCHANGED <<stream, received>>
  <2>1. pc[w] = "sent" /\ UNCHANGED <<stream, received>>
    BY DEF End, recordWrite
  <2> QED BY <1>1, <1>2, <2>1, StreamFacts DEF Sending, HandOK, StreamInv
<1>4. PICK r \in ClientType : r = client[c]
  BY <1>3
<1>5. CASE client' = client
  BY <1>3, <1>5, FieldRelay
<1>6. CASE clientReset(c, TRUE)
  BY <1>3, <1>6, ResetRelay
<1>7. ASSUME NEW s, client' = [client EXCEPT ![c] = s]
      PROVE  client'[c] = s /\ \A e \in Objects : e # c => SameDue(e)
  BY <1>0, <1>3, <1>7 DEF SameDue
<1>8. CASE client' = [client EXCEPT ![c] = Again(r)]
  <2>1. PICK s : s = Again(r)
    OBVIOUS
  <2>2. client'[c] = s /\ \A e \in Objects : e # c => SameDue(e)
    BY <1>7, <1>8, <2>1
  <2>3. /\ s.fd = r.fd /\ s.fdStamp = r.fdStamp /\ s.outBox = r.outBox
        /\ s.currentOutboundMessage = NoMsg
    BY <2>1 DEF Again, ClientType
  <2>4. NoMsg \notin Messages
    BY DEF NoMsg, Messages
  <2>5. Due(s) \subseteq Due(r)
    BY <2>3, <2>4 DEF Due
  <2>6. ~staleThresholdValid => Due(r) \subseteq Due(s)
    <3>1. SUFFICES ASSUME HeadOK(c) PROVE Due(r) \subseteq Due(s)
      BY <1>3 DEF RelayInv
    <3>2. r.currentOutboundMessage # NoMsg => 1 \in DOMAIN r.outBox /\ r.outBox[1] = r.currentOutboundMessage
      BY <1>4, <3>1, TypedClient DEF HeadOK
    <3> QED BY <2>3, <2>4, <3>2 DEF Due
  <2>7. HeadOK(c)'
    BY <2>2, <2>3 DEF HeadOK
  <2> QED BY <1>3, <1>4, <2>2, <2>3, <2>5, <2>6, <2>7, OneLoses
<1>9. CASE client' = [client EXCEPT ![c] = Partial(r, d.sent)]
  <2>1. PICK s : s = Partial(r, d.sent)
    OBVIOUS
  <2>2. client'[c] = s /\ \A e \in Objects : e # c => SameDue(e)
    BY <1>7, <1>9, <2>1
  <2>3. /\ s.fd = r.fd /\ s.fdStamp = r.fdStamp /\ s.outBox = r.outBox
        /\ s.currentOutboundMessage = r.currentOutboundMessage
    BY <2>1 DEF Partial, ClientType
  <2>4. \A e \in Objects : SameDue(e)
    BY <1>4, <2>2, <2>3 DEF SameDue
  <2> QED BY <1>3, <2>4, NoClientIsNone, OneLoses
<1>10. CASE /\ d.fdStamp = client[c].fdStamp /\ d.status = "full"
            /\ client' = [client EXCEPT ![c] = Full(r)]
  <2>1. PICK s : s = Full(r)
    OBVIOUS
  <2>2. client'[c] = s /\ \A e \in Objects : e # c => SameDue(e)
    BY <1>7, <1>10, <2>1
  <2>3. r.currentOutboundMessage = d.msg
    BY <1>1, <1>2, <1>3, <1>4, <1>10 DEF MatchOK
  <2>4. /\ s.fd = r.fd /\ s.fdStamp = r.fdStamp
        /\ \A i \in DOMAIN r.outBox :
             r.outBox[i] = d.msg \/ \E j \in DOMAIN s.outBox : s.outBox[j] = r.outBox[i]
    BY <1>0, <1>3, <1>4, <2>1, <2>3, RisingFull DEF ClientOK
  <2>5. /\ s.currentOutboundMessage = NoMsg
        /\ s.outBox = r.outBox \/ (r.outBox # <<>> /\ s.outBox = Tail(r.outBox))
    BY <2>1 DEF Full, ClientType
  <2>6. \A j \in DOMAIN s.outBox : \E i \in DOMAIN r.outBox : r.outBox[i] = s.outBox[j]
    <3>1. CASE s.outBox = r.outBox
      BY <3>1
    <3>2. CASE r.outBox # <<>> /\ s.outBox = Tail(r.outBox)
      <4>1. PICK box \in Seq(Messages) : box = r.outBox
        BY TypedClient
      <4>2. \A j \in DOMAIN Tail(box) : j + 1 \in DOMAIN box /\ Tail(box)[j] = box[j + 1]
        BY <3>2, <4>1
      <4> QED BY <3>2, <4>1, <4>2
    <3> QED BY <2>5, <3>1, <3>2
  <2>7. NoMsg \notin Messages
    BY DEF NoMsg, Messages
  <2>8. Due(s) \subseteq Due(r) /\ \A m \in Due(r) \ Due(s) : m = d.msg
    BY <2>3, <2>4, <2>5, <2>6, <2>7 DEF Due
  <2>9. \E e \in Delivered(c) : e.msg = d.msg
    <3>1. PICK k \in DOMAIN stream : k = d.fdStamp /\ stream[k].client = c
      BY <1>1, <1>2, <1>3 DEF MatchOK
    <3>2. PICK i \in DOMAIN stream[k].bytes : stream[k].bytes[i] = <<d.msg, FrameLength>>
      BY <1>2, <1>3, <1>10, <3>1 DEF MatchOK
    <3>3. stream[k].bytes[i][2] = FrameLength /\ stream[k].bytes[i][1] = d.msg
      BY <3>2
    <3>4. PICK e : e = [at |-> <<k, i>>, msg |-> stream[k].bytes[i][1]]
      OBVIOUS
    <3>5. e \in Delivered(c) /\ e.msg = d.msg
      BY <3>1, <3>3, <3>4, DeliveredIs
    <3> QED BY <3>5
  <2>10. HeadOK(c)'
    BY <2>2, <2>5 DEF HeadOK
  <2> QED BY <1>3, <1>4, <2>2, <2>4, <2>8, <2>9, <2>10, OneLoses
<1> QED BY <1>1, <1>2, <1>4, <1>5, <1>6, <1>8, <1>9, <1>10 DEF End, recordWrite

(***************************************************************************)
(* A part of the current message goes on the connection; with its last     *)
(* byte the message is delivered, the oldest of those due, behind all that *)
(* have been.                                                              *)
(***************************************************************************)
LEMMA SendRelay ==
  ASSUME ServerInv, ServerInv', StreamInv, RelayInv, NotReused, NEW w \in Workers, Send(w)
  PROVE  RelayInv' /\ Relays
<1>0. /\ stream \in Seq(StreamType) /\ received \in Nat /\ PeerInv /\ FrameLength \in Nat \ {0}
  BY StreamFacts, BasePeerAssumption DEF ServerInv
<1>1. PICK c : c = currentClientPtr[w]
  OBVIOUS
<1>2. PICK d : d = writing[w]
  OBVIOUS
<1>3. pc[w] = "send" /\ UNCHANGED <<client, received>>
  BY DEF Send, send
<1>4. /\ c \in Objects /\ d.offset = client[c].bytesWrittenSoFar /\ ClientOK(c)
      /\ d.offset \in Nat /\ d.msg \in Messages /\ d.msg \in Nat /\ d.offset < FrameLength
  <2>1. /\ c \in Objects /\ d \in WriteType /\ HandOK(w) /\ ClientOK(c)
    BY <1>1, <1>2, <1>3, StreamFacts DEF Sending, StreamInv
  <2> QED BY <1>0, <1>1, <1>2, <2>1 DEF HandOK, WriteType, Messages
<1>5. \A v \in Workers : pc[v] = "sent" => currentClientPtr[v] # c
  BY <1>1, <1>3, StreamFacts DEF Sending
<1>6. CASE UNCHANGED stream
  BY <1>3, <1>6, FieldRelay
<1>7. ASSUME NEW n \in 1 .. FrameLength - writing[w].offset, NEW status \in {"partial", "full"},
             status = "partial" => n < FrameLength - writing[w].offset,
             status = "full" => n = FrameLength - writing[w].offset, Target(w) # 0,
             stream' = [stream EXCEPT ![Target(w)].bytes = stream[Target(w)].bytes \o
                          Bytes(writing[w].msg, writing[w].offset, writing[w].offset + n)]
      PROVE  RelayInv' /\ Relays
  <2>1. PICK k, old, new : k = Target(w) /\ old = stream[k].bytes
                           /\ new = Bytes(d.msg, d.offset, d.offset + n)
    OBVIOUS
  <2>2. /\ k \in DOMAIN stream /\ stream[k].client = c
        /\ client[c].fdStamp = k /\ Connected(c)
        /\ client[c].currentOutboundMessage = d.msg
    BY <1>1, <1>2, <1>3, <1>7, <2>1, SendsOnOwn
  <2>3. PICK to \in Nat : /\ to = d.offset + n /\ d.offset <= to /\ to <= FrameLength
                          /\ to - d.offset = n /\ n \in Nat /\ 1 <= n
                          /\ to = FrameLength <=> status = "full"
    <3>1. /\ n \in Nat /\ 1 <= n /\ n <= FrameLength - d.offset
          /\ status = "partial" => n < FrameLength - d.offset
          /\ status = "full" => n = FrameLength - d.offset
      BY <1>0, <1>2, <1>4, <1>7
    <3>2. PICK to : to = d.offset + n
      OBVIOUS
    <3>3. /\ to \in Nat /\ d.offset <= to /\ to <= FrameLength /\ to - d.offset = n
          /\ status = "partial" => to < FrameLength
          /\ status = "full" => to = FrameLength
      BY <1>0, <1>4, <3>1, <3>2
    <3>4. status # "full" => status = "partial"
      OBVIOUS
    <3> QED BY <1>0, <3>1, <3>2, <3>3, <3>4
  <2>4. /\ new \in Seq(Messages \X (1 .. FrameLength)) /\ Len(new) = n
        /\ \A i \in 1 .. n : new[i] = <<d.msg, d.offset + i>>
    <3>1. /\ Bytes(d.msg, d.offset, to) \in Seq(Messages \X (1 .. FrameLength))
          /\ Len(Bytes(d.msg, d.offset, to)) = to - d.offset
          /\ \A i \in 1 .. to - d.offset : Bytes(d.msg, d.offset, to)[i] = <<d.msg, d.offset + i>>
      BY <1>4, <2>3, BytesTyped
    <3> QED BY <2>1, <2>3, <3>1
  <2>5. Puts(k, new)
    BY <1>2, <1>7, <2>1 DEF Puts
  <2>6. /\ DOMAIN stream' = DOMAIN stream
        /\ \A i \in DOMAIN stream : stream'[i].client = stream[i].client
        /\ \A i \in DOMAIN stream : i # k => stream'[i] = stream[i]
        /\ stream'[k].bytes = old \o new
    <3>1. stream' \in Seq(StreamType) /\ Len(stream') = Len(stream)
      BY <1>0, <2>4, <2>5, StreamTyped
    <3>2. DOMAIN stream' = DOMAIN stream
      BY <1>0, <3>1
    <3>3. \A i \in DOMAIN stream : /\ stream'[i].client = stream[i].client
                                   /\ i # k => stream'[i] = stream[i]
      BY <1>0, <2>4, <2>5, StreamTyped
    <3>4. k \in DOMAIN stream => stream'[k].bytes = stream[k].bytes \o new
      BY <1>0, <2>4, <2>5, StreamTyped
    <3> QED BY <2>1, <2>2, <3>2, <3>3, <3>4
  <2>7. PICK s : s = old \o new
    OBVIOUS
  <2>8. /\ DOMAIN s = 1 .. Len(old) + n /\ Len(old) \in Nat /\ DOMAIN old = 1 .. Len(old)
        /\ \A i \in 1 .. Len(old) : s[i] = old[i]
        /\ \A i \in 1 .. n : s[Len(old) + i] = new[i]
    <3>1. old \in Seq(Messages \X (1 .. FrameLength))
      BY <2>1, <2>2, ByteFacts
    <3>2. new \in Seq(Messages \X (1 .. FrameLength))
      BY <2>4
    <3>3. /\ DOMAIN s = 1 .. Len(old) + Len(new) /\ Len(old) \in Nat
          /\ DOMAIN old = 1 .. Len(old) /\ \A i \in 1 .. Len(old) : s[i] = old[i]
          /\ \A i \in 1 .. Len(new) : s[Len(old) + i] = new[i]
      BY <2>7, <3>1, <3>2, Joined
    <3>4. Len(new) = n
      BY <2>4
    <3> QED BY <3>3, <3>4
  <2>9. PICK last : last = Len(old) + n
    OBVIOUS
  <2>10. \A i \in DOMAIN s :
           \/ i \in DOMAIN old /\ s[i] = old[i] /\ i < last
           \/ i = last /\ s[i] = <<d.msg, to>>
           \/ s[i][2] < to
    <3>1. SUFFICES ASSUME NEW i \in DOMAIN s, i > Len(old)
                   PROVE  (i = last /\ s[i] = <<d.msg, to>>) \/ s[i][2] < to
      BY <2>3, <2>8, <2>9
    <3>2. PICK j \in 1 .. n : i = Len(old) + j
      <4>1. i - Len(old) \in 1 .. n /\ i = Len(old) + (i - Len(old))
        BY <2>3, <2>8, <3>1
      <4> QED BY <4>1
    <3>3. PICK e : e = d.offset + j
      OBVIOUS
    <3>4. s[i] = <<d.msg, e>>
      BY <2>4, <2>8, <3>2, <3>3
    <3>5. e < to \/ (e = to /\ i = last)
      <4>1. j \in Nat /\ (j < n \/ j = n)
        BY <2>3, <3>2
      <4>2. j < n => e < to
        BY <1>4, <2>3, <3>3, <4>1
      <4> QED BY <2>3, <2>9, <3>2, <3>3, <4>1, <4>2
    <3> QED BY <3>4, <3>5
  <2>11. last \in DOMAIN s /\ s[last] = <<d.msg, to>>
    <3>1. n \in 1 .. n /\ last \in DOMAIN s
      BY <2>3, <2>8, <2>9
    <3> QED BY <2>3, <2>4, <2>8, <2>9, <3>1
  <2>12. /\ Rising(client[c], received)
         /\ \A i \in DOMAIN old : old[i][1] <= d.msg /\ (old[i][1] = d.msg => old[i][2] <= d.offset)
    <3>1. PICK D : D = Due(client[c])
      OBVIOUS
    <3>2. d.msg \in D
      BY <1>4, <2>2, <3>1 DEF Due
    <3>3. Recent(c, old, D) /\ Rising(client[c], received)
      BY <1>4, <2>1, <2>2, <3>1 DEF ClientOK, FreshOK
    <3> QED BY <1>4, <1>5, <3>2, <3>3 DEF Recent, Done
  <2>13. PICK end : end = [at |-> <<k, last>>, msg |-> d.msg]
    OBVIOUS
  <2>14. ASSUME NEW x PROVE x \in Delivered(c)' <=> x \in Delivered(c) \/ (status = "full" /\ x = end)
    <3>1. ASSUME x \in Delivered(c) PROVE x \in Delivered(c)'
      <4>1. PICK j \in DOMAIN stream :
              /\ stream[j].client = c
              /\ \E i \in DOMAIN stream[j].bytes :
                   /\ stream[j].bytes[i][2] = FrameLength
                   /\ x = [at |-> <<j, i>>, msg |-> stream[j].bytes[i][1]]
        BY <3>1, DeliveredIs
      <4>2. PICK i \in DOMAIN stream[j].bytes :
              /\ stream[j].bytes[i][2] = FrameLength
              /\ x = [at |-> <<j, i>>, msg |-> stream[j].bytes[i][1]]
        BY <4>1
      <4>3. /\ j \in DOMAIN stream' /\ stream'[j].client = c
            /\ i \in DOMAIN stream'[j].bytes /\ stream'[j].bytes[i] = stream[j].bytes[i]
        <5>1. CASE j # k
          BY <2>6, <4>1, <4>2, <5>1
        <5>2. CASE j = k
          <6>1. i \in DOMAIN old
            BY <2>1, <4>2, <5>2
          <6>2. i \in DOMAIN s /\ s[i] = old[i]
            BY <2>3, <2>8, <6>1
          <6> QED BY <2>1, <2>6, <2>7, <4>1, <5>2, <6>2
        <5> QED BY <5>1, <5>2
      <4> QED BY <4>2, <4>3, DeliveredIs
    <3>2. ASSUME status = "full" PROVE end \in Delivered(c)'
      <4>1. k \in DOMAIN stream' /\ stream'[k].client = c /\ stream'[k].bytes = s
        BY <2>2, <2>6, <2>7
      <4>2. s[last][2] = FrameLength /\ s[last][1] = d.msg
        BY <2>3, <2>11, <3>2
      <4> QED BY <2>11, <2>13, <4>1, <4>2, DeliveredIs
    <3>3. ASSUME x \in Delivered(c)' PROVE x \in Delivered(c) \/ (status = "full" /\ x = end)
      <4>1. PICK j \in DOMAIN stream' :
              /\ stream'[j].client = c
              /\ \E i \in DOMAIN stream'[j].bytes :
                   /\ stream'[j].bytes[i][2] = FrameLength
                   /\ x = [at |-> <<j, i>>, msg |-> stream'[j].bytes[i][1]]
        BY <3>3, DeliveredIs
      <4>2. PICK i \in DOMAIN stream'[j].bytes :
              /\ stream'[j].bytes[i][2] = FrameLength
              /\ x = [at |-> <<j, i>>, msg |-> stream'[j].bytes[i][1]]
        BY <4>1
      <4>3. j \in DOMAIN stream /\ stream[j].client = c
        BY <2>6, <4>1
      <4>4. CASE j # k
        BY <2>6, <4>2, <4>3, <4>4, DeliveredIs
      <4>5. CASE j = k
        <5>1. i \in DOMAIN s /\ s[i][2] = FrameLength /\ x = [at |-> <<k, i>>, msg |-> s[i][1]]
          BY <2>6, <2>7, <4>2, <4>5
        <5>2. CASE i \in DOMAIN old /\ s[i] = old[i]
          BY <2>1, <2>2, <5>1, <5>2, DeliveredIs
        <5>3. CASE i = last /\ s[i] = <<d.msg, to>>
          BY <2>3, <2>13, <5>1, <5>3
        <5>4. CASE s[i][2] < to
          BY <1>0, <2>3, <5>1, <5>4
        <5> QED BY <2>10, <5>1, <5>2, <5>3, <5>4
      <4> QED BY <4>4, <4>5
    <3> QED BY <3>1, <3>2, <3>3
  <2>15. ASSUME NEW e \in Objects, e # c PROVE Quiet(e)
    <3>1. \A j \in DOMAIN stream : stream[j].client = e => stream'[j] = stream[j]
      BY <2>2, <2>6, <2>15
    <3>2. \A x : x \in Delivered(e)' <=> x \in Delivered(e)
      BY <2>6, <3>1, DeliveredIs
    <3>3. Delivered(e)' = Delivered(e)
      BY <3>2 DEF Delivered
    <3>4. SameDue(e)
      BY <1>3, <2>15 DEF SameDue
    <3> QED BY <3>3, <3>4, SameIsQuiet
  <2>16. RelayInv'
    <3>1. ASSUME NEW e \in Objects, NEW j \in DOMAIN stream' PROVE PastOK(e, j)'
      <4>1. PastOK(e, j) /\ client'[e] = client[e] /\ j \in DOMAIN stream
        BY <1>3, <2>6 DEF RelayInv
      <4>2. CASE j # k
        BY <2>6, <4>1, <4>2, PastKept
      <4>3. CASE j = k
        BY <2>2, <2>6, <4>1, <4>3 DEF PastOK
      <4> QED BY <4>2, <4>3
    <3> QED BY <1>3, <3>1 DEF RelayInv, IdleOK, HeadOK, Connected
  <2>17. CASE status # "full"
    <3>1. Delivered(c)' = Delivered(c)
      BY <2>14, <2>17
    <3>2. Quiet(c)
      BY <1>3, <3>1, SameIsQuiet DEF SameDue
    <3> QED BY <1>3, <2>15, <2>16, <3>2 DEF Relays
  <2>18. CASE status = "full"
    <3>1. ASSUME NEW x \in Delivered(c) PROVE x.msg < d.msg /\ Before(x.at, end.at)
      <4>1. PICK j \in DOMAIN stream :
              /\ stream[j].client = c
              /\ \E i \in DOMAIN stream[j].bytes :
                   /\ stream[j].bytes[i][2] = FrameLength
                   /\ x = [at |-> <<j, i>>, msg |-> stream[j].bytes[i][1]]
        BY DeliveredIs
      <4>2. PICK i \in DOMAIN stream[j].bytes :
              /\ stream[j].bytes[i][2] = FrameLength
              /\ x = [at |-> <<j, i>>, msg |-> stream[j].bytes[i][1]]
        BY <4>1
      <4>3. x.msg = stream[j].bytes[i][1] /\ x.at = <<j, i>> /\ end.at = <<k, last>>
        BY <2>13, <4>2
      <4>4. CASE j # k
        <5>1. PastOK(c, j) /\ d.msg \in Due(client[c])
          BY <1>4, <2>2 DEF RelayInv, Due
        <5>2. j < k /\ stream[j].bytes[i][1] < d.msg
          BY <2>2, <4>1, <4>4, <5>1 DEF PastOK
        <5> QED BY <4>3, <5>2 DEF Before
      <4>5. CASE j = k
        <5>1. i \in DOMAIN old /\ old[i][2] = FrameLength /\ old[i] = stream[j].bytes[i]
          BY <2>1, <4>2, <4>5
        <5>2. i < last /\ old[i][1] \in Nat
          BY <2>1, <2>2, <2>3, <2>8, <2>9, <5>1, ByteFacts
        <5>3. old[i][1] # d.msg /\ old[i][1] <= d.msg
          BY <1>0, <1>4, <2>12, <5>1
        <5> QED BY <1>4, <4>3, <4>5, <5>1, <5>2, <5>3 DEF Before
      <4> QED BY <4>4, <4>5
    <3>2. /\ \A m : m \in Outbound(c) <=> m \in Due(client[c]) /\ \A x \in Delivered(c) : x.msg # m
          /\ \A m : m \in Outbound(c)' <=> m \in Due(client[c]) /\ \A x \in Delivered(c)' : x.msg # m
      <4>1. client[c] \in ClientType /\ client'[c] = client[c]
        BY <1>3, <1>4, StreamFacts
      <4> QED BY <4>1, OutboundIs
    <3>3. d.msg \in Due(client[c]) /\ \A m \in Due(client[c]) : d.msg <= m
      BY <1>4, <2>2, <2>12 DEF Due, Rising
    <3>4. d.msg \in Outbound(c) /\ \A m \in Outbound(c) : d.msg <= m
      <4>1. \A x \in Delivered(c) : x.msg # d.msg
        BY <1>4, <3>1
      <4> QED BY <3>2, <3>3, <4>1
    <3>5. end \in Delivered(c)' /\ end.msg = d.msg /\ Delivered(c)' = Delivered(c) \union {end}
      BY <2>13, <2>14, <2>18
    <3>6. Outbound(c)' = Outbound(c) \ {d.msg}
      BY <3>2, <3>5
    <3>7. \A x \in Delivered(c) : Before(x.at, end.at)
      BY <3>1
    <3>8. Hands(c)
      BY <1>3, <2>15, <3>4, <3>5, <3>6, <3>7 DEF Hands
    <3> QED BY <1>4, <2>16, <3>8 DEF Relays
  <2> QED BY <2>17, <2>18
<1> QED BY <1>0, <1>6, <1>7, SendCases

-----------------------------------------------------------------------------
(***************************************************************************)
(* Every step of the server is one of the relay, or none.                  *)
(***************************************************************************)
LEMMA WorkerRelay ==
  ASSUME ServerInv, ServerInv', StreamInv, RelayInv, NotReused, NEW w \in Workers, Worker(w)
  PROVE  RelayInv' /\ Relays
<1>1. CASE \/ Lock(w) \/ StartPoll(w) \/ TakeReady(w) \/ Wait(w) \/ EnterPoll(w)
           \/ PollTimesOut(w) \/ PollReturns(w) \/ LockPolled(w) \/ EndPoll(w)
  <2>1. UNCHANGED <<client, stream, received>>
    BY <1>1 DEF Lock, StartPoll, TakeReady, Wait, EnterPoll, PollTimesOut, PollReturns,
                LockPolled, EndPoll, peerVars
  <2>2. PICK c : c = NoClient
    OBVIOUS
  <2> QED BY <2>1, <2>2, FieldRelay
<1>2. CASE PollEvent(w)
  <2>1. PICK c : c = Head(writeWaiting_)
    OBVIOUS
  <2>2. CASE PollNothing(c)
    BY <2>2, FieldRelay DEF PollNothing, peerVars
  <2>3. CASE PollOut(c)
    <3>1. UNCHANGED <<stream, received>>
      BY <2>3 DEF PollOut
    <3>2. \E b \in BOOLEAN : client' = [client EXCEPT ![c].readyToWrite = b]
      BY <2>3 DEF PollOut
    <3> QED BY <3>1, <3>2, FieldRelay
  <2>4. CASE PollError(c)
    <3>1. c \in Objects
      <4>1. writefds_ # <<>> /\ Behind /\ writeWaiting_ \in Seq(Objects)
        BY <1>2 DEF PollEvent, ServerInv, QueueInv, QueueTypes
      <4>2. Len(writeWaiting_) # 0
        BY <4>1 DEF Behind
      <4> QED BY <2>1, <4>1, <4>2, HeadAndTail
    <3>2. UNCHANGED <<stream, received>>
      BY <2>4 DEF PollError, handleErrors
    <3>3. CASE clientReset(c, TRUE)
      BY <3>1, <3>2, <3>3, ResetRelay
    <3>4. CASE client' = client
      BY <3>2, <3>4, FieldRelay
    <3> QED BY <2>4, <3>3, <3>4 DEF PollError, handleErrors
  <2> QED BY <1>2, <2>1, <2>2, <2>3, <2>4 DEF PollEvent
<1>3. CASE Requeue(w)
  <2>1. PICK c : c = currentClientPtr[w]
    OBVIOUS
  <2>2. UNCHANGED <<stream, received>>
    BY <1>3 DEF Requeue
  <2>3. client' = client \/ \E b \in BOOLEAN : client' = [client EXCEPT ![c].onWriteQueue = b]
    BY <1>3, <2>1 DEF Requeue, BackOnQueue
  <2> QED BY <2>2, <2>3, FieldRelay
<1> QED BY <1>1, <1>2, <1>3, BeginRelay, SendRelay, EndRelay DEF Worker

LEMMA DiscoveryRelay ==
  ASSUME ServerInv, ServerInv', StreamInv, RelayInv, Discovery
  PROVE  RelayInv' /\ Relays
<1>1. ASSUME NEW h \in Hosts, Connect(h) PROVE RelayInv' /\ Relays
  BY <1>1, ConnectRelay
<1>2. ASSUME NEW h \in Hosts, ConnectFails(h) PROVE RelayInv' /\ Relays
  <2>1. clients_[h] \in 1 .. MaxObjects
    BY <1>2, ServerTyped, BasePeerAssumption DEF TypeOK, ConnectFails
  <2>2. PICK c \in Objects : c = Entry(h)
    BY <2>1 DEF Entry, Objects
  <2>3. clientReset(c, TRUE) /\ UNCHANGED <<stream, received>>
    BY <1>2, <2>2 DEF ConnectFails
  <2> QED BY <2>3, ResetRelay
<1>3. CASE \/ \E h \in Hosts : Subscribe(h) \/ Unsubscribe(h)
           \/ \E k \in Connections : Break(k)
  <2>1. UNCHANGED <<client, stream, received>>
    BY <1>3 DEF Subscribe, Unsubscribe, Break
  <2>2. PICK c : c = NoClient
    OBVIOUS
  <2> QED BY <2>1, <2>2, FieldRelay
<1> QED BY <1>1, <1>2, <1>3 DEF Discovery

LEMMA NextRelay ==
  ASSUME ServerInv, ServerInv', StreamInv, RelayInv, NotReused, [Next]_vars
  PROVE  RelayInv' /\ Relays
<1>1. CASE InPut
  <2>1. PICK c : c = Head(newPendingClients)
    OBVIOUS
  <2>2. client' = client \/ \E b \in BOOLEAN : client' = [client EXCEPT ![c].onWriteQueue = b]
    BY <1>1, <2>1 DEF InPut, PutOnQueue
  <2>3. UNCHANGED <<stream, received>>
    BY <1>1 DEF InPut
  <2> QED BY <2>2, <2>3, FieldRelay
<1>2. CASE InLock \/ InUnlock \/ InEnds \/ Stop \/ Broadcast \/ Join \/ UNCHANGED vars
  <2>1. UNCHANGED <<client, stream, received>>
    BY <1>2 DEF InLock, InUnlock, InEnds, Stop, Broadcast, Join, vars, peerVars
  <2>2. PICK c : c = NoClient
    OBVIOUS
  <2> QED BY <2>1, <2>2, FieldRelay
<1> QED BY <1>1, <1>2, DiscoveryRelay, InQueueRelay, WorkerRelay DEF Next

LEMMA RelayBegins == Init => Relay!Init
<1> SUFFICES ASSUME Init PROVE Relay!Init
  OBVIOUS
<1>1. /\ received = 0 /\ client = [c \in Objects |-> NewClient] /\ stream = <<>>
      /\ NewClient.outBox = <<>> /\ NewClient.currentOutboundMessage = NoMsg
  BY DEF Init, PeerInit, NewClient
<1>2. \A c : Delivered(c) = {}
  <2>1. \A c, d : d \notin Delivered(c)
    BY <1>1, DeliveredIs
  <2> QED BY <2>1
<1>3. \A c \in Objects : Outbound(c) = {}
  <2>1. ToSet(<<>>) = {}
    BY DEF ToSet
  <2> QED BY <1>1, <2>1 DEF Outbound
<1> QED BY <1>1, <1>2, <1>3 DEF Relay!Init

\* Whatever the interleaving, the server does to a client what a relay does: every message
\* accepted for it is delivered once, the oldest of those due before the others, each at a
\* place behind all before it, and none is dropped but with the connection or, when there is
\* a threshold, for its age (BasePeer.cc:150-194, 338-420) - as long as no send() meets a
\* descriptor that has been given to another connection meanwhile.
THEOREM ServerIsRelay == Spec /\ []NotReused => ImplementsRelay
<1>1. Init => RelayInv
  BY InitRelay
<1>2. ServerInv /\ ServerInv' /\ StreamInv /\ NotReused /\ RelayInv /\ [Next]_vars =>
        RelayInv' /\ [Relay!Next]_(Relay!relayVars)
  BY NextRelay, StepRelays
<1>3. Spec /\ []NotReused => [](ServerInv /\ StreamInv)
  BY StreamAlways
<1> QED BY <1>1, <1>2, <1>3, RelayBegins, PTL DEF Spec, ImplementsRelay, Relay!Spec

\* So it is, and without that proviso, when no host connects twice, or there is one connection.
THEOREM ImplementsRelayAlways ==
  ASSUME ~Reconnects \/ MaxConnections <= 1
  PROVE  Spec => ImplementsRelay
<1>1. Spec => []NotReused
  BY NotReusedAlways
<1> QED BY <1>1, ServerIsRelay, PTL

-----------------------------------------------------------------------------
(***************************************************************************)
(* The other end.  What is on a connection stays there and grows at its    *)
(* end, a connection that is gone stays so.                                *)
(***************************************************************************)
Extends(t, s) ==
  /\ Len(s) \in Nat /\ Len(t) \in Nat /\ Len(s) <= Len(t)
  /\ \A i \in 1 .. Len(s) : t[i] = s[i]

Grows ==
  /\ \A k \in DOMAIN stream : k \in DOMAIN stream' /\ Extends(stream'[k].bytes, stream[k].bytes)
  /\ \A k \in DOMAIN stream' : k \in DOMAIN stream \/ stream'[k].bytes = <<>>
  /\ broken \subseteq broken'
  /\ \A k \in DOMAIN stream, fd \in Fds : files'[fd] = k => files[fd] = k

LEMMA SameGrows ==
  ASSUME ServerInv, UNCHANGED stream, broken \subseteq broken',
         \A fd \in Fds : files'[fd] \in {0, files[fd]}
  PROVE  Grows
<1>1. \A k \in DOMAIN stream : Extends(stream[k].bytes, stream[k].bytes) /\ k # 0
  BY ByteFacts, StreamFacts DEF Extends
<1> QED BY <1>1 DEF Grows

LEMMA CloseGrows ==
  ASSUME ServerInv, UNCHANGED <<stream, broken>>, NEW c \in Objects, clientReset(c, TRUE)
  PROVE  Grows
<1>1. files \in [Fds -> Connections \union {0}]
  BY StreamFacts
<1>2. \A fd \in Fds : files'[fd] \in {0, files[fd]}
  BY <1>1 DEF clientReset, Close
<1> QED BY <1>2, SameGrows

LEMMA ConnectGrows ==
  ASSUME ServerInv, NEW h \in Hosts, Connect(h)
  PROVE  Grows
<1>0. /\ stream \in Seq(StreamType) /\ DOMAIN stream = 1 .. Len(stream) /\ Len(stream) \in Nat
      /\ files \in [Fds -> Connections \union {0}]
  BY StreamFacts
<1>1. PICK c : c = Named(h)
  OBVIOUS
<1>2. PICK k : k = Len(stream) + 1
  OBVIOUS
<1>3. PICK free : free = Close(client[c].fd)
  OBVIOUS
<1>4. /\ stream' = Append(stream, [client |-> c, bytes |-> <<>>]) /\ broken' = broken
      /\ \E fd \in Fds : files' = [free EXCEPT ![fd] = k]
  BY <1>1, <1>2, <1>3 DEF Connect
<1>5. PICK t : t = [client |-> c, bytes |-> <<>>]
  OBVIOUS
<1>6. /\ \A n \in DOMAIN stream : stream'[n] = stream[n] /\ n \in DOMAIN stream' /\ n # k /\ n # 0
      /\ \A n \in DOMAIN stream' : n \in DOMAIN stream \/ stream'[n] = t
  BY <1>0, <1>2, <1>4, <1>5
<1>7. t.bytes = <<>>
  BY <1>5
<1>8. \A n \in DOMAIN stream, fd \in Fds : files'[fd] = n => files[fd] = n
  <2>1. \A fd \in Fds : free[fd] \in {0, files[fd]} /\ free \in [Fds -> Connections \union {0}]
    BY <1>0, <1>3 DEF Close
  <2> QED BY <1>4, <1>6, <2>1
<1>9. \A n \in DOMAIN stream : Extends(stream[n].bytes, stream[n].bytes)
  BY ByteFacts DEF Extends
<1> QED BY <1>4, <1>6, <1>7, <1>8, <1>9 DEF Grows

LEMMA SendGrows ==
  ASSUME ServerInv, NEW w \in Workers, Send(w)
  PROVE  Grows
<1>0. stream \in Seq(StreamType) /\ PeerInv /\ FrameLength \in Nat \ {0}
  BY StreamFacts, BasePeerAssumption DEF ServerInv
<1>1. pc[w] = "send" /\ UNCHANGED <<files, broken>>
  BY DEF Send, send
<1>2. CASE UNCHANGED stream
  BY <1>1, <1>2, SameGrows
<1>3. PICK d : d = writing[w]
  OBVIOUS
<1>4. d.offset \in 0 .. FrameLength - 1 /\ d.msg \in Messages
  <2>1. d \in WriteType /\ HandOK(w)
    BY <1>1, <1>3, StreamFacts DEF Sending
  <2> QED BY <1>1, <1>3, <2>1 DEF HandOK, WriteType, Messages
<1>5. ASSUME NEW n \in 1 .. FrameLength - writing[w].offset,
             stream' = [stream EXCEPT ![Target(w)].bytes = stream[Target(w)].bytes \o
                          Bytes(writing[w].msg, writing[w].offset, writing[w].offset + n)]
      PROVE  Grows
  <2>1. PICK k, new : k = Target(w) /\ new = Bytes(d.msg, d.offset, d.offset + n)
    OBVIOUS
  <2>2. PICK to \in Nat : to = d.offset + n /\ d.offset <= to /\ to <= FrameLength
    <3>1. PICK o \in 0 .. FrameLength - 1 : o = d.offset
      BY <1>4
    <3>2. n \in 1 .. FrameLength - o
      BY <1>3, <3>1
    <3>3. o + n \in Nat /\ o <= o + n /\ o + n <= FrameLength
      BY <1>0, <3>2
    <3> QED BY <3>1, <3>3
  <2>3. new \in Seq(Messages \X (1 .. FrameLength))
    <3>1. PICK m, from : m = d.msg /\ from = d.offset
      OBVIOUS
    <3>2. m \in Messages /\ from \in Nat /\ to \in Nat /\ from <= to /\ to <= FrameLength
      BY <1>0, <1>4, <2>2, <3>1
    <3>3. Bytes(m, from, to) \in Seq(Messages \X (1 .. FrameLength))
      BY <3>2, BytesTyped
    <3> QED BY <2>1, <2>2, <3>1, <3>3
  <2>4. Puts(k, new)
    BY <1>3, <1>5, <2>1 DEF Puts
  <2>5. stream' \in Seq(StreamType) /\ Len(stream') = Len(stream)
    BY <1>0, <2>3, <2>4, StreamTyped
  <2>6. DOMAIN stream' = DOMAIN stream
    BY <1>0, <2>5
  <2>7. ASSUME NEW i \in DOMAIN stream PROVE Extends(stream'[i].bytes, stream[i].bytes)
    <3>1. PICK old : old = stream[i].bytes
      OBVIOUS
    <3>2. old \in Seq(Messages \X (1 .. FrameLength))
      BY <3>1, ByteFacts
    <3>3. CASE i # k
      <4>1. stream'[i] = stream[i]
        BY <1>0, <2>3, <2>4, <3>3, StreamTyped
      <4> QED BY <3>1, <3>2, <4>1 DEF Extends
    <3>4. CASE i = k
      <4>1. PICK s : s = old \o new
        OBVIOUS
      <4>2. stream'[i].bytes = s
        BY <1>0, <2>3, <2>4, <3>1, <3>4, <4>1, StreamTyped
      <4>3. /\ Len(s) = Len(old) + Len(new) /\ Len(old) \in Nat
            /\ \A j \in 1 .. Len(old) : s[j] = old[j]
        BY <2>3, <3>2, <4>1, Joined
      <4>4. Len(new) \in Nat
        BY <2>3
      <4> QED BY <3>1, <4>2, <4>3, <4>4 DEF Extends
    <3> QED BY <3>3, <3>4
  <2> QED BY <1>1, <2>6, <2>7 DEF Grows
<1> QED BY <1>0, <1>2, <1>5, SendCases

LEMMA NextGrows ==
  ASSUME ServerInv, [Next]_vars
  PROVE  Grows
<1>1. CASE UNCHANGED <<files, stream, broken>>
  BY <1>1, SameGrows
<1>2. CASE Discovery
  <2>1. ASSUME NEW h \in Hosts, ConnectFails(h) PROVE Grows
    <3>1. clients_[h] \in 1 .. MaxObjects
      BY <2>1, ServerTyped, BasePeerAssumption DEF TypeOK, ConnectFails
    <3>2. PICK c \in Objects : c = Entry(h)
      BY <3>1 DEF Entry, Objects
    <3> QED BY <2>1, <3>2, CloseGrows DEF ConnectFails
  <2>2. ASSUME NEW k \in Connections, Break(k) PROVE Grows
    BY <2>2, SameGrows DEF Break
  <2> QED BY <1>1, <1>2, <2>1, <2>2, ConnectGrows DEF Discovery, Subscribe, Unsubscribe
<1>3. CASE InQueue
  BY <1>1, <1>3 DEF InQueue, queueMsg
<1>4. CASE InPut
  BY <1>1, <1>4 DEF InPut
<1>5. CASE InLock \/ InUnlock \/ InEnds \/ Stop \/ Broadcast \/ Join \/ UNCHANGED vars
  BY <1>1, <1>5 DEF InLock, InUnlock, InEnds, Stop, Broadcast, Join, vars, peerVars
<1>6. ASSUME NEW w \in Workers, Worker(w) PROVE Grows
  <2>1. CASE \/ Lock(w) \/ StartPoll(w) \/ TakeReady(w) \/ Wait(w) \/ EnterPoll(w)
             \/ PollTimesOut(w) \/ PollReturns(w) \/ LockPolled(w) \/ EndPoll(w)
    BY <1>1, <2>1 DEF Lock, StartPoll, TakeReady, Wait, EnterPoll, PollTimesOut, PollReturns,
                      LockPolled, EndPoll, peerVars
  <2>2. CASE Requeue(w) \/ Begin(w)
    BY <1>1, <2>2 DEF Requeue, Begin, ChooseMessage, peerVars
  <2>3. CASE PollEvent(w)
    <3>1. PICK c : c = Head(writeWaiting_)
      OBVIOUS
    <3>2. c \in Objects
      <4>1. writefds_ # <<>> /\ Behind /\ writeWaiting_ \in Seq(Objects)
        BY <2>3 DEF PollEvent, ServerInv, QueueInv, QueueTypes
      <4>2. Len(writeWaiting_) # 0
        BY <4>1 DEF Behind
      <4> QED BY <3>1, <4>1, <4>2, HeadAndTail
    <3>3. CASE PollOut(c) \/ PollNothing(c)
      BY <1>1, <3>3 DEF PollOut, PollNothing, peerVars
    <3>4. CASE PollError(c)
      BY <1>1, <3>2, <3>4, CloseGrows DEF PollError, handleErrors
    <3> QED BY <2>3, <3>1, <3>3, <3>4 DEF PollEvent
  <2>4. CASE Send(w)
    BY <2>4, SendGrows
  <2>5. CASE End(w)
    <3>1. UNCHANGED <<stream, broken>>
      BY <2>5 DEF End, recordWrite
    <3>2. currentClientPtr[w] \in Objects
      BY <2>5, StreamFacts DEF End, Sending
    <3>3. UNCHANGED files \/ clientReset(currentClientPtr[w], TRUE)
      BY <2>5 DEF End, recordWrite
    <3> QED BY <1>1, <3>1, <3>2, <3>3, CloseGrows
  <2> QED BY <1>6, <2>1, <2>2, <2>3, <2>4, <2>5 DEF Worker
<1> QED BY <1>2, <1>3, <1>4, <1>5, <1>6 DEF Next

(***************************************************************************)
(* The reader.  In a stream that is whole, the bytes from one multiple of  *)
(* the length to the next are those of one message.                        *)
(***************************************************************************)
LEMMA Multiples ==
  ASSUME NEW f \in Nat \ {0}, NEW q \in Nat, NEW j \in 1 .. q
  PROVE  j * f \in Nat /\ 1 <= j * f /\ j * f <= q * f /\ q * f \in Nat
<1>1. PICK d \in Nat : q = j + d
  <2>1. q - j \in Nat /\ q = j + (q - j)
    OBVIOUS
  <2> QED BY <2>1
<1>2. PICK i \in Nat : j = i + 1
  <2>1. j - 1 \in Nat /\ j = (j - 1) + 1
    OBVIOUS
  <2> QED BY <2>1
<1>3. d * f \in Nat /\ i * f \in Nat /\ j * f \in Nat
  OBVIOUS
<1>4. q * f = j * f + d * f
  BY <1>1
<1>5. j * f = i * f + f
  BY <1>2
<1> QED BY <1>3, <1>4, <1>5

LEMMA Quotient ==
  ASSUME NEW f \in Nat \ {0}, NEW n \in Nat, NEW q \in Nat, NEW r \in 0 .. f - 1, n = q * f + r
  PROVE  n \div f = q
BY SMTT(60)

IsOf(s, k) == s = stream[k].bytes

LEMMA OneMessage ==
  ASSUME ServerInv, NEW k \in DOMAIN stream, WholeOK(k), NEW s, IsOf(s, k),
         NEW q \in Nat, NEW m \in 1 .. FrameLength, q * FrameLength + m <= Len(s)
  PROVE  \A j \in 1 .. m : s[q * FrameLength + j] = <<s[q * FrameLength + 1][1], j>>
<1>0. FrameLength \in Nat \ {0} /\ s \in Seq(Messages \X (1 .. FrameLength))
  BY BasePeerAssumption, ByteFacts DEF IsOf
<1>1. PICK p \in Nat : p = q * FrameLength
  BY <1>0
<1>2. \A j \in 1 .. m : p + j \in DOMAIN s
  <2>1. p + m <= Len(s)
    BY <1>1
  <2>2. Len(s) \in Nat /\ DOMAIN s = 1 .. Len(s)
    BY <1>0
  <2>3. m \in Nat
    BY <1>0
  <2> QED BY <2>1, <2>2, <2>3
<1>3. ASSUME NEW j \in 1 .. m PROVE s[p + j][2] = j
  <2>1. PICK i \in Nat : i = (p + j) - 1
    OBVIOUS
  <2>2. PICK r \in 0 .. FrameLength - 1 : r = j - 1
    <3>1. j - 1 \in 0 .. FrameLength - 1
      BY <1>0
    <3> QED BY <3>1
  <2>3. i = q * FrameLength + r
    BY <1>1, <2>1, <2>2
  <2>4. i % FrameLength = r
    BY <1>0, <2>3, Remainder
  <2>5. s[p + j][2] = (((p + j) - 1) % FrameLength) + 1
    BY <1>2 DEF WholeOK, IsOf
  <2>6. s[p + j][2] = r + 1
    BY <2>1, <2>4, <2>5
  <2> QED BY <2>2, <2>6
<1>4. \A j \in 1 .. m : s[p + j][1] = s[p + 1][1]
  <2> DEFINE T == {j \in 1 .. m : s[p + j][1] # s[p + 1][1]}
  <2>1. ASSUME T # {} PROVE FALSE
    <3>1. PICK j \in T : \A i \in T : j <= i
      <4>1. T \subseteq Nat
        OBVIOUS
      <4> QED BY <2>1, <4>1, Least
    <3>2. j \in 1 .. m /\ j # 1 /\ s[p + j][1] # s[p + 1][1]
      OBVIOUS
    <3>3. j - 1 \in 1 .. m /\ ~(j <= j - 1)
      BY <3>2
    <3>4. s[p + (j - 1)][1] = s[p + 1][1]
      BY <3>1, <3>3
    <3>5. PICK n : n = p + j
      OBVIOUS
    <3>6. n \in DOMAIN s /\ n > 1 /\ s[n][2] > 1 /\ n - 1 = p + (j - 1)
      <4>1. n \in DOMAIN s /\ s[n][2] = j
        BY <1>2, <1>3, <3>2, <3>5
      <4>2. j \in Nat /\ j > 1
        BY <3>2
      <4>3. n > 1 /\ n - 1 = p + (j - 1)
        BY <3>5, <4>2
      <4> QED BY <4>1, <4>2, <4>3
    <3>7. s[n - 1][1] = s[n][1]
      BY <3>6 DEF WholeOK, IsOf
    <3> QED BY <3>2, <3>4, <3>5, <3>6, <3>7
  <2> QED BY <2>1
<1>5. ASSUME NEW j \in 1 .. m PROVE s[p + j] = <<s[p + 1][1], j>>
  <2>1. s[p + j] = <<s[p + j][1], s[p + j][2]>>
    BY <1>2, ByteFacts DEF IsOf
  <2> QED BY <1>3, <1>4, <2>1
<1> QED BY <1>1, <1>5

(***************************************************************************)
(* What has been made of the bytes that were taken.                        *)
(***************************************************************************)
Made(s, taken, buf, out) ==
  \E q \in Nat, r \in 0 .. FrameLength - 1 :
    /\ taken = q * FrameLength + r /\ taken <= Len(s)
    /\ Len(buf) = r /\ \A i \in 1 .. r : buf[i] = s[q * FrameLength + i]
    /\ Len(out) = q /\ \A j \in 1 .. q : out[j] = s[j * FrameLength][1]

LEMMA MadeOfMore ==
  ASSUME NEW s, NEW t, NEW taken, NEW buf, NEW out, Extends(t, s), Made(s, taken, buf, out)
  PROVE  Made(t, taken, buf, out)
<1>0. FrameLength \in Nat \ {0}
  BY BasePeerAssumption
<1>1. PICK q \in Nat, r \in 0 .. FrameLength - 1 :
        /\ taken = q * FrameLength + r /\ taken <= Len(s)
        /\ Len(buf) = r /\ \A i \in 1 .. r : buf[i] = s[q * FrameLength + i]
        /\ Len(out) = q /\ \A j \in 1 .. q : out[j] = s[j * FrameLength][1]
  BY DEF Made
<1>2. PICK p \in Nat : p = q * FrameLength
  BY <1>0
<1>3. Len(s) \in Nat /\ Len(t) \in Nat /\ Len(s) <= Len(t) /\ p + r <= Len(s)
  BY <1>1, <1>2 DEF Extends
<1>4. taken <= Len(t)
  BY <1>0, <1>1, <1>2, <1>3
<1>5. \A i \in 1 .. r : t[p + i] = s[p + i]
  <2>1. \A i \in 1 .. r : p + i \in 1 .. Len(s)
    BY <1>0, <1>3
  <2> QED BY <2>1 DEF Extends
<1>6. \A j \in 1 .. q : t[j * FrameLength] = s[j * FrameLength]
  <2>1. \A j \in 1 .. q : j * FrameLength \in Nat /\ 1 <= j * FrameLength /\ j * FrameLength <= p
    BY <1>0, <1>2, Multiples
  <2>2. p <= Len(s)
    BY <1>0, <1>3
  <2>3. \A j \in 1 .. q : j * FrameLength \in 1 .. Len(s)
    BY <1>3, <2>1, <2>2
  <2> QED BY <2>3 DEF Extends
<1>7. /\ \A i \in 1 .. r : buf[i] = t[q * FrameLength + i]
      /\ \A j \in 1 .. q : out[j] = t[j * FrameLength][1]
  BY <1>1, <1>2, <1>5, <1>6
<1> QED BY <1>1, <1>4, <1>7 DEF Made

Fits(n, s, taken, had)      == n \in 1 .. Wanted(had) /\ n <= Len(s) - taken
Took(buf, n, s, taken, had) == buf = had \o SubSeq(s, taken + 1, taken + n)

LEMMA Takes ==
  ASSUME ServerInv, NEW k \in DOMAIN stream, WholeOK(k), NEW s, IsOf(s, k),
         NEW taken, NEW had \in Seq(Messages \X (1 .. FrameLength)), NEW out \in Seq(Messages),
         Made(s, taken, had, out), NEW n, Fits(n, s, taken, had),
         NEW buf, Took(buf, n, s, taken, had)
  PROVE  /\ buf \in Seq(Messages \X (1 .. FrameLength))
         /\ Len(buf) = HeaderLength => ValidHeader(buf)
         /\ Len(buf) # FrameLength => Made(s, taken + n, buf, out)
         /\ Len(buf) = FrameLength => /\ buf[1][1] \in Messages
                                     /\ Made(s, taken + n, <<>>, Append(out, buf[1][1]))
<1>0. /\ FrameLength \in Nat \ {0} /\ HeaderLength \in 1 .. FrameLength - 1
      /\ s \in Seq(Messages \X (1 .. FrameLength)) /\ Len(s) \in Nat /\ DOMAIN s = 1 .. Len(s)
  BY BasePeerAssumption, LinkAssumption, ByteFacts DEF IsOf
<1>1. PICK q \in Nat, r \in 0 .. FrameLength - 1 :
        /\ taken = q * FrameLength + r /\ taken <= Len(s)
        /\ Len(had) = r /\ \A i \in 1 .. r : had[i] = s[q * FrameLength + i]
        /\ Len(out) = q /\ \A j \in 1 .. q : out[j] = s[j * FrameLength][1]
  BY DEF Made
<1>2. PICK p \in Nat : p = q * FrameLength
  BY <1>0
<1>3. n \in Nat /\ 1 <= n /\ r + n <= FrameLength /\ r \in Nat
  <2>1. n \in 1 .. HeaderLength - r \/ n \in 1 .. FrameLength - r
    BY <1>1 DEF Wanted, Fits
  <2> QED BY <1>0, <2>1
<1>4. PICK m \in 1 .. FrameLength : m = r + n
  BY <1>0, <1>3
<1>5. taken = p + r /\ taken \in Nat /\ taken + n = p + m /\ p + m <= Len(s)
  <2>1. taken = p + r
    BY <1>1, <1>2
  <2>2. taken \in Nat /\ taken + n = p + m
    BY <1>3, <1>4, <2>1
  <2>3. taken + n <= Len(s)
    BY <1>0, <1>3, <2>2 DEF Fits
  <2> QED BY <2>1, <2>2, <2>3
<1>6. PICK new : new = SubSeq(s, taken + 1, taken + n)
  OBVIOUS
<1>7. /\ new \in Seq(Messages \X (1 .. FrameLength)) /\ Len(new) = n
      /\ \A i \in 1 .. n : new[i] = s[taken + i]
  <2>1. PICK a, b \in Nat : a = taken + 1 /\ b = taken + n
    BY <1>3, <1>5
  <2>2. /\ a \in Int /\ b \in Int /\ a <= b /\ b - a + 1 = n
        /\ \A i \in a .. b : i \in 1 .. Len(s)
        /\ \A i \in 1 .. n : a + i - 1 = taken + i
    BY <1>0, <1>3, <1>5, <2>1
  <2>3. \A i \in a .. b : s[i] \in Messages \X (1 .. FrameLength)
    BY <1>0, <2>2
  <2>4. new = SubSeq(s, a, b)
    BY <1>6, <2>1
  <2>5. /\ new \in Seq(Messages \X (1 .. FrameLength))
        /\ Len(new) = (IF a <= b THEN b - a + 1 ELSE 0)
        /\ \A i \in 1 .. b - a + 1 : new[i] = s[a + i - 1]
    BY <2>2, <2>3, <2>4, SubSeqProperties
  <2> QED BY <2>2, <2>5
<1>8. buf = had \o new
  BY <1>6 DEF Took
<1>9. /\ Len(buf) = Len(had) + Len(new) /\ \A i \in 1 .. Len(had) : buf[i] = had[i]
      /\ \A i \in 1 .. Len(new) : buf[Len(had) + i] = new[i]
  <2>1. new \in Seq(Messages \X (1 .. FrameLength))
    BY <1>7
  <2>2. had \in Seq(Messages \X (1 .. FrameLength))
    OBVIOUS
  <2>3. PICK b : b = buf
    OBVIOUS
  <2>4. b = had \o new
    BY <1>8, <2>3
  <2>5. /\ Len(b) = Len(had) + Len(new) /\ \A i \in 1 .. Len(had) : b[i] = had[i]
        /\ \A i \in 1 .. Len(new) : b[Len(had) + i] = new[i]
    BY <2>1, <2>2, <2>4, Joined
  <2> QED BY <2>3, <2>5
<1>10. buf \in Seq(Messages \X (1 .. FrameLength))
  BY <1>7, <1>8
<1>11. Len(buf) = m /\ \A i \in 1 .. m : buf[i] = s[p + i]
  <2>1. /\ Len(buf) = r + n /\ \A i \in 1 .. r : buf[i] = s[p + i]
        /\ \A i \in 1 .. n : buf[r + i] = s[taken + i]
    <3>1. Len(had) = r /\ Len(new) = n
      BY <1>1, <1>7
    <3>2. Len(buf) = r + n
      BY <1>9, <3>1
    <3>3. \A i \in 1 .. r : buf[i] = had[i]
      BY <1>9, <3>1
    <3>4. \A i \in 1 .. r : had[i] = s[p + i]
      BY <1>1, <1>2
    <3>5. \A i \in 1 .. n : buf[r + i] = new[i]
      BY <1>9, <3>1
    <3>6. \A i \in 1 .. n : new[i] = s[taken + i]
      BY <1>7
    <3> QED BY <3>2, <3>3, <3>4, <3>5, <3>6
  <2>2. ASSUME NEW i \in 1 .. m, ~(i <= r) PROVE buf[i] = s[p + i]
    <3>1. PICK j \in 1 .. n : i = r + j
      <4>1. i - r \in 1 .. n /\ i = r + (i - r)
        BY <1>3, <1>4, <2>2
      <4> QED BY <4>1
    <3>2. taken + j = p + i
      BY <1>3, <1>5, <3>1
    <3> QED BY <2>1, <3>1, <3>2
  <2>3. \A i \in 1 .. m : i <= r => i \in 1 .. r
    BY <1>3
  <2> QED BY <1>4, <2>1, <2>2, <2>3
<1>12. \A j \in 1 .. m : buf[j] = <<buf[1][1], j>>
  <2>1. \A j \in 1 .. m : s[p + j] = <<s[p + 1][1], j>>
    <3>1. q * FrameLength + m <= Len(s)
      BY <1>2, <1>5
    <3>2. \A j \in 1 .. m : s[q * FrameLength + j] = <<s[q * FrameLength + 1][1], j>>
      BY <3>1, OneMessage
    <3> QED BY <1>2, <3>2
  <2>2. 1 \in 1 .. m
    BY <1>4
  <2> QED BY <1>11, <2>1, <2>2
<1>13. Len(buf) = HeaderLength => ValidHeader(buf)
  BY <1>11, <1>12 DEF ValidHeader
<1>14. ASSUME Len(buf) # FrameLength PROVE Made(s, taken + n, buf, out)
  <2>1. m \in 0 .. FrameLength - 1
    BY <1>0, <1>4, <1>11, <1>14
  <2> QED BY <1>1, <1>2, <1>5, <1>11, <2>1 DEF Made
<1>15. ASSUME Len(buf) = FrameLength
       PROVE  buf[1][1] \in Messages /\ Made(s, taken + n, <<>>, Append(out, buf[1][1]))
  <2>1. m = FrameLength /\ 1 \in 1 .. Len(buf)
    BY <1>4, <1>11, <1>15
  <2>2. buf[1][1] \in Messages
    <3>1. buf[1] \in Messages \X (1 .. FrameLength)
      BY <1>10, <2>1
    <3> QED BY <3>1
  <2>3. PICK x \in Messages : x = buf[1][1]
    BY <2>2
  <2>4. Len(Append(out, x)) = q + 1 /\ Append(out, x)[q + 1] = x
        /\ \A j \in 1 .. q : Append(out, x)[j] = out[j]
    BY <1>1
  <2>5. (q + 1) * FrameLength = p + FrameLength
    BY <1>0, <1>2
  <2>6. s[(q + 1) * FrameLength][1] = x
    <3>1. buf[m] = <<x, m>> /\ buf[m] = s[p + m]
      BY <1>4, <1>11, <1>12, <2>3
    <3>2. PICK b : b = s[p + m]
      OBVIOUS
    <3>3. b[1] = x
      BY <3>1, <3>2
    <3>4. (q + 1) * FrameLength = p + m
      BY <2>1, <2>5
    <3> QED BY <3>2, <3>3, <3>4
  <2>7. \A j \in 1 .. q + 1 : Append(out, x)[j] = s[j * FrameLength][1]
    <3>1. \A j \in 1 .. q + 1 : j \in 1 .. q \/ j = q + 1
      OBVIOUS
    <3> QED BY <1>1, <2>4, <2>6, <3>1
  <2>8. taken + n = (q + 1) * FrameLength + 0 /\ taken + n <= Len(s)
    BY <1>0, <1>2, <1>5, <2>1, <2>5
  <2>9. 0 \in 0 .. FrameLength - 1 /\ q + 1 \in Nat /\ Len(<<>>) = 0
    BY <1>0
  <2>10. Made(s, taken + n, <<>>, Append(out, x))
    <3>1. PICK more, now : more = Append(out, x) /\ now = taken + n
      OBVIOUS
    <3>2. Len(more) = q + 1 /\ \A j \in 1 .. q + 1 : more[j] = s[j * FrameLength][1]
      BY <2>4, <2>7, <3>1
    <3>3. now = (q + 1) * FrameLength + 0 /\ now <= Len(s)
      BY <2>8, <3>1
    <3>4. \A i \in 1 .. 0 : <<>>[i] = s[(q + 1) * FrameLength + i]
      OBVIOUS
    <3>5. Made(s, now, <<>>, more)
      BY <2>9, <3>2, <3>3, <3>4 DEF Made
    <3> QED BY <3>1, <3>5
  <2> QED BY <2>3, <2>10
<1> QED BY <1>10, <1>13, <1>14, <1>15

(***************************************************************************)
(* The state of the other end: a connection that has not been made is not  *)
(* read, and one that is reset has been broken or is closed.               *)
(***************************************************************************)
InboundType ==
  [open : {"no", "yes", "reset", "crashed"}, taken : Nat,
   buf : Seq(Messages \X (1 .. FrameLength))]

LinkTypes == /\ inbound \in [Connections -> InboundType]
             /\ relayed \in [Connections -> Seq(Messages)]

Opened(k) ==
  /\ Made(stream[k].bytes, inbound[k].taken, inbound[k].buf, relayed[k])
  /\ inbound[k].open = "reset" => k \in broken \/ \A fd \in Fds : files[fd] # k

NotOpened(k) ==
  /\ inbound[k].open \in {"no", "crashed"} /\ inbound[k].taken = 0
  /\ inbound[k].buf = <<>> /\ relayed[k] = <<>>

LinkInv ==
  /\ LinkTypes
  /\ \A k \in DOMAIN stream : Opened(k)
  /\ \A k \in Connections \ DOMAIN stream : NotOpened(k)

LEMMA InitLink == LinkInit => LinkInv
<1> SUFFICES ASSUME LinkInit PROVE LinkInv
  OBVIOUS
<1>1. DOMAIN stream = {}
  BY DEF LinkInit, Init, PeerInit
<1>2. Untouched \in InboundType
  BY DEF Untouched, InboundType
<1>3. inbound = [k \in Connections |-> Untouched] /\ relayed = [k \in Connections |-> <<>>]
  BY DEF LinkInit
<1>4. Untouched.open = "no" /\ Untouched.taken = 0 /\ Untouched.buf = <<>>
  BY DEF Untouched
<1> QED BY <1>1, <1>2, <1>3, <1>4 DEF LinkInv, LinkTypes, NotOpened

LEMMA NothingMade ==
  ASSUME NEW s, Len(s) \in Nat
  PROVE  Made(s, 0, <<>>, <<>>)
<1>1. FrameLength \in Nat \ {0}
  BY BasePeerAssumption
<1>2. 0 \in 0 .. FrameLength - 1 /\ 0 = 0 * FrameLength + 0 /\ 0 <= Len(s) /\ Len(<<>>) = 0
  BY <1>1
<1> QED BY <1>2 DEF Made

LEMMA ServerStepLink ==
  ASSUME ServerInv, LinkInv, [Next]_vars, UNCHANGED linkVars
  PROVE  LinkInv'
<1>1. Grows /\ UNCHANGED <<inbound, relayed>>
  BY NextGrows DEF linkVars
<1>2. ASSUME NEW k \in DOMAIN stream PROVE Opened(k)'
  <2>1. Opened(k) /\ Extends(stream'[k].bytes, stream[k].bytes)
    BY <1>1 DEF LinkInv, Grows
  <2>2. Made(stream'[k].bytes, inbound'[k].taken, inbound'[k].buf, relayed'[k])
    BY <1>1, <2>1, MadeOfMore DEF Opened
  <2>3. Fds' = Fds
    BY DEF Fds, Objects
  <2>4. inbound'[k].open = "reset" => k \in broken' \/ \A fd \in Fds : files'[fd] # k
    BY <1>1, <2>1 DEF Opened, Grows
  <2> QED BY <2>2, <2>3, <2>4 DEF Opened
<1>3. ASSUME NEW k \in DOMAIN stream', k \notin DOMAIN stream, k \in Connections PROVE Opened(k)'
  <2>1. NotOpened(k) /\ stream'[k].bytes = <<>>
    BY <1>1, <1>3 DEF LinkInv, Grows
  <2>2. Made(<<>>, 0, <<>>, <<>>)
    BY NothingMade
  <2> QED BY <1>1, <2>1, <2>2 DEF NotOpened, Opened
<1>4. \A k \in DOMAIN stream' : k \in Connections
  <2>1. ServerInv'
    BY NextServer
  <2>2. stream' \in Seq(StreamType) /\ Len(stream') <= MaxConnections
    BY <2>1 DEF ServerInv, PeerInv, PeerTypes, StreamType, Messages, Objects
  <2> QED BY <2>2, BasePeerAssumption DEF Connections
<1>5. ASSUME NEW k \in Connections \ DOMAIN stream' PROVE NotOpened(k)'
  <2>1. NotOpened(k)
    BY <1>1 DEF LinkInv, Grows
  <2> QED BY <1>1, <2>1 DEF NotOpened
<1>6. LinkTypes'
  BY <1>1 DEF LinkInv, LinkTypes, InboundType, Messages
<1> QED BY <1>2, <1>3, <1>4, <1>5, <1>6 DEF LinkInv

(***************************************************************************)
(* A step of the reader.  It never meets a header that is not one, and so  *)
(* never resets a connection that is not broken already: the server does   *)
(* not notice it.                                                          *)
(***************************************************************************)
LEMMA Numbered == ServerInv => DOMAIN stream \subseteq Connections
<1> SUFFICES ASSUME ServerInv PROVE DOMAIN stream \subseteq Connections
  OBVIOUS
<1>1. stream \in Seq(StreamType) /\ Len(stream) <= MaxConnections
  BY DEF ServerInv, PeerInv, PeerTypes
<1> QED BY <1>1, BasePeerAssumption DEF Connections

Closes(k) == k \in broken \/ \A fd \in Fds : files[fd] # k

LEMMA OneRead ==
  ASSUME ServerInv, LinkInv, UNCHANGED vars, NEW k \in DOMAIN stream,
         NEW r \in InboundType, NEW q \in Seq(Messages),
         inbound' = [inbound EXCEPT ![k] = r], relayed' = [relayed EXCEPT ![k] = q],
         Made(stream[k].bytes, r.taken, r.buf, q), r.open = "reset" => Closes(k)
  PROVE  LinkInv'
<1>1. UNCHANGED <<stream, files, broken>>
  BY DEF vars, peerVars
<1>2. LinkTypes'
  BY DEF LinkInv, LinkTypes, InboundType, Messages
<1>3. DOMAIN stream \subseteq Connections
  BY Numbered
<1>4. /\ inbound'[k] = r /\ relayed'[k] = q
      /\ \A j \in Connections : j # k => inbound'[j] = inbound[j] /\ relayed'[j] = relayed[j]
  BY <1>3 DEF LinkInv, LinkTypes
<1>5. Opened(k)'
  BY <1>1, <1>4 DEF Opened, Closes, Fds, Objects
<1>6. ASSUME NEW j \in DOMAIN stream', j # k PROVE Opened(j)'
  <2>1. Opened(j) /\ inbound'[j] = inbound[j] /\ relayed'[j] = relayed[j]
    BY <1>1, <1>3, <1>4, <1>6 DEF LinkInv
  <2> QED BY <1>1, <2>1 DEF Opened, Fds, Objects
<1>7. ASSUME NEW j \in Connections \ DOMAIN stream' PROVE NotOpened(j)'
  <2>1. NotOpened(j) /\ inbound'[j] = inbound[j] /\ relayed'[j] = relayed[j]
    BY <1>1, <1>4, <1>7 DEF LinkInv
  <2> QED BY <2>1 DEF NotOpened
<1> QED BY <1>2, <1>5, <1>6, <1>7 DEF LinkInv

LEMMA BytesRead ==
  ASSUME ServerInv, FrameInv, LinkInv, NEW k \in Connections, receiveMsg(k)
  PROVE  UNCHANGED vars /\ LinkInv'
<1>1. k \in DOMAIN stream
  <2>1. inbound[k].open = "yes"
    BY DEF receiveMsg
  <2> QED BY <2>1 DEF LinkInv, NotOpened
<1>2. PICK s, taken, had, out : /\ s = stream[k].bytes /\ taken = inbound[k].taken
                                /\ had = inbound[k].buf /\ out = relayed[k]
  OBVIOUS
<1>3. /\ had \in Seq(Messages \X (1 .. FrameLength)) /\ out \in Seq(Messages) /\ taken \in Nat
      /\ Made(s, taken, had, out) /\ WholeOK(k) /\ IsOf(s, k)
  BY <1>1, <1>2 DEF LinkInv, LinkTypes, InboundType, Opened, FrameInv, IsOf
<1>4. PICK n \in 1 .. Wanted(had) :
        LET buf   == had \o SubSeq(s, taken + 1, taken + n)
            bad   == Len(buf) = HeaderLength /\ ~ValidHeader(buf)
            whole == Len(buf) = FrameLength
        IN  /\ n <= Len(s) - taken
            /\ inbound' = [inbound EXCEPT ![k] =
                 [open |-> IF bad THEN "reset" ELSE "yes", taken |-> taken + n,
                  buf |-> IF whole THEN <<>> ELSE buf]]
            /\ relayed' = [relayed EXCEPT ![k] = IF whole THEN Append(out, buf[1][1]) ELSE out]
            /\ broken' = IF bad THEN broken \union {k} ELSE broken
  BY <1>2 DEF receiveMsg, Arrived
<1>5. PICK buf : buf = had \o SubSeq(s, taken + 1, taken + n)
  OBVIOUS
<1>6. /\ buf \in Seq(Messages \X (1 .. FrameLength))
      /\ Len(buf) = HeaderLength => ValidHeader(buf)
      /\ Len(buf) # FrameLength => Made(s, taken + n, buf, out)
      /\ Len(buf) = FrameLength => /\ buf[1][1] \in Messages
                                  /\ Made(s, taken + n, <<>>, Append(out, buf[1][1]))
  <2>1. Fits(n, s, taken, had) /\ Took(buf, n, s, taken, had)
    BY <1>4, <1>5 DEF Fits, Took
  <2> QED BY <1>1, <1>3, <2>1, Takes
<1>7. UNCHANGED vars
  <2>1. broken' = broken
    BY <1>4, <1>5, <1>6
  <2> QED BY <2>1 DEF receiveMsg, vars, peerVars
<1>8. taken + n \in Nat
  <2>1. Wanted(had) \in Int
    BY <1>3, BasePeerAssumption, LinkAssumption DEF Wanted
  <2> QED BY <1>3, <2>1
<1>9. CASE Len(buf) # FrameLength
  <2>1. PICK r : r = [open |-> "yes", taken |-> taken + n, buf |-> buf]
    OBVIOUS
  <2>2. inbound' = [inbound EXCEPT ![k] = r] /\ relayed' = [relayed EXCEPT ![k] = out]
    BY <1>4, <1>5, <1>6, <1>9, <2>1
  <2>3. r \in InboundType
    BY <1>6, <1>8, <2>1 DEF InboundType
  <2>4. Made(stream[k].bytes, r.taken, r.buf, out) /\ r.open # "reset"
    BY <1>2, <1>6, <1>9, <2>1
  <2> QED BY <1>1, <1>3, <1>7, <2>2, <2>3, <2>4, OneRead
<1>10. CASE Len(buf) = FrameLength
  <2>1. PICK r, x : r = [open |-> "yes", taken |-> taken + n, buf |-> <<>>] /\ x = buf[1][1]
    OBVIOUS
  <2>2. PICK q : q = Append(out, x)
    OBVIOUS
  <2>3. inbound' = [inbound EXCEPT ![k] = r] /\ relayed' = [relayed EXCEPT ![k] = q]
    BY <1>4, <1>5, <1>6, <1>10, <2>1, <2>2
  <2>4. r \in InboundType /\ q \in Seq(Messages)
    BY <1>3, <1>6, <1>8, <1>10, <2>1, <2>2 DEF InboundType
  <2>5. Made(stream[k].bytes, r.taken, r.buf, q) /\ r.open # "reset"
    BY <1>2, <1>6, <1>10, <2>1, <2>2
  <2> QED BY <1>1, <1>7, <2>3, <2>4, <2>5, OneRead
<1> QED BY <1>7, <1>9, <1>10

LEMMA ReaderLink ==
  ASSUME ServerInv, FrameInv, LinkInv, NEW k \in Connections, Reader(k)
  PROVE  UNCHANGED vars /\ LinkInv'
<1>1. PICK in : in = inbound[k] /\ in \in InboundType
  BY DEF LinkInv, LinkTypes
<1>2. relayed[k] \in Seq(Messages) /\ relayed = [relayed EXCEPT ![k] = relayed[k]]
  BY DEF LinkInv, LinkTypes
<1>3. CASE Accept(k)
  <2>1. k \in DOMAIN stream
    BY <1>3, StreamFacts DEF Accept
  <2>2. PICK r : r = [in EXCEPT !.open = "yes"]
    OBVIOUS
  <2>3. r \in InboundType /\ r.open = "yes" /\ r.taken = in.taken /\ r.buf = in.buf
    BY <1>1, <2>2 DEF InboundType
  <2>4. UNCHANGED vars /\ inbound' = [inbound EXCEPT ![k] = r] /\ relayed' = relayed
    BY <1>1, <1>3, <2>2 DEF Accept
  <2>5. Made(stream[k].bytes, r.taken, r.buf, relayed[k])
    BY <1>1, <2>1, <2>3 DEF LinkInv, Opened
  <2> QED BY <1>2, <2>1, <2>3, <2>4, <2>5, OneRead
<1>4. ASSUME inbound[k].open = "yes", inbound' = [inbound EXCEPT ![k].open = "reset"],
             UNCHANGED <<vars, relayed>>, Closes(k)
      PROVE  UNCHANGED vars /\ LinkInv'
  <2>1. k \in DOMAIN stream
    BY <1>4 DEF LinkInv, NotOpened
  <2>2. PICK r : r = [in EXCEPT !.open = "reset"]
    OBVIOUS
  <2>3. r \in InboundType /\ r.taken = in.taken /\ r.buf = in.buf
    BY <1>1, <2>2 DEF InboundType
  <2>4. inbound' = [inbound EXCEPT ![k] = r]
    BY <1>1, <1>4, <2>2
  <2>5. Made(stream[k].bytes, r.taken, r.buf, relayed[k])
    BY <1>1, <2>1, <2>3 DEF LinkInv, Opened
  <2> QED BY <1>2, <1>4, <2>1, <2>3, <2>4, <2>5, OneRead
<1>5. CASE ReadsEnd(k)
  BY <1>4, <1>5 DEF ReadsEnd, Closes
<1>6. CASE ReadsReset(k)
  <2>1. UNCHANGED <<vars, relayed>> /\ inbound[k].open = "yes" /\ Closes(k)
    BY <1>6 DEF ReadsReset, Closes
  <2>2. CASE inbound' = [inbound EXCEPT ![k].open = "reset"]
    BY <1>4, <2>1, <2>2
  <2>3. CASE inbound' = [c \in Connections |-> [inbound[c] EXCEPT !.open = "crashed"]]
    <3>1. UNCHANGED <<stream, files, broken, relayed>>
      BY <2>1 DEF vars, peerVars
    <3>2. \A c \in Connections :
            /\ inbound'[c] \in InboundType /\ inbound'[c].open = "crashed"
            /\ inbound'[c].taken = inbound[c].taken /\ inbound'[c].buf = inbound[c].buf
      BY <2>3 DEF LinkInv, LinkTypes, InboundType
    <3>3. LinkTypes'
      BY <2>3, <3>1, <3>2 DEF LinkInv, LinkTypes, InboundType, Messages
    <3>4. ASSUME NEW c \in DOMAIN stream' PROVE Opened(c)'
      <4>1. c \in Connections /\ Opened(c)
        BY <3>1, Numbered DEF LinkInv
      <4> QED BY <3>1, <3>2, <4>1 DEF Opened
    <3>5. ASSUME NEW c \in Connections \ DOMAIN stream' PROVE NotOpened(c)'
      <4>1. NotOpened(c)
        BY <3>1 DEF LinkInv
      <4> QED BY <3>1, <3>2, <4>1 DEF NotOpened
    <3> QED BY <2>1, <3>3, <3>4, <3>5 DEF LinkInv
  <2> QED BY <1>6, <2>1, <2>2, <2>3 DEF ReadsReset
<1> QED BY <1>3, <1>5, <1>6, BytesRead DEF Reader

(***************************************************************************)
(* What is made of the bytes is what was sent.                             *)
(***************************************************************************)
LEMMA Divided ==
  ASSUME NEW f \in Nat \ {0}, NEW n \in Nat, NEW q \in Nat, q * f <= n
  PROVE  n \div f \in Nat /\ q <= n \div f
BY SMTT(60)

LEMMA LinkShows == ServerInv /\ LinkInv => RelaysWhatWasSent
<1> SUFFICES ASSUME ServerInv, LinkInv, NEW k \in 1 .. Len(stream)
             PROVE  LET n == inbound[k].taken \div FrameLength
                    IN  /\ relayed[k] = SubSeq(SentOn(k), 1, n)
                        /\ inbound[k].buf =
                             SubSeq(stream[k].bytes, n * FrameLength + 1, inbound[k].taken)
                        /\ inbound[k].open = "reset" =>
                             k \in broken \/ \A fd \in Fds : files[fd] # k
  BY DEF RelaysWhatWasSent
<1>0. FrameLength \in Nat \ {0} /\ k \in DOMAIN stream
  BY BasePeerAssumption, StreamFacts
<1>1. PICK s, taken, buf, out : /\ s = stream[k].bytes /\ taken = inbound[k].taken
                                /\ buf = inbound[k].buf /\ out = relayed[k]
  OBVIOUS
<1>2. /\ s \in Seq(Messages \X (1 .. FrameLength)) /\ Made(s, taken, buf, out)
      /\ buf \in Seq(Messages \X (1 .. FrameLength)) /\ out \in Seq(Messages)
      /\ inbound[k].open = "reset" => k \in broken \/ \A fd \in Fds : files[fd] # k
  <2>1. k \in Connections /\ Opened(k)
    BY <1>0, Numbered DEF LinkInv
  <2> QED BY <1>0, <1>1, <2>1, ByteFacts DEF Opened, LinkInv, LinkTypes, InboundType
<1>3. PICK q \in Nat, r \in 0 .. FrameLength - 1 :
        /\ taken = q * FrameLength + r /\ taken <= Len(s)
        /\ Len(buf) = r /\ \A i \in 1 .. r : buf[i] = s[q * FrameLength + i]
        /\ Len(out) = q /\ \A j \in 1 .. q : out[j] = s[j * FrameLength][1]
  BY <1>2 DEF Made
<1>4. PICK p \in Nat : p = q * FrameLength
  BY <1>0
<1>5. taken = p + r /\ taken \in Nat /\ Len(s) \in Nat /\ p <= Len(s) /\ DOMAIN s = 1 .. Len(s)
  <2>1. taken = p + r /\ taken \in Nat
    <3>1. taken = p + r
      BY <1>3, <1>4
    <3>2. r \in Nat
      BY <1>0
    <3> QED BY <3>1, <3>2
  <2>2. Len(s) \in Nat /\ DOMAIN s = 1 .. Len(s)
    BY <1>2
  <2>3. p <= Len(s)
    BY <1>0, <1>3, <2>1, <2>2
  <2> QED BY <2>1, <2>2, <2>3
<1>6. taken \div FrameLength = q
  BY <1>0, <1>3, <1>5, Quotient
<1>7. buf = SubSeq(s, p + 1, taken)
  <2>1. PICK sub : sub = SubSeq(s, p + 1, taken)
    OBVIOUS
  <2>2. PICK a \in Nat : a = p + 1
    OBVIOUS
  <2>3. /\ taken - a + 1 = r /\ (a <= taken <=> r # 0)
        /\ \A i \in a .. taken : i \in 1 .. Len(s)
        /\ \A i \in 1 .. r : a + i - 1 = p + i
    <3>1. taken = p + r /\ r \in Nat /\ p \in Nat /\ a = p + 1
      BY <1>0, <1>5, <2>2
    <3>2. taken <= Len(s) /\ Len(s) \in Nat
      BY <1>3, <1>5
    <3>3. taken - a + 1 = r /\ (a <= taken <=> r # 0)
      BY <3>1
    <3>4. \A i \in a .. taken : i \in 1 .. Len(s)
      BY <3>1, <3>2
    <3>5. \A i \in 1 .. r : a + i - 1 = p + i
      BY <3>1
    <3> QED BY <3>3, <3>4, <3>5
  <2>4. \A i \in a .. taken : s[i] \in Messages \X (1 .. FrameLength)
    BY <1>2, <2>3
  <2>5. sub = SubSeq(s, a, taken)
    BY <2>1, <2>2
  <2>6. /\ sub \in Seq(Messages \X (1 .. FrameLength))
        /\ Len(sub) = (IF a <= taken THEN taken - a + 1 ELSE 0)
        /\ \A i \in 1 .. taken - a + 1 : sub[i] = s[a + i - 1]
    BY <1>5, <2>4, <2>5, SubSeqProperties
  <2>7. Len(sub) = r /\ \A i \in 1 .. r : sub[i] = s[p + i]
    BY <2>3, <2>6
  <2>8. Len(buf) = r /\ \A i \in 1 .. r : buf[i] = s[p + i]
    BY <1>3, <1>4
  <2>9. Len(sub) = Len(buf) /\ \A i \in 1 .. Len(sub) : sub[i] = buf[i]
    BY <2>7, <2>8
  <2>10. sub = buf
    BY <1>2, <2>6, <2>9, SeqEqual
  <2> QED BY <2>1, <2>10
<1>8. out = SubSeq(SentOn(k), 1, q)
  <2>1. PICK m \in Nat : m = Len(s) \div FrameLength /\ q <= m
    BY <1>0, <1>4, <1>5, Divided
  <2>2. PICK sent : sent = SentOn(k)
    OBVIOUS
  <2>3. sent = [j \in 1 .. m |-> s[j * FrameLength][1]]
    BY <1>1, <2>1, <2>2 DEF SentOn
  <2>4. \A j \in 1 .. q : j \in 1 .. m
    BY <2>1
  <2>5. \A j \in 1 .. q : sent[j] = out[j] /\ sent[j] \in Messages
    <3>1. \A j \in 1 .. q : sent[j] = s[j * FrameLength][1]
      BY <2>3, <2>4
    <3>2. \A j \in 1 .. q : out[j] = s[j * FrameLength][1]
      BY <1>3
    <3>3. \A j \in 1 .. q : out[j] \in Messages
      <4>1. Len(out) = q /\ out \in Seq(Messages)
        BY <1>2, <1>3
      <4> QED BY <4>1
    <3>4. \A j \in 1 .. q : sent[j] = out[j]
      BY <3>1, <3>2
    <3> QED BY <3>3, <3>4
  <2>6. PICK sub : sub = SubSeq(sent, 1, q)
    OBVIOUS
  <2>7. /\ sub \in Seq(Messages)
        /\ Len(sub) = (IF 1 <= q THEN q - 1 + 1 ELSE 0)
        /\ \A i \in 1 .. q - 1 + 1 : sub[i] = sent[1 + i - 1]
    BY <2>5, <2>6, SubSeqProperties
  <2>8. Len(sub) = q /\ \A i \in 1 .. q : sub[i] = out[i]
    <3>1. q - 1 + 1 = q /\ \A i \in 1 .. q : 1 + i - 1 = i
      OBVIOUS
    <3> QED BY <2>5, <2>7, <3>1
  <2>9. Len(sub) = Len(out) /\ \A i \in 1 .. Len(sub) : sub[i] = out[i]
    BY <1>3, <2>8
  <2>10. sub = out
    BY <1>2, <2>7, <2>9, SeqEqual
  <2> QED BY <2>2, <2>6, <2>10
<1> QED BY <1>1, <1>2, <1>4, <1>6, <1>7, <1>8

LEMMA LinkStep ==
  ASSUME ServerInv, FrameInv, LinkInv, [LinkNext]_allVars
  PROVE  [Next]_vars /\ LinkInv'
<1>1. CASE UNCHANGED allVars
  BY <1>1, ServerStepLink DEF allVars
<1>2. CASE Next /\ UNCHANGED linkVars
  BY <1>2, ServerStepLink
<1>3. ASSUME NEW k \in Connections, Reader(k) PROVE [Next]_vars /\ LinkInv'
  BY <1>3, ReaderLink
<1> QED BY <1>1, <1>2, <1>3 DEF LinkNext

WholeInv == ServerInv /\ StreamInv /\ FrameInv /\ (~Reconnects => StayInv)

LEMMA WholeStep ==
  ASSUME ~staleThresholdValid, ~Reconnects \/ MaxConnections <= 1
  PROVE  /\ Init => WholeInv
         /\ WholeInv /\ [Next]_vars => WholeInv'
<1>1. Init => WholeInv
  BY InitServer, InitStream, InitFrame, InitStay DEF WholeInv
<1>2. ASSUME WholeInv, [Next]_vars PROVE WholeInv'
  <2>1. NotReused
    BY <1>2, StayedNotReused, OneConnectionNotReused DEF WholeInv
  <2> QED BY <1>2, <2>1, NextServer, NextStream, NextFrame, NextStay DEF WholeInv
<1> QED BY <1>1, <1>2

\* The host at the other end never meets a header that is not one, and so never resets a
\* connection on its own account (TcpPeer.cc:241-245): to the server it makes no difference.
THEOREM ReaderUnnoticed ==
  ASSUME ~staleThresholdValid, ~Reconnects \/ MaxConnections <= 1
  PROVE  LinkSpec => Spec
<1>1. LinkInit => Init /\ WholeInv /\ LinkInv
  BY WholeStep, InitLink DEF LinkInit
<1>2. WholeInv /\ LinkInv /\ [LinkNext]_allVars => [Next]_vars /\ WholeInv' /\ LinkInv'
  BY WholeStep, LinkStep DEF WholeInv
<1> QED BY <1>1, <1>2, PTL DEF LinkSpec, Spec

\* What the other host makes of a connection is the messages that were sent on it, whole, in
\* order and each once, however the bytes were split by send() and by recv(), by several
\* workers in turn (BasePeer.cc:338-420, TcpPeer.cc:217-289): when nothing is pruned while a
\* frame is being sent, and no host connects twice or there is one connection.
THEOREM RelaysWhatWasSentAlways ==
  ASSUME ~staleThresholdValid, ~Reconnects \/ MaxConnections <= 1
  PROVE  LinkSpec => []RelaysWhatWasSent
<1>1. LinkInit => WholeInv /\ LinkInv
  BY WholeStep, InitLink DEF LinkInit
<1>2. WholeInv /\ LinkInv /\ [LinkNext]_allVars => WholeInv' /\ LinkInv'
  BY WholeStep, LinkStep DEF WholeInv
<1>3. WholeInv /\ LinkInv => RelaysWhatWasSent
  BY LinkShows DEF WholeInv
<1> QED BY <1>1, <1>2, <1>3, PTL DEF LinkSpec
=============================================================================
