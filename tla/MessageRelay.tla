---------------------------- MODULE MessageRelay ----------------------------
(***************************************************************************)
(* What a peer of the SimpleComms server promises its clients: the         *)
(* messages accepted for a client are delivered to it once and in order,   *)
(* until the connection is closed and what is left is dropped.  A lossy    *)
(* relay may discard some on the way.  A message is the number it is       *)
(* accepted with; it is delivered at a place, the connection and where on  *)
(* it, so that one delivered twice is seen.                                *)
(***************************************************************************)
EXTENDS Naturals

CONSTANTS Clients, Lossy

VARIABLES
  accepted,   \* how many messages have been accepted
  outbound,   \* per client, the messages to be delivered
  delivered   \* per client, those delivered, each at its place

relayVars == <<accepted, outbound, delivered>>

Init ==
  /\ accepted = 0
  /\ outbound = [c \in Clients |-> {}]
  /\ delivered = [c \in Clients |-> {}]

\* What may be left of some messages.
Kept(S) == IF Lossy THEN SUBSET S ELSE {S}

\* The next message, for some of the clients.
Accept ==
  /\ accepted' = accepted + 1
  /\ \E S \in SUBSET Clients :
       /\ DOMAIN outbound' = Clients
       /\ \A c \in S : outbound'[c] \in Kept(outbound[c] \union {accepted'})
       /\ \A c \in Clients \ S : outbound'[c] = outbound[c]
  /\ UNCHANGED delivered

Earlier(p, q) == p[1] < q[1] \/ (p[1] = q[1] /\ p[2] < q[2])

\* The oldest of those due is delivered, behind all that have been.
Deliver(c) ==
  /\ \E m \in outbound[c] :
       /\ \A n \in outbound[c] : m <= n
       /\ outbound' = [outbound EXCEPT ![c] = @ \ {m}]
       /\ \E d \in delivered'[c] :
            /\ d.msg = m /\ \A e \in delivered[c] : Earlier(e.at, d.at)
            /\ delivered' = [delivered EXCEPT ![c] = @ \union {d}]
  /\ UNCHANGED accepted

Discard(c) ==
  /\ \E S \in Kept(outbound[c]) : outbound' = [outbound EXCEPT ![c] = S]
  /\ UNCHANGED <<accepted, delivered>>

\* The connection is closed.
Drop(c) ==
  /\ outbound' = [outbound EXCEPT ![c] = {}]
  /\ UNCHANGED <<accepted, delivered>>

Next == Accept \/ \E c \in Clients : Deliver(c) \/ Discard(c) \/ Drop(c)

Spec == Init /\ [][Next]_relayVars
=============================================================================
