---------------------------- MODULE UdpDiscovery ----------------------------
(***************************************************************************)
(* The discovery agent of a SimpleComms server (UdpDiscovery.cc).  Every   *)
(* other host broadcasts, again and again, the channels its clients        *)
(* subscribe to and an offer to be connected to, marked with the time it   *)
(* started.  The agent merges the lists into channelSubscribers_ and has   *)
(* the remote peer (BasePeer.cc) connect and subscribe the host; the       *)
(* output workers reset that connection whenever it fails.                 *)
(*                                                                         *)
(* Only the discovery thread touches channelSubscribers_, so a pass of its *)
(* merge loop is a step, and so is every call of the remote peer, which    *)
(* runs under clientsMutex_.  A channel is a number, for the order of its  *)
(* name.  Of the broadcasts only those are kept that are late: the host    *)
(* has changed since.  They are lost and overtake each other.  Left out    *)
(* are the limit of a list (999 channels), the lists of several local      *)
(* peers, which follow each other unsorted, and what a client erased under *)
(* another's name (BasePeer.cc:714) leaves subscribed.                     *)
(* A definition X_Word is X with a plausible mistake, for mutation.        *)
(***************************************************************************)
EXTENDS Naturals, FiniteSets

CONSTANTS
  Hosts,        \* the other hosts
  Channels,
  MaxChanges,   \* bound: the changes of the hosts' lists, and their restarts
  MaxResets,    \* bound: the connections that fail
  MaxNet        \* bound: the broadcasts that are late

ASSUME UdpDiscoveryAssumption ==
  /\ IsFiniteSet(Hosts) /\ Channels \subseteq Nat /\ IsFiniteSet(Channels)
  /\ MaxChanges \in Nat /\ MaxResets \in Nat /\ MaxNet \in Nat

VARIABLES
  instanceEpoch_,   \* of every host: when it started
  local,            \* of every host: the channels_ of its local peer
  net,              \* the broadcasts that are late
  keys,             \* the channels that have an entry in channelSubscribers_
  channelSubscribers_,
  connectionOffers_,    \* per host the epoch of its last offer, or 0
  clients_,         \* the remote peer: per host the epoch it is connected to, or 0
  subscribed,       \* the remote peer: per host the channels it is subscribed to
  agent,            \* where the discovery thread is, and what it handles
  changes, resets   \* what the bounds count

hostVars  == <<instanceEpoch_, local, changes>>
peerVars  == <<clients_, subscribed>>
vars == <<hostVars, net, keys, channelSubscribers_, connectionOffers_, peerVars, agent,
          resets>>

Epochs == Nat \ {0}
IsLast(c, S) == \A d \in S : d <= c
Before(c, S) == \A d \in S : c < d

\* What sendSubscriptions and sendRegisteredRemotePeeringMethods broadcast every
\* second.
List(h)  == [type |-> "SubscriptionList", origin |-> h, channels |-> local[h], epoch |-> 0]
Offer(h) == [type |-> "Connect", origin |-> h, channels |-> {}, epoch |-> instanceEpoch_[h]]

\* The agent at work on a broadcast: its list, what is left of that and of the map,
\* and the calls of the peer to make.
Task(pc, h, list, rest, sub) ==
  [pc |-> pc, origin |-> h, list |-> list, todo |-> list, rest |-> rest,
   subscribes |-> sub, unsubscribes |-> {}]
Nobody == "nobody"
Idle   == Task("idle", Nobody, {}, {}, {})

Init ==
  /\ instanceEpoch_ = [h \in Hosts |-> 1] /\ local = [h \in Hosts |-> {}] /\ net = {}
  /\ keys = {} /\ channelSubscribers_ = [c \in Channels |-> {}]
  /\ connectionOffers_ = [h \in Hosts |-> 0]
  /\ clients_ = [h \in Hosts |-> 0] /\ subscribed = [h \in Hosts |-> {}]
  /\ agent = Idle /\ changes = 0 /\ resets = 0

-----------------------------------------------------------------------------
(* The other hosts, the net, and the workers of this server.               *)

\* Some of what is under way when a host changes comes late, the rest is lost.
Late(B) == \E S \in SUBSET (net \union B) : Cardinality(S) <= MaxNet /\ net' = S

\* A client of the host subscribes to a new channel, or one is reset with which a
\* channel goes.
Change(h, c) ==
  /\ changes < MaxChanges /\ changes' = changes + 1
  /\ local' = [local EXCEPT ![h] = IF c \in @ THEN @ \ {c} ELSE @ \union {c}]
  /\ Late({List(h)})
  /\ UNCHANGED <<instanceEpoch_, keys, channelSubscribers_, connectionOffers_, peerVars, agent,
                 resets>>

\* The server of the host starts again, without clients.
Restart(h) ==
  /\ changes < MaxChanges /\ changes' = changes + 1
  /\ instanceEpoch_' = [instanceEpoch_ EXCEPT ![h] = @ + 1]
  /\ local' = [local EXCEPT ![h] = {}]
  /\ Late({List(h), Offer(h)})
  /\ UNCHANGED <<keys, channelSubscribers_, connectionOffers_, peerVars, agent, resets>>

Dropped(h) ==
  /\ clients_' = [clients_ EXCEPT ![h] = 0]
  /\ subscribed' = [subscribed EXCEPT ![h] = {}]

\* clientReset by a worker whose write or poll failed.
WorkerResets(h) ==
  /\ clients_[h] # 0 /\ resets < MaxResets /\ resets' = resets + 1
  /\ Dropped(h)
  /\ UNCHANGED <<hostVars, net, keys, channelSubscribers_, connectionOffers_, agent>>

-----------------------------------------------------------------------------
(* handleControlMsg: a list of subscriptions.                              *)

ReceiveList(b) ==
  /\ agent.pc = "idle" /\ b.type = "SubscriptionList"
  /\ net' = net \ {b}
  /\ agent' = Task("merge", b.origin, b.channels, keys, {})
  /\ UNCHANGED <<hostVars, keys, channelSubscribers_, connectionOffers_, peerVars, resets>>

\* The channel is at the head of what is left of the list, of the map.
InList(c) == c \in agent.todo /\ Before(c, agent.todo \ {c})
InMap(c)  == c \in agent.rest /\ Before(c, agent.rest \ {c})

\* The channel at the head of the map is before the one at the head of the list, or
\* the list has ended: the host is not, or no longer, interested in it.
NotInterested(c) ==
  LET h == agent.origin
  IN  /\ InMap(c) /\ Before(c, agent.todo)
      /\ channelSubscribers_' = [channelSubscribers_ EXCEPT ![c] = @ \ {h}]
      /\ agent' = [agent EXCEPT !.rest = @ \ {c}, !.unsubscribes =
                     IF h \in channelSubscribers_[c] THEN @ \union {c} ELSE @]
      /\ UNCHANGED keys

\* It is the same channel.
Interested(c) ==
  LET h == agent.origin
  IN  /\ InMap(c) /\ InList(c)
      /\ channelSubscribers_' = [channelSubscribers_ EXCEPT ![c] = @ \union {h}]
      /\ agent' = [agent EXCEPT !.rest = @ \ {c}, !.todo = @ \ {c}, !.subscribes =
                     IF h \notin channelSubscribers_[c] THEN @ \union {c} ELSE @]
      /\ UNCHANGED keys

\* A channel of the list that is behind the head of the map is taken for a new one.
InsertsBefore_Any(c) == TRUE

InsertsBefore(c) == Before(c, agent.rest)

\* The channel at the head of the list is before the one at the head of the map, or
\* the map has ended: it is new.  insert leaves an entry that exists as it is.
NewlyInterested(c) ==
  /\ InList(c) /\ InsertsBefore(c)
  /\ keys' = keys \union {c}
  /\ channelSubscribers_' = [channelSubscribers_ EXCEPT
       ![c] = IF c \in keys THEN @ ELSE {agent.origin}]
  /\ agent' = [agent EXCEPT !.todo = @ \ {c}, !.subscribes = @ \union {c}]

Merge ==
  /\ agent.pc = "merge"
  /\ \/ \E c \in Channels : NotInterested(c) \/ Interested(c) \/ NewlyInterested(c)
     \/ /\ agent.todo = {} /\ agent.rest = {}
        /\ agent' = [agent EXCEPT !.pc = "update"]
        /\ UNCHANGED <<keys, channelSubscribers_>>
  /\ UNCHANGED <<hostVars, net, connectionOffers_, peerVars, resets>>

\* An entry with one subscriber goes too.
Kept_Shared(c) == Cardinality(channelSubscribers_[c]) > 1 \/ IsLast(c, keys)

Kept(c) == channelSubscribers_[c] # {} \/ IsLast(c, keys)

\* The entries of channels nobody subscribes to go, but the last entry stays: the
\* loop looks at an entry when it has come to the next.
Cleanup ==
  /\ agent.pc = "update" /\ agent.subscribes = {} /\ agent.unsubscribes = {}
  /\ keys' = {c \in keys : Kept(c)}
  /\ agent' = Idle
  /\ UNCHANGED <<hostVars, net, channelSubscribers_, connectionOffers_, peerVars, resets>>

-----------------------------------------------------------------------------
(* handleControlMsg: an offer to be connected to.                          *)

\* Only an unknown host makes a new offer.
NewOffer_IfUnknown(b) == connectionOffers_[b.origin] = 0

NewOffer(b) == connectionOffers_[b.origin] # b.epoch

\* A connection that has failed is not made again.
ToConnect_OnlyNew(b) == NewOffer(b)

ToConnect(b) == NewOffer(b) \/ clients_[b.origin] = 0

ReceiveOffer(b) ==
  /\ agent.pc = "idle" /\ b.type = "Connect"
  /\ net' = net \ {b}
  /\ connectionOffers_' = [connectionOffers_ EXCEPT ![b.origin] = b.epoch]
  /\ \/ ToConnect(b) /\ agent' = Task("connect", b.origin, {}, {}, {})
     \/ ~ToConnect(b) /\ UNCHANGED agent
  /\ UNCHANGED <<hostVars, keys, channelSubscribers_, peerVars, resets>>

\* Nothing is asked for: the host's next list will.
ToSubscribe_Nothing(h) == {}

ToSubscribe(h) == {c \in keys : h \in channelSubscribers_[c]}

\* The remote peer connects, instead of an earlier connection, and all the channels
\* the host is known to subscribe to are asked for.
ConnectSucceeds ==
  LET h == agent.origin
  IN  /\ agent.pc = "connect"
      /\ clients_' = [clients_ EXCEPT ![h] = connectionOffers_[h]]
      /\ subscribed' = [subscribed EXCEPT ![h] = {}]
      /\ agent' = Task("subscribe", h, {}, {}, ToSubscribe(h))
      /\ UNCHANGED <<hostVars, net, keys, channelSubscribers_, connectionOffers_, resets>>

ConnectFails ==
  /\ agent.pc = "connect" /\ resets < MaxResets /\ resets' = resets + 1
  /\ Dropped(agent.origin)
  /\ agent' = Idle
  /\ UNCHANGED <<hostVars, net, keys, channelSubscribers_, connectionOffers_>>

Subscribed ==
  /\ agent.pc = "subscribe" /\ agent.subscribes = {}
  /\ agent' = Idle
  /\ UNCHANGED <<hostVars, net, keys, channelSubscribers_, connectionOffers_, peerVars, resets>>

-----------------------------------------------------------------------------
(* updateSubscriptions: one call of the remote peer for every channel.  It *)
(* ignores a host it is not connected to.                                  *)

Subscribe(c) ==
  LET h == agent.origin
  IN  /\ agent.pc \in {"update", "subscribe"} /\ c \in agent.subscribes
      /\ subscribed' = [subscribed EXCEPT ![h] = IF clients_[h] # 0 THEN @ \union {c} ELSE @]
      /\ agent' = [agent EXCEPT !.subscribes = @ \ {c}]
      /\ UNCHANGED <<hostVars, net, keys, channelSubscribers_, connectionOffers_, clients_, resets>>

Unsubscribe(c) ==
  LET h == agent.origin
  IN  /\ agent.pc = "update" /\ agent.subscribes = {} /\ c \in agent.unsubscribes
      /\ subscribed' = [subscribed EXCEPT ![h] = @ \ {c}]
      /\ agent' = [agent EXCEPT !.unsubscribes = @ \ {c}]
      /\ UNCHANGED <<hostVars, net, keys, channelSubscribers_, connectionOffers_, clients_, resets>>

-----------------------------------------------------------------------------
Works ==
  \/ Merge \/ Cleanup \/ ConnectSucceeds \/ ConnectFails \/ Subscribed
  \/ \E c \in Channels : Subscribe(c) \/ Unsubscribe(c)

Environment ==
  \E h \in Hosts : (\E c \in Channels : Change(h, c)) \/ Restart(h) \/ WorkerResets(h)

Receives ==
  \/ \E h \in Hosts : ReceiveList(List(h)) \/ ReceiveOffer(Offer(h))
  \/ \E b \in net : ReceiveList(b) \/ ReceiveOffer(b)

Next == Works \/ Receives \/ Environment

Spec == Init /\ [][Next]_vars

\* A host broadcasts every second and not all of that is lost; the agent goes on
\* with what it has begun.
FairSpec ==
  /\ Spec /\ WF_vars(Works)
  /\ \A h \in Hosts : SF_vars(ReceiveList(List(h))) /\ SF_vars(ReceiveOffer(Offer(h)))

-----------------------------------------------------------------------------
(* What the agent promises.                                                *)

\* The types of the state; a channel that has no entry has no subscribers.
TypeOK ==
  /\ instanceEpoch_ \in [Hosts -> Epochs] /\ local \in [Hosts -> SUBSET Channels]
  /\ net \subseteq
       [type : {"SubscriptionList", "Connect"}, origin : Hosts,
        channels : SUBSET Channels, epoch : Epochs \union {0}]
  /\ keys \subseteq Channels /\ channelSubscribers_ \in [Channels -> SUBSET Hosts]
  /\ \A c \in Channels \ keys : channelSubscribers_[c] = {}
  /\ connectionOffers_ \in [Hosts -> Epochs \union {0}]
  /\ clients_ \in [Hosts -> Epochs \union {0}] /\ subscribed \in [Hosts -> SUBSET Channels]
  /\ agent \in [pc : {"idle", "merge", "update", "connect", "subscribe"},
                origin : Hosts \union {Nobody}, list : SUBSET Channels,
                todo : SUBSET Channels, rest : SUBSET Channels,
                subscribes : SUBSET Channels, unsubscribes : SUBSET Channels]
  /\ changes \in 0 .. MaxChanges /\ resets \in 0 .. MaxResets

Members(h) == {c \in keys : h \in channelSubscribers_[c]}

\* Whatever fails while the agent is at work: between two broadcasts a host that is
\* connected is subscribed to just the channels of its list, although they reach the
\* remote peer as the difference of two lists, and the peer ignores what comes
\* before the connection (UdpDiscovery.cc:513-519, 570-588).
SubscriptionsAgree ==
  \A h \in Hosts :
    clients_[h] # 0 /\ (agent.origin # h \/ agent.pc = "idle") =>
      subscribed[h] = Members(h)

\* A host that has started again is connected to again with its first offer, though
\* the connection to its predecessor has not failed yet: the connection is always
\* the one last offered (UdpDiscovery.cc:544-571).
RestartIsNoticed ==
  \A h \in Hosts :
    clients_[h] # 0 /\ (agent.origin # h \/ agent.pc # "connect") =>
      clients_[h] = connectionOffers_[h]

\* The merge of the two sorted sequences leaves the host with the channels of its
\* list, whatever entries the map had for it and for others (UdpDiscovery.cc:449-511).
MergeIsExact == agent.pc = "update" => Members(agent.origin) = agent.list

\* Once the hosts stay as they are and connections hold, every host is connected
\* to and subscribed to its channels, whatever was lost, late or failed before.
Converges ==
  <>[](\A h \in Hosts : clients_[h] = instanceEpoch_[h] /\ subscribed[h] = local[h])

=============================================================================
