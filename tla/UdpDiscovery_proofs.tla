------------------------- MODULE UdpDiscovery_proofs -------------------------
(***************************************************************************)
(* Proofs about the discovery agent: for every set of hosts and channels,  *)
(* whatever is late, lost or fails.                                        *)
(***************************************************************************)
EXTENDS UdpDiscovery, TLAPS

AgentType ==
  [pc : {"idle", "merge", "update", "connect", "subscribe"},
   origin : Hosts \union {Nobody}, list : SUBSET Channels, todo : SUBSET Channels,
   rest : SUBSET Channels, subscribes : SUBSET Channels, unsubscribes : SUBSET Channels]

BroadcastType ==
  [type : {"SubscriptionList", "Connect"}, origin : Hosts, channels : SUBSET Channels,
   epoch : Epochs \union {0}]

\* Every broadcast that may be received has the type of one.
LEMMA BroadcastsTyped ==
  ASSUME TypeOK, NEW h \in Hosts
  PROVE  List(h) \in BroadcastType /\ Offer(h) \in BroadcastType /\ net \subseteq BroadcastType
BY DEF TypeOK, List, Offer, BroadcastType

LEMMA TaskTyped ==
  ASSUME NEW pc \in {"idle", "merge", "update", "connect", "subscribe"},
         NEW h \in Hosts \union {Nobody}, NEW list \in SUBSET Channels,
         NEW rest \in SUBSET Channels, NEW sub \in SUBSET Channels
  PROVE  Task(pc, h, list, rest, sub) \in AgentType
BY DEF Task, AgentType

LEMMA TypeInit == Init => TypeOK
<1> SUFFICES ASSUME Init PROVE TypeOK
  OBVIOUS
<1>1. agent \in AgentType
  BY TaskTyped DEF Init, Idle
<1>2. changes \in 0 .. MaxChanges /\ resets \in 0 .. MaxResets
  BY UdpDiscoveryAssumption DEF Init
<1> QED BY <1>1, <1>2 DEF Init, TypeOK, AgentType, Epochs

\* What the hosts, the net and the workers do keeps the types.
LEMMA TypeEnvironment == TypeOK /\ Environment => TypeOK'
<1> SUFFICES ASSUME TypeOK, NEW h \in Hosts,
                    (\E c \in Channels : Change(h, c)) \/ Restart(h) \/ WorkerResets(h)
             PROVE  TypeOK'
  BY DEF Environment
<1>1. ASSUME NEW B, B \subseteq BroadcastType, Late(B) PROVE net' \subseteq BroadcastType
  BY <1>1, BroadcastsTyped DEF Late
<1>2. ASSUME NEW c \in Channels, Change(h, c) PROVE TypeOK'
  <2>1. net' \subseteq BroadcastType
    BY <1>1, <1>2, BroadcastsTyped DEF Change
  <2>2. changes' \in 0 .. MaxChanges
    BY <1>2, UdpDiscoveryAssumption DEF Change, TypeOK
  <2>3. local' \in [Hosts -> SUBSET Channels]
    BY <1>2 DEF Change, TypeOK
  <2> QED BY <1>2, <2>1, <2>2, <2>3 DEF Change, TypeOK, BroadcastType, peerVars
<1>3. CASE Restart(h)
  <2>1. net' \subseteq BroadcastType
    BY <1>1, <1>3, BroadcastsTyped DEF Restart
  <2>2. changes' \in 0 .. MaxChanges
    BY <1>3, UdpDiscoveryAssumption DEF Restart, TypeOK
  <2>3. instanceEpoch_' \in [Hosts -> Epochs] /\ local' \in [Hosts -> SUBSET Channels]
    BY <1>3 DEF Restart, TypeOK, Epochs
  <2> QED BY <1>3, <2>1, <2>2, <2>3 DEF Restart, TypeOK, BroadcastType, peerVars
<1>4. CASE WorkerResets(h)
  <2>1. resets' \in 0 .. MaxResets
    BY <1>4, UdpDiscoveryAssumption DEF WorkerResets, TypeOK
  <2>2. clients_' \in [Hosts -> Epochs \union {0}] /\ subscribed' \in [Hosts -> SUBSET Channels]
    BY <1>4 DEF WorkerResets, Dropped, TypeOK
  <2> QED BY <1>4, <2>1, <2>2 DEF WorkerResets, TypeOK, hostVars
<1> QED BY <1>2, <1>3, <1>4

\* So does the receipt of a broadcast.
LEMMA TypeReceives == TypeOK /\ Receives => TypeOK'
<1> SUFFICES ASSUME TypeOK, NEW b \in BroadcastType, ReceiveList(b) \/ ReceiveOffer(b)
             PROVE  TypeOK'
  BY BroadcastsTyped DEF Receives, TypeOK, BroadcastType
<1>0. b.origin \in Hosts /\ b.channels \subseteq Channels /\ b.epoch \in Epochs \union {0}
  BY DEF BroadcastType
<1>1. CASE ReceiveList(b)
  <2>1. agent' \in AgentType
    BY <1>0, <1>1, TaskTyped DEF ReceiveList, TypeOK
  <2> QED BY <1>1, <2>1 DEF ReceiveList, TypeOK, AgentType, hostVars, peerVars
<1>2. CASE ReceiveOffer(b)
  <2>1. agent' \in AgentType
    <3>1. Task("connect", b.origin, {}, {}, {}) \in AgentType
      BY <1>0, TaskTyped
    <3> QED BY <1>2, <3>1 DEF ReceiveOffer, TypeOK, AgentType
  <2>2. connectionOffers_' \in [Hosts -> Epochs \union {0}]
    BY <1>0, <1>2 DEF ReceiveOffer, TypeOK
  <2> QED BY <1>2, <2>1, <2>2 DEF ReceiveOffer, TypeOK, AgentType, hostVars, peerVars
<1> QED BY <1>1, <1>2

\* And so does what the agent goes on with.
LEMMA TypeMerge ==
  ASSUME TypeOK, agent.origin \in Hosts, agent.rest \subseteq keys, Merge
  PROVE  TypeOK'
<1> DEFINE Good == /\ agent' \in AgentType /\ keys' \subseteq Channels
                   /\ channelSubscribers_' \in [Channels -> SUBSET Hosts]
                   /\ \A c \in Channels \ keys' : channelSubscribers_'[c] = {}
<1>1. ASSUME NEW c \in Channels, NotInterested(c) PROVE Good
  BY <1>1 DEF NotInterested, TypeOK, AgentType, InMap
<1>2. ASSUME NEW c \in Channels, Interested(c) PROVE Good
  <2>1. agent' \in AgentType /\ c \in keys
    BY <1>2 DEF Interested, TypeOK, AgentType, InMap
  <2>2. keys' = keys /\ channelSubscribers_' \in [Channels -> SUBSET Hosts]
    BY <1>2 DEF Interested, TypeOK
  <2>3. \A d \in Channels \ keys' : channelSubscribers_'[d] = {}
    BY <1>2, <2>1, <2>2 DEF Interested, TypeOK
  <2> QED BY <2>1, <2>2, <2>3 DEF TypeOK
<1>3. ASSUME NEW c \in Channels, NewlyInterested(c) PROVE Good
  <2>1. agent' \in AgentType
    BY <1>3 DEF NewlyInterested, TypeOK, AgentType
  <2>2. keys' = keys \union {c} /\ channelSubscribers_' \in [Channels -> SUBSET Hosts]
    BY <1>3 DEF NewlyInterested, TypeOK
  <2>3. \A d \in Channels \ keys' : channelSubscribers_'[d] = {}
    BY <1>3, <2>2 DEF NewlyInterested, TypeOK
  <2>4. keys' \subseteq Channels
    BY <2>2 DEF TypeOK
  <2> QED BY <2>1, <2>2, <2>3, <2>4
<1>4. ASSUME agent' = [agent EXCEPT !.pc = "update"], UNCHANGED <<keys, channelSubscribers_>>
      PROVE Good
  BY <1>4 DEF TypeOK, AgentType
<1>5. Good
  BY <1>1, <1>2, <1>3, <1>4 DEF Merge
<1> QED BY <1>5 DEF Merge, TypeOK, AgentType, hostVars, peerVars


LEMMA TypeWorks ==
  ASSUME TypeOK, agent.pc # "idle" => agent.origin \in Hosts,
         agent.pc = "merge" => agent.rest \subseteq keys, Works
  PROVE  TypeOK'
<1>1. CASE Merge
  BY <1>1, TypeMerge DEF Merge
<1>2. CASE Cleanup
  <2>1. Idle \in AgentType
    BY TaskTyped DEF Idle
  <2>2. \A c \in Channels \ keys' : channelSubscribers_'[c] = {}
    BY <1>2 DEF Cleanup, Kept, TypeOK
  <2> QED BY <1>2, <2>1, <2>2 DEF Cleanup, TypeOK, AgentType, hostVars, peerVars
<1>3. CASE ConnectSucceeds
  <2>1. agent' \in AgentType
    BY <1>3, TaskTyped DEF ConnectSucceeds, ToSubscribe, TypeOK, AgentType
  <2>2. clients_' \in [Hosts -> Epochs \union {0}] /\ subscribed' \in [Hosts -> SUBSET Channels]
    BY <1>3 DEF ConnectSucceeds, TypeOK
  <2> QED BY <1>3, <2>1, <2>2 DEF ConnectSucceeds, TypeOK, AgentType, hostVars
<1>4. CASE ConnectFails
  <2>1. Idle \in AgentType
    BY TaskTyped DEF Idle
  <2>2. resets' \in 0 .. MaxResets
    BY <1>4, UdpDiscoveryAssumption DEF ConnectFails, TypeOK
  <2>3. clients_' \in [Hosts -> Epochs \union {0}] /\ subscribed' \in [Hosts -> SUBSET Channels]
    BY <1>4 DEF ConnectFails, Dropped, TypeOK
  <2> QED BY <1>4, <2>1, <2>2, <2>3 DEF ConnectFails, TypeOK, AgentType, hostVars
<1>5. CASE Subscribed
  <2>1. Idle \in AgentType
    BY TaskTyped DEF Idle
  <2> QED BY <1>5, <2>1 DEF Subscribed, TypeOK, AgentType, hostVars, peerVars
<1>6. ASSUME NEW c \in Channels, Subscribe(c) PROVE TypeOK'
  <2>1. agent' \in AgentType
    BY <1>6 DEF Subscribe, TypeOK, AgentType
  <2>2. subscribed' \in [Hosts -> SUBSET Channels]
    BY <1>6 DEF Subscribe, TypeOK
  <2> QED BY <1>6, <2>1, <2>2 DEF Subscribe, TypeOK, AgentType, hostVars
<1>7. ASSUME NEW c \in Channels, Unsubscribe(c) PROVE TypeOK'
  <2>1. agent' \in AgentType
    BY <1>7 DEF Unsubscribe, TypeOK, AgentType
  <2>2. subscribed' \in [Hosts -> SUBSET Channels]
    BY <1>7 DEF Unsubscribe, TypeOK
  <2> QED BY <1>7, <2>1, <2>2 DEF Unsubscribe, TypeOK, AgentType, hostVars
<1> QED BY <1>1, <1>2, <1>3, <1>4, <1>5, <1>6, <1>7 DEF Works

-----------------------------------------------------------------------------
(* The inductive invariant.                                                *)

\* What the agent holds where it is.
AgentFits ==
  /\ agent.pc # "idle" => agent.origin \in Hosts
  /\ agent.pc \in {"idle", "connect"} => agent.subscribes = {}
  /\ agent.pc \in {"idle", "connect", "subscribe"} => agent.unsubscribes = {}

\* The calls still to be made are those between what the remote peer has and the
\* members the host has by now.
Difference ==
  /\ agent.pc # "idle" =>
       /\ agent.subscribes \subseteq Members(agent.origin)
       /\ agent.unsubscribes \cap Members(agent.origin) = {}
  /\ \A h \in Hosts :
       clients_[h] # 0 =>
         subscribed[h] = IF h = agent.origin
                         THEN (Members(h) \ agent.subscribes) \union agent.unsubscribes
                         ELSE Members(h)

\* The merge has passed the channels of the list that are not in todo, and those of
\* the map that are not in rest.
Merging ==
  agent.pc = "merge" =>
    /\ agent.rest \subseteq keys /\ agent.todo \subseteq agent.list
    /\ agent.todo \cap keys \subseteq agent.rest
    /\ agent.list \ agent.todo \subseteq Members(agent.origin) \ agent.rest
    /\ Members(agent.origin) \ agent.rest \subseteq agent.list
    /\ agent.subscribes \cap agent.rest = {} /\ agent.unsubscribes \cap agent.rest = {}
    /\ agent.unsubscribes \subseteq keys

IInv == TypeOK /\ AgentFits /\ Difference /\ Merging /\ MergeIsExact

LEMMA InitInv == Init => IInv
<1> SUFFICES ASSUME Init PROVE IInv
  OBVIOUS
<1>1. /\ agent.pc = "idle" /\ agent.subscribes = {} /\ agent.unsubscribes = {}
  BY DEF Init, Idle, Task
<1>2. \A h \in Hosts : clients_[h] = 0
  BY DEF Init
<1> QED BY <1>1, <1>2, TypeInit DEF IInv, AgentFits, Difference, Merging, MergeIsExact

\* Steps that leave the agent and its map alone.
LEMMA EnvironmentInv == IInv /\ Environment => IInv'
<1> SUFFICES ASSUME IInv, NEW h \in Hosts,
                    (\E c \in Channels : Change(h, c)) \/ Restart(h) \/ WorkerResets(h)
             PROVE  IInv'
  BY DEF Environment
<1>1. TypeOK'
  BY TypeEnvironment DEF IInv, Environment
<1>2. UNCHANGED <<keys, channelSubscribers_, agent>>
  BY DEF Change, Restart, WorkerResets
<1>3. \A k \in Hosts : Members(k)' = Members(k)
  BY <1>2 DEF Members
<1>4. \A k \in Hosts : clients_'[k] # 0 => clients_[k] # 0 /\ subscribed'[k] = subscribed[k]
  BY DEF Change, Restart, WorkerResets, Dropped, peerVars, IInv, TypeOK
<1>5. AgentFits' /\ Merging' /\ MergeIsExact'
  BY <1>2, <1>3 DEF IInv, AgentFits, Merging, MergeIsExact
<1>6. Difference'
  BY <1>2, <1>3, <1>4 DEF IInv, Difference, AgentFits
<1> QED BY <1>1, <1>5, <1>6 DEF IInv

\* A broadcast: the merge begins with everything to do.
LEMMA ReceivesInv == IInv /\ Receives => IInv'
<1> SUFFICES ASSUME IInv, NEW b \in BroadcastType, ReceiveList(b) \/ ReceiveOffer(b), TypeOK'
             PROVE  IInv'
  BY BroadcastsTyped, TypeReceives DEF Receives, IInv, TypeOK, BroadcastType
<1>0. b.origin \in Hosts /\ agent.subscribes = {} /\ agent.unsubscribes = {}
  BY DEF BroadcastType, IInv, AgentFits, ReceiveList, ReceiveOffer
<1>1. UNCHANGED <<keys, channelSubscribers_, clients_, subscribed>>
  BY DEF ReceiveList, ReceiveOffer, peerVars
<1>2. \A k : Members(k)' = Members(k)
  BY <1>1 DEF Members
<1>3. \A k \in Hosts : clients_[k] # 0 => subscribed[k] = Members(k)
  BY <1>0 DEF IInv, Difference
<1>4. CASE ReceiveList(b)
  <2>1. /\ agent'.pc = "merge" /\ agent'.origin = b.origin
        /\ agent'.list = agent'.todo /\ agent'.rest = keys'
        /\ agent'.subscribes = {} /\ agent'.unsubscribes = {}
    BY <1>1, <1>4 DEF ReceiveList, Task
  <2>2. Members(b.origin)' \subseteq keys'
    BY DEF Members
  <2>3. AgentFits' /\ MergeIsExact'
    BY <1>0, <2>1 DEF AgentFits, MergeIsExact
  <2>4. Merging'
    BY <2>1, <2>2 DEF Merging
  <2>5. Difference'
    BY <1>1, <1>2, <1>3, <2>1 DEF Difference
  <2> QED BY <2>3, <2>4, <2>5 DEF IInv
<1>5. CASE ReceiveOffer(b)
  <2>1. /\ agent'.pc \in {"idle", "connect"} /\ (agent'.pc = "connect" => agent'.origin \in Hosts)
        /\ agent'.subscribes = {} /\ agent'.unsubscribes = {}
    BY <1>0, <1>5 DEF ReceiveOffer, Task
  <2>2. AgentFits' /\ MergeIsExact' /\ Merging'
    BY <2>1 DEF AgentFits, MergeIsExact, Merging
  <2>3. Difference'
    BY <1>1, <1>2, <1>3, <2>1 DEF Difference
  <2> QED BY <2>2, <2>3 DEF IInv
<1> QED BY <1>4, <1>5

\* One pass of the merge, for what becomes of the members of each host.
LEMMA PassInv ==
  ASSUME IInv, TypeOK', agent.pc = "merge", NEW c \in Channels,
         NotInterested(c) \/ Interested(c) \/ NewlyInterested(c), UNCHANGED peerVars
  PROVE  IInv'
<1> DEFINE h == agent.origin
           M == Members(h)
<1>0. /\ TypeOK /\ AgentFits /\ Difference /\ Merging /\ h \in Hosts
  BY DEF IInv, AgentFits
<1>a. \A S \in SUBSET Channels : Before(c, S) => c \notin S
  BY UdpDiscoveryAssumption DEF Before
<1>b. agent.todo \subseteq Channels /\ agent.rest \subseteq Channels
  BY <1>0 DEF TypeOK
<1>1. agent'.pc = "merge" /\ agent'.origin = h /\ agent'.list = agent.list
  BY <1>0 DEF NotInterested, Interested, NewlyInterested, TypeOK
<1>2. \A k \in Hosts \ {h} : Members(k)' = Members(k)
  BY <1>0 DEF NotInterested, Interested, NewlyInterested, Members, TypeOK, InMap
<1>c. /\ agent.subscribes \subseteq M /\ agent.unsubscribes \cap M = {}
      /\ clients_[h] # 0 => subscribed[h] = (M \ agent.subscribes) \union agent.unsubscribes
  BY <1>0 DEF Difference
<1> DEFINE Settles ==
      /\ agent'.subscribes \subseteq Members(h)' /\ agent'.unsubscribes \cap Members(h)' = {}
      /\ clients_[h] # 0 =>
           subscribed[h] = (Members(h)' \ agent'.subscribes) \union agent'.unsubscribes
<1>d. Settles => Difference'
  <2>1. \A k \in Hosts \ {h} : clients_[k] # 0 => subscribed[k] = Members(k)'
    BY <1>0, <1>2 DEF Difference
  <2>2. Members(agent.origin)' = Members(h)'
    BY <1>1 DEF Members
  <2> QED BY <1>0, <1>1, <2>1, <2>2 DEF Difference, peerVars
<1>3. CASE NotInterested(c)
  <2>1. /\ agent'.todo = agent.todo /\ agent'.rest = agent.rest \ {c} /\ keys' = keys
        /\ agent'.subscribes = agent.subscribes
        /\ agent'.unsubscribes = IF c \in M THEN agent.unsubscribes \union {c} ELSE agent.unsubscribes
    BY <1>0, <1>3 DEF NotInterested, Members, Merging, InMap, TypeOK
  <2>2. c \in agent.rest /\ c \notin agent.todo
    BY <1>3, <1>a, <1>b DEF NotInterested, InMap
  <2>3. Members(h)' = M \ {c}
    BY <1>0, <1>3 DEF NotInterested, Members, TypeOK
  <2>4. Merging' /\ AgentFits' /\ MergeIsExact'
    BY <1>0, <1>1, <2>1, <2>2, <2>3 DEF Merging, AgentFits, MergeIsExact
  <2>5. Settles
    BY <1>0, <1>c, <2>1, <2>2, <2>3 DEF Merging
  <2> QED BY <1>d, <2>4, <2>5 DEF IInv
<1>4. CASE Interested(c)
  <2>1. /\ agent'.todo = agent.todo \ {c} /\ agent'.rest = agent.rest \ {c} /\ keys' = keys
        /\ agent'.subscribes = IF c \notin M THEN agent.subscribes \union {c} ELSE agent.subscribes
        /\ agent'.unsubscribes = agent.unsubscribes
    BY <1>0, <1>4 DEF Interested, Members, Merging, InMap, TypeOK
  <2>2. c \in agent.rest /\ c \in agent.todo /\ c \in keys
    BY <1>0, <1>4 DEF Interested, InMap, InList, Merging
  <2>3. Members(h)' = M \union {c}
    BY <1>0, <1>4, <2>2 DEF Interested, Members, TypeOK
  <2>4. Merging' /\ AgentFits' /\ MergeIsExact'
    BY <1>0, <1>1, <2>1, <2>2, <2>3 DEF Merging, AgentFits, MergeIsExact
  <2>5. Settles
    BY <1>0, <1>c, <2>1, <2>2, <2>3 DEF Merging
  <2> QED BY <1>d, <2>4, <2>5 DEF IInv
<1>5. CASE NewlyInterested(c)
  <2>1. /\ agent'.todo = agent.todo \ {c} /\ agent'.rest = agent.rest
        /\ agent'.subscribes = agent.subscribes \union {c}
        /\ agent'.unsubscribes = agent.unsubscribes
    BY <1>0, <1>5 DEF NewlyInterested, TypeOK
  <2>2. c \in agent.todo /\ c \notin agent.rest /\ c \notin keys /\ keys' = keys \union {c}
    BY <1>0, <1>5, <1>a, <1>b DEF NewlyInterested, InList, InsertsBefore, Merging
  <2>3. Members(h)' = M \union {c} /\ c \notin M
    BY <1>0, <1>5, <2>2 DEF NewlyInterested, Members, TypeOK
  <2>4. Merging' /\ AgentFits' /\ MergeIsExact'
    BY <1>0, <1>1, <2>1, <2>2, <2>3 DEF Merging, AgentFits, MergeIsExact
  <2>5. Settles
    BY <1>0, <1>c, <2>1, <2>2, <2>3 DEF Merging
  <2> QED BY <1>d, <2>4, <2>5 DEF IInv
<1> QED BY <1>3, <1>4, <1>5

\* The agent's other steps.
LEMMA WorksInv == IInv /\ Works => IInv'
<1> SUFFICES ASSUME IInv, Works PROVE IInv'
  OBVIOUS
<1> DEFINE h == agent.origin
<1>0. TypeOK /\ AgentFits /\ Difference /\ Merging /\ MergeIsExact
  BY DEF IInv
<1>t. TypeOK'
  BY <1>0, TypeWorks DEF AgentFits, Merging
<1>1. CASE Merge
  <2>1. ASSUME NEW c \in Channels, NotInterested(c) \/ Interested(c) \/ NewlyInterested(c)
        PROVE  IInv'
    BY <1>1, <1>t, <2>1, PassInv DEF Merge
  <2>2. ASSUME agent.todo = {}, agent.rest = {}, agent' = [agent EXCEPT !.pc = "update"],
               UNCHANGED <<keys, channelSubscribers_>>
        PROVE  IInv'
    <3>1. /\ agent'.pc = "update" /\ agent'.origin = h /\ agent'.list = agent.list
          /\ agent'.subscribes = agent.subscribes /\ agent'.unsubscribes = agent.unsubscribes
      BY <1>0, <2>2 DEF TypeOK
    <3>2. /\ \A k : Members(k)' = Members(k)
          /\ Members(agent.origin)' = Members(h)
      BY <2>2, <3>1 DEF Members
    <3>3. Members(h) = agent.list
      BY <1>0, <1>1, <2>2 DEF Merging, Merge
    <3>4. AgentFits' /\ MergeIsExact' /\ Merging'
      BY <1>0, <1>1, <3>1, <3>2, <3>3 DEF AgentFits, MergeIsExact, Merging, Merge
    <3>5. Difference'
      BY <1>0, <1>1, <3>1, <3>2 DEF Difference, Merge, peerVars
    <3> QED BY <1>t, <3>4, <3>5 DEF IInv
  <2> QED BY <1>1, <2>1, <2>2 DEF Merge
<1>2. CASE Cleanup
  <2>1. agent' = Idle /\ UNCHANGED <<channelSubscribers_, peerVars>>
    BY <1>2 DEF Cleanup
  <2>2. \A k : Members(k)' = Members(k)
    BY <1>2 DEF Cleanup, Kept, Members
  <2>3. \A k \in Hosts : clients_[k] # 0 => subscribed[k] = Members(k)
    BY <1>0, <1>2 DEF Difference, Cleanup
  <2>4. AgentFits' /\ MergeIsExact' /\ Merging'
    BY <2>1 DEF AgentFits, MergeIsExact, Merging, Idle, Task
  <2>5. Difference'
    BY <2>1, <2>2, <2>3 DEF Difference, Idle, Task, peerVars
  <2> QED BY <1>t, <2>4, <2>5 DEF IInv
<1>3. CASE ConnectSucceeds
  <2>1. /\ agent'.pc = "subscribe" /\ agent'.origin = h
        /\ agent'.subscribes = Members(h) /\ agent'.unsubscribes = {} /\ h \in Hosts
    BY <1>0, <1>3 DEF ConnectSucceeds, Task, ToSubscribe, Members, AgentFits
  <2>2. \A k : Members(k)' = Members(k)
    BY <1>3 DEF ConnectSucceeds, Members
  <2>3. \A k \in Hosts \ {h} :
          clients_'[k] # 0 => subscribed'[k] = Members(k) /\ clients_'[k] = clients_[k]
    BY <1>0, <1>3, <2>1 DEF ConnectSucceeds, TypeOK, Difference
  <2>4. subscribed'[h] = {}
    BY <1>0, <1>3, <2>1 DEF ConnectSucceeds, TypeOK
  <2>5. AgentFits' /\ MergeIsExact' /\ Merging'
    BY <2>1 DEF AgentFits, MergeIsExact, Merging
  <2>6. Members(agent.origin)' = Members(h)
    BY <2>1, <2>2 DEF Members
  <2>7. Difference'
    BY <2>1, <2>2, <2>3, <2>4, <2>6 DEF Difference
  <2> QED BY <1>t, <2>5, <2>7 DEF IInv
<1>4. CASE ConnectFails
  <2>1. agent' = Idle /\ h \in Hosts
    BY <1>0, <1>4 DEF ConnectFails, AgentFits
  <2>2. \A k : Members(k)' = Members(k)
    BY <1>4 DEF ConnectFails, Members
  <2>3. \A k \in Hosts : clients_'[k] # 0 => subscribed'[k] = Members(k)
    BY <1>0, <1>4, <2>1 DEF ConnectFails, Dropped, TypeOK, Difference
  <2>4. AgentFits' /\ MergeIsExact' /\ Merging'
    BY <2>1 DEF AgentFits, MergeIsExact, Merging, Idle, Task
  <2>5. Difference'
    BY <2>1, <2>2, <2>3 DEF Difference, Idle, Task
  <2> QED BY <1>t, <2>4, <2>5 DEF IInv
<1>5. CASE Subscribed
  <2>1. agent' = Idle /\ UNCHANGED <<keys, channelSubscribers_, peerVars>>
    BY <1>5 DEF Subscribed
  <2>2. \A k : Members(k)' = Members(k)
    BY <2>1 DEF Members
  <2>3. \A k \in Hosts : clients_[k] # 0 => subscribed[k] = Members(k)
    BY <1>0, <1>5 DEF Difference, Subscribed, AgentFits
  <2>4. AgentFits' /\ MergeIsExact' /\ Merging'
    BY <2>1 DEF AgentFits, MergeIsExact, Merging, Idle, Task
  <2>5. Difference'
    BY <2>1, <2>2, <2>3 DEF Difference, Idle, Task, peerVars
  <2> QED BY <1>t, <2>4, <2>5 DEF IInv
<1>6. ASSUME NEW c \in Channels, Subscribe(c) \/ Unsubscribe(c) PROVE IInv'
  <2>1. /\ agent'.pc = agent.pc /\ agent.pc \in {"update", "subscribe"}
        /\ agent'.origin = h /\ agent'.list = agent.list /\ h \in Hosts
        /\ UNCHANGED <<keys, channelSubscribers_, clients_>>
    BY <1>0, <1>6 DEF Subscribe, Unsubscribe, AgentFits, TypeOK
  <2>2. /\ \A k : Members(k)' = Members(k)
        /\ Members(agent.origin)' = Members(h)
    BY <2>1 DEF Members
  <2>3. /\ agent.subscribes \subseteq Members(h) /\ agent.unsubscribes \cap Members(h) = {}
        /\ clients_[h] # 0 =>
             subscribed[h] = (Members(h) \ agent.subscribes) \union agent.unsubscribes
    BY <1>0, <2>1 DEF Difference
  <2>4. \A k \in Hosts \ {h} : subscribed'[k] = subscribed[k]
    BY <1>0, <1>6 DEF Subscribe, Unsubscribe, TypeOK
  <2>5. /\ agent'.subscribes \subseteq Members(h) /\ agent'.unsubscribes \cap Members(h) = {}
        /\ clients_[h] # 0 =>
             subscribed'[h] = (Members(h) \ agent'.subscribes) \union agent'.unsubscribes
    <3>1. CASE Subscribe(c)
      <4>1. /\ agent'.subscribes = agent.subscribes \ {c} /\ c \in agent.subscribes
            /\ agent'.unsubscribes = agent.unsubscribes
            /\ clients_[h] # 0 => subscribed'[h] = subscribed[h] \union {c}
        BY <1>0, <2>1, <3>1 DEF Subscribe, TypeOK
      <4> QED BY <2>3, <4>1
    <3>2. CASE Unsubscribe(c)
      <4>1. /\ agent'.subscribes = agent.subscribes /\ c \in agent.unsubscribes
            /\ agent'.unsubscribes = agent.unsubscribes \ {c}
            /\ subscribed'[h] = subscribed[h] \ {c}
        BY <1>0, <2>1, <3>2 DEF Unsubscribe, TypeOK
      <4> QED BY <2>3, <4>1
    <3> QED BY <1>6, <3>1, <3>2
  <2>6. AgentFits'
    BY <1>0, <1>6, <2>1 DEF AgentFits, Subscribe, Unsubscribe, TypeOK
  <2>7. MergeIsExact' /\ Merging'
    BY <1>0, <2>1, <2>2 DEF MergeIsExact, Merging
  <2>8. Difference'
    BY <1>0, <2>1, <2>2, <2>4, <2>5 DEF Difference
  <2> QED BY <1>t, <2>6, <2>7, <2>8 DEF IInv
<1> QED BY <1>1, <1>2, <1>3, <1>4, <1>5, <1>6 DEF Works

LEMMA NextInv == IInv /\ [Next]_vars => IInv'
<1>1. IInv /\ UNCHANGED vars => IInv'
  BY DEF vars, hostVars, peerVars, IInv, TypeOK, AgentFits, Difference, Merging, MergeIsExact,
         Members
<1> QED BY <1>1, EnvironmentInv, ReceivesInv, WorksInv DEF Next

\* The strengthened invariant, on which the theorems below rest: what the agent has
\* still to call is the difference between its map and the remote peer.
THEOREM IInvAlways == Spec => []IInv
<1> QED BY InitInv, NextInv, PTL DEF Spec

\* The state keeps its types, and a channel without an entry has no subscribers.
THEOREM TypeOKAlways == Spec => []TypeOK
<1>1. IInv => TypeOK
  BY DEF IInv
<1> QED BY <1>1, IInvAlways, PTL

\* The merge of the two sorted sequences is exact (UdpDiscovery.cc:449-511).
THEOREM MergeIsExactAlways == Spec => []MergeIsExact
<1>1. IInv => MergeIsExact
  BY DEF IInv
<1> QED BY <1>1, IInvAlways, PTL

\* A host that is connected is subscribed to just the channels of its list, whatever
\* fails while the agent is at work (UdpDiscovery.cc:513-519, 570-588).
THEOREM SubscriptionsAgreeAlways == Spec => []SubscriptionsAgree
<1>1. IInv => SubscriptionsAgree
  BY DEF IInv, Difference, AgentFits, SubscriptionsAgree
<1> QED BY <1>1, IInvAlways, PTL

-----------------------------------------------------------------------------
(* The connection is the one last offered.                                 *)

LEMMA OfferInv == IInv /\ RestartIsNoticed /\ [Next]_vars => RestartIsNoticed'
<1> SUFFICES ASSUME IInv, RestartIsNoticed, [Next]_vars PROVE RestartIsNoticed'
  OBVIOUS
<1>0. TypeOK /\ AgentFits
  BY DEF IInv
<1>1. CASE UNCHANGED <<clients_, connectionOffers_, agent>>
  BY <1>1 DEF RestartIsNoticed
<1>2. ASSUME agent.pc # "connect", agent'.pc # "connect", UNCHANGED <<clients_, connectionOffers_>>
      PROVE  RestartIsNoticed'
  BY <1>2 DEF RestartIsNoticed
<1>3. ASSUME NEW h \in Hosts, WorkerResets(h) PROVE RestartIsNoticed'
  BY <1>0, <1>3 DEF RestartIsNoticed, WorkerResets, Dropped, TypeOK
<1>4. ASSUME NEW b \in BroadcastType, ReceiveOffer(b) PROVE RestartIsNoticed'
  <2>1. b.origin \in Hosts /\ agent.pc = "idle" /\ UNCHANGED clients_
    BY <1>4 DEF BroadcastType, ReceiveOffer, peerVars
  <2>2. \A h \in Hosts \ {b.origin} : connectionOffers_'[h] = connectionOffers_[h]
    BY <1>0, <1>4 DEF ReceiveOffer, TypeOK
  <2>3. CASE ToConnect(b)
    <3>1. agent'.pc = "connect" /\ agent'.origin = b.origin
      BY <1>4, <2>3 DEF ReceiveOffer, Task
    <3> QED BY <2>1, <2>2, <3>1 DEF RestartIsNoticed
  <2>4. CASE ~ToConnect(b)
    <3>1. UNCHANGED <<clients_, connectionOffers_, agent>>
      BY <1>0, <1>4, <2>1, <2>4 DEF ReceiveOffer, ToConnect, NewOffer, TypeOK
    <3> QED BY <1>1, <3>1
  <2> QED BY <2>3, <2>4
<1>5. CASE ConnectSucceeds
  <2>1. agent.origin \in Hosts /\ agent'.pc = "subscribe" /\ UNCHANGED connectionOffers_
    BY <1>0, <1>5 DEF ConnectSucceeds, AgentFits, Task
  <2>2. clients_'[agent.origin] = connectionOffers_[agent.origin]
    BY <1>0, <1>5, <2>1 DEF ConnectSucceeds, TypeOK
  <2>3. \A h \in Hosts \ {agent.origin} : clients_'[h] = clients_[h]
    BY <1>0, <1>5 DEF ConnectSucceeds, TypeOK
  <2> QED BY <2>1, <2>2, <2>3 DEF RestartIsNoticed
<1>6. CASE ConnectFails
  <2>1. agent.origin \in Hosts /\ UNCHANGED connectionOffers_
    BY <1>0, <1>6 DEF ConnectFails, AgentFits
  <2>2. clients_'[agent.origin] = 0
    BY <1>0, <1>6, <2>1 DEF ConnectFails, Dropped, TypeOK
  <2>3. \A h \in Hosts \ {agent.origin} : clients_'[h] = clients_[h]
    BY <1>0, <1>6 DEF ConnectFails, Dropped, TypeOK
  <2> QED BY <2>1, <2>2, <2>3 DEF RestartIsNoticed
<1>7. CASE Works
  <2>1. CASE Merge
    <3>1. agent'.pc # "connect"
      BY <1>0, <2>1 DEF Merge, NotInterested, Interested, NewlyInterested, TypeOK
    <3> QED BY <1>2, <2>1, <3>1 DEF Merge, peerVars
  <2>2. CASE Cleanup
    BY <1>2, <2>2 DEF Cleanup, Idle, Task, peerVars
  <2>3. CASE Subscribed
    BY <1>2, <2>3 DEF Subscribed, Idle, Task, peerVars
  <2>4. ASSUME NEW c \in Channels, Subscribe(c) \/ Unsubscribe(c) PROVE RestartIsNoticed'
    BY <1>0, <1>2, <2>4 DEF Subscribe, Unsubscribe, TypeOK
  <2> QED BY <1>5, <1>6, <1>7, <2>1, <2>2, <2>3, <2>4 DEF Works
<1>8. CASE Environment
  <2>1. ASSUME NEW h \in Hosts, (\E c \in Channels : Change(h, c)) \/ Restart(h)
        PROVE  UNCHANGED <<clients_, connectionOffers_, agent>>
    BY <2>1 DEF Change, Restart, peerVars
  <2> QED BY <1>1, <1>3, <1>8, <2>1 DEF Environment
<1>9. ASSUME NEW b \in BroadcastType, ReceiveList(b) PROVE RestartIsNoticed'
  BY <1>2, <1>9 DEF ReceiveList, Task, peerVars
<1>10. CASE Receives
  <2>1. PICK b \in BroadcastType : ReceiveList(b) \/ ReceiveOffer(b)
    BY <1>0, <1>10, BroadcastsTyped DEF Receives, TypeOK, BroadcastType
  <2> QED BY <1>4, <1>9, <2>1
<1>11. CASE UNCHANGED vars
  BY <1>1, <1>11 DEF vars, peerVars
<1> QED BY <1>7, <1>8, <1>10, <1>11 DEF Next

\* A host that has started again is connected to again with its first offer: the
\* connection is always the one last offered (UdpDiscovery.cc:544-571).
THEOREM RestartIsNoticedAlways == Spec => []RestartIsNoticed
<1>1. Init => RestartIsNoticed
  BY DEF Init, RestartIsNoticed
<1> QED BY <1>1, OfferInv, IInvAlways, PTL DEF Spec

=============================================================================
