# A verification of CADRE_Install

CADRE_Install installs the packages of CADRE on a fresh Ubuntu machine. The
repository holds

- the installer: `cadre_install.py`, `MakeIt/DeployFunc.py`, `MakeIt/ConfigFunc.py`;
- one configuration script per package under `configs/`;
- packages that cannot be downloaded, under `offline_pkgs/`. One of them,
  SimpleComms, is a publish/subscribe middleware whose C++ source is in the
  repository (`offline_pkgs/simplecomms/src`); it is by far the largest program here.

This directory holds TLA+ models of the installer and of SimpleComms (its server,
its discovery agent and its client library), the TLC configurations that check them on small instances, and proofs, checked
by TLAPS, of the properties that matter most for instances of every size.

File names below are relative to the repository; `Server.cc` and its neighbours
are in `offline_pkgs/simplecomms/src`.

## 1. Inventory

### The installer

| part | state | operations | interacts with |
|---|---|---|---|
| `cadre_install.py` | `config_json_queue`, the failed queue and the sizes of two rounds | run the configuration scripts, then call `makeit` for the queue in rounds until a round makes no progress; save the logs after every package; ^C leaves the loop | `configs/*.py` through their json files; `DeployFunc` |
| `DeployFunc.py` | `makeit_status`, `success_log`, `error_log`, `current_name`, `apt_updated`; three json files | `makeit`: apt, commands, git or package sources, patch, build, commands; `saveMakeLog` | the shell; the disk |
| `configs/**.py` | none | each writes a json file | `ConfigFunc.py` |
| `~/.bashrc` | lines appended by `cadre_init.py` and `ldpath` | | the next shell |

*Hard here*: every command may fail; the logs are three files rewritten one after
the other, and the process may be interrupted or killed in any of the stages and
in the middle of a write; the next start believes what the files and the
directories on disk say; the order of the configurations is that of `os.walk`.

*Correct means*: nothing is built before what it depends on, in any order and
after any crash; the record on disk is never ahead of the truth, and at most one
package behind it unless the program is stopped in the middle of the write that
replaces it, which loses all of it; made means that everything mandatory succeeded;
the retry loop ends, and ends only where trying again is of no use.

### SimpleComms

| part | state | operations |
|---|---|---|
| `Server.cc` | `writeReady_`, `writeWaiting_`, two mutexes, a condition, a wake-up pipe, `running_` | an input thread receives messages and queues their clients; output workers write to clients that are ready and poll those that are not; `stop` |
| `BasePeer.cc` | `clients_` by name, the `ClientData` they point to, `channels_` with their subscribers | `queueMsg`, `doWrites`, `handleErrors`, `handleControlMsg`, `clientReset` under `clientsMutex_` |
| `TcpPeer.cc`, `UdpPeer.cc` | descriptors; inbound connections with the part of a message read so far | `clientConnect`, nonblocking sends; accept, framing of what is received |
| `UnixPeer.cc` | local descriptors | `clientConnect` to the socket a client has bound; its requests are echoed to it |
| `UnixClient.cc` | the client library: its sockets, `channels_`, buffers of fragments and a list of them by age, two conditions, a receiver thread | connect with a handshake, disconnect, subscribe, unsubscribe, send, receive; the thread reassembles fragments |
| `UdpDiscovery.cc` | `channelSubscribers_` (who subscribes to what), `connectionOffers_` | broadcasts the local channels and an offer every second; turns what it hears into Connect, Subscribe and Unsubscribe of the remote peer |
| `Condition.cc`, `Monitor.cc` | a flag in a pipe; a set of conditions | set, unset, wait |

The discovery thread calls the remote peer (`Connect`, `Subscribe`,
`Unsubscribe`) while the input thread calls `queueMsg` on it and the workers call
`doWrites` and `handleErrors`. They share the clients under `clientsMutex_`, the
two queues under `writeQueuesMutex_`, the right to poll under
`writeWaitingMutex_`; `send()` and `poll()` run under none of the three.

A client talks to its server in requests (Connect, Disconnect, Subscribe,
Unsubscribe) that the server takes one after the other from one socket, acts on and
echoes. Servers talk over one TCP connection in each direction.

*Hard here*: data and queue membership of one client are guarded by different
mutexes; a send works on a descriptor number read before it, which may be closed
and reused meanwhile; `poll()` works on a list that grows behind it, and its
outcomes are matched to clients by position; the `outBox` is pruned while its
front is being sent; a client is retired by one thread and still on a queue of
another; workers sleep on a condition, wait in `poll()`, and must be woken by
different means. A connect may give up while its request is still in the server's
socket. The receiver thread and the program close the same sockets, and either may
be in the middle of something. Broadcasts are lost, late and overtake each
other, over the restarts of hosts; a subscription exists in the agent's map and at
the remote peer, which drops its copy whenever a connection fails. TCP
splits a message anywhere.

*Correct means*: a client is in one place at a time, so that two workers never
write to it; a client with data is always on its way to a worker, and workers do
not all sleep meanwhile; what arrives on a connection is whole messages, each
once, in order; only what is old or was on a closed connection is dropped. What
a client asked for is what its server has, and what a host lists is what its
neighbours send it, in the end and whenever nothing is under way. A client's
socket is read by one thread, its calls return, and its messages are whole.

`PROJECT.json` lists every part with what is modelled of it, and under `hazards`
each place in the code that is hard to test, with the properties about it.

## 2. Modules

```
InstallOrder   <--implements--  CadreInstall --EXTENDS--> DeployFunc
                                  |   \-- CadreInstall_proofs -- CadreOutcome_proofs
                                  |-- MCCadreInstall
                                  \-- MCCadreConfigs --EXTENDS--> CadreConfigs

MessageRelay   <--implements--  CommsServer --EXTENDS--> BasePeer
                                  |   \-- CommsServer_proofs -- CommsStream_proofs
                                  |-- MCCommsServer                        \
                                  \-- CommsLink -- MCCommsLink, CommsRelay_proofs

UdpDiscovery -- MCUdpDiscovery, UdpDiscovery_proofs
UnixClient   -- MCUnixClient,   UnixClient_proofs -- UnixConnect_proofs
```

- **DeployFunc** is `makeit`. `stage` says where the call is; each stage is an
  action with the code's branches as disjuncts: pass, fail with or without a log
  entry, raise. The three assignments that reset the entries of a package are three steps, since
  ^C may come between them. A command is free to pass or fail every time. What a command
  leaves behind is kept only where later code looks at it: `tree[n]` (absent,
  empty submodule directory, cut short, only a build directory, whole, patched),
  `file` (downloaded files), `own_tree` (the installer's own checkout, on which git
  works when a submodule directory is empty). `CutShort` is the stage that a
  signal stops half-way.
- **CadreInstall** is the program around it: configurations, rounds, the three
  writes of `saveMakeLog` two actions each (`open`, which cuts the file to nothing, and the dump), ^C (`Interrupt`), uncaught exceptions
  (`Abort`), kills (`Kill`), the next start (`Restart`, which loads what the files
  say) and the user who removes a torn log (`json.load` raises on it).
- **InstallOrder** is what it promises: packages are made on top of made ones,
  whatever is made is on record before the next one is made, and dying falls back to
  the record. `ImplementsOrder` maps `made` to the made packages in memory
  while the program is alive and to the record otherwise.
- **CadreConfigs** has the 36 configurations with what `makeit` branches on;
  **MCCadreConfigs** runs CadreInstall on them.
- **BasePeer** has the sections that run under `clientsMutex_`, and the `send()`
  between two of them that runs without. A host is the *name* of a client; a
  `ClientData` is an *object* `<<host, number>>`, since an entry of `clients_` that is
  erased and made again is a new object while the queues may still hold the old
  one. `files` maps descriptor numbers, lowest free first, to connections;
  `stream[k]` has the bytes sent on connection `k`. A message is a number and is
  sent as two bytes, which is enough for a partial write. One channel stands for all.
  `UdpPeer` is `supportsPartialWrites = FALSE`.
- **CommsServer** gives these sections to their threads. `pc[w]` says where a worker
  is. The loop of the code between two lock operations is one action;
  each lock, unlock, `send()`, `poll()`, condition wait and element of a list that is
  walked is a step of its own. The input thread takes the mutex, puts one client
  after the other on a queue (each with a signal) and gives it back. `doPoll` is
  seven actions: read the descriptors and unlock, enter `poll()`, time out, return,
  lock, one outcome after the other, give the right to poll back.
- **MessageRelay** is what a peer promises a client: accepted messages are
  delivered once and in order, a lossy relay (one with a threshold for old
  messages) may discard some, and a closed connection drops the rest. What is due
  is a set of numbers, and what is delivered a set of messages each at its place
  (the connection, and the last byte on it), so that the order of deliveries is
  the order of places and a message delivered twice is seen. In CommsServer a message is
  delivered with its last byte (`Delivered`), and due if it is on the `outBox` or
  current and its last byte has not been sent (`Outbound`).

- **CommsLink** adds the other end of CommsServer's connections: the input
  thread of the host that accepted them takes any number of the bytes that have
  come, up to the rest of the header and then of the body (`Wanted`), and hands a
  message on with its last byte. A header that is not one, the end of the
  stream, or a reset ends the connection; the double `inboundClientReset` on a reset has both its
  outcomes (`ReadsReset`).
- **UdpDiscovery** is the agent of one server among other hosts. One pass of its merge
  loop is a step, and one call of the remote peer is a step, since workers reset
  clients of that peer in between. A channel is a number, its order that of the
  names; `todo` and `rest` are what the two iterators have not come to. The
  current broadcast of a host can always be received; `net` has old
  ones that come late. The remote peer is what the agent sees of BasePeer: per host a
  connection, marked with the offer it was made for, and its subscriptions.
- **UnixClient** has the program's thread (`app`), the receiver thread (`receiver`), the
  client's socket (`queue`), the server's socket (`inbox`) and what the server keeps
  for the client. Steps are sections under `fdMutex_` or `channelsMutex_`, or what lies between.
  `fd_` is the number of the attempt, since all attempts bind the same
  name: the server connects to whatever is bound there when it takes the
  request. `Condition` is a flag that `init` leaves alone when its pipe exists.
  A request is looked up and then sent (`request`): the server's socket blocks and holds `QueueLength`
  requests, so that a send waits, with the mutexes its thread holds, or fails. `asking`
  are the channels `connect` has still to subscribe to, `unsent` those whose last request failed,
  `offList` the buffers that a checksum error has left with the list entry that was erased; to
  erase it again has no effect or ends the process (`Crash`).

A definition `X_Word` beside `X` is `X` with a plausible mistake. It is not part of
the model; each shows that some property notices the mistake.

## 3. Runs

| run | instance | what it shows |
|---|---|---|
| `install` | 3 packages (archive; patched git tree; offline deb) in a chain, all 6 orders, 4 initial disks, 2 starts, stops anywhere but in a save | the loop ends (`Ends`); it ends where retrying is useless (`DoneIsFixpoint`); made means succeeded; the three logs have the same keys but for a package that is being reset; failures are explained, but for two kinds that are named |
| `crash` | the same, stops inside a save too, before and after the dump | dependencies and the sources behind made packages survive any crash; the record does but for a stop in the write of the status file (`RecordIsCurrent`, `NeverForgotten`); `ImplementsOrder` |
| `configs` | the 36 configurations, best and worst order, none, any one, or two central ones failing | exactly what does not depend on a failure is made, at least one level of the graph per round |
| `queues` | 1 host, 2 objects, 2 connections, 2 messages, 2 workers, pruning, partial writes, reconnects, stop | a client is in one place (`OnceOnQueues`), is marked for the queues when it has data (`NoLostWakeup`; that it is on one is finding 1), is not left to sleeping workers (`NobodySleepsOnWork`); `poll()` may rely on positions (`PollKeepsPlaces`); entries are connected |
| `order` | 1 host, 1 connection, 3 messages, 2 workers, pruning | each message once, in order; only old ones are dropped; `ImplementsRelay` |
| `link` | 1 connection, which may fail or be closed by either side, 2 messages of 2 bytes (1 of header), 2 workers, no pruning, fairness | whole frames are sent; what the other host relays is what was sent, however it was split (`RelaysWhatWasSent`); a message queued while every worker sleeps or polls arrives in the end (`Arrives`) |
| `client` | 1 channel, a message of 3 fragments and one of 1, depth 1, a server's socket of 2 requests, 2 connects, 2 calls, 6 calls and fragments together, 1 failing system call or damaged message | one receiver; the server has the client at its open socket, and its subscriptions but those it could not be asked for; whole messages; which buffers pruning can find; one channel's messages are signalled; calls return (or the process is dead) |
| `discovery` | 2 hosts, 2 channels, 3 changes or restarts, 1 failing connection, 1 late broadcast | the merge is exact; the subscriptions at the remote peer agree with the map between broadcasts; restarts are noticed; `Converges` |
| `stranded`, `crash_empty`, `available`, `unsubscribed` | small instances of the above | *violated*: see findings |

**Why the bounds are enough.** Installer: a chain of three has a package with
something below and above it, which is what blocking, retrying and the worst
order need, and the three kinds of source are the three branches of the code that keep
state on disk; the second start is the one that reads what a first one left. The
proofs remove these bounds for the safety properties they cover. Server: two
workers are the smallest number with a poller and a writer, or two writers; two
objects of one host are the smallest number with a retired client and its
successor, and two connections make a descriptor number be reused; three messages
allow one being sent, one pruned and one behind it. Two bytes, one of them header, make a read of either part end a message or not. Client: the second connect is the one that meets what the first left (a thread to join, old requests, old acknowledgements, fragments); three fragments allow one to follow a damaged one without ending the message, two messages put two on the list; `MaxWork` bounds the calls and fragments together, each of which the other bounds allow alone; two requests fill the server's socket with a connection's first two, so that the third waits; the one failure may be any that the model has: a socket or thread of `connect`, a request of either thread, `select` or `recv`, the server's connection to the client, a checksum. Discovery: two channels give the merge every relation of two heads, two hosts share an entry of the map; three changes allow a change, a restart and a change after it. Several hosts add
nothing to the queues, which hold objects; what is proved holds for any number of them. All counters that are bounded (`MaxRuns`, `MaxObjects`,
`MaxConnections`, `MaxMessages`, `MaxConnects`, `MaxCalls`, `MaxWork`, `MaxFailures`, `MaxChanges`, `MaxResets`, `MaxNet`) are bounded in the guard of the environment's
action that increments them (restart, connect, receive, a failure), never in the program's.
`SYMMETRY` (of workers, or of channels) is used only in runs without fairness.

**Deadlock** is checked in `discovery`. It is not elsewhere: the installer ends, an
idle server waits for messages, and a client that is not called has nothing to do.

**Fairness.** The installer has weak fairness of `Step`: the program, once
started, runs on, and a command returns. Nobody has to interrupt or restart it.
The server has strong fairness of the input thread's part under the mutex and of each
worker: a mutex that is released again and again is granted in the end, and a
thread that can go on does. For the other side of a connection, a peer that stays
connected keeps reading, so that its socket is writable again and again and takes a
whole message in the end (`Writable`, `Delivers`). Nothing is assumed of discovery,
of what arrives, or of the operator. In CommsLink the input thread of the other host
has weak fairness for each connection: its loop polls all of them. In UnixClient a call
may wait for room in the server's socket, and hold a mutex meanwhile. So `CallsReturn` assumes that
the server goes on taking requests (`WF(ServerReceives)`): its input thread sends nothing to clients, it
only queues (`BasePeer.cc:205-248`), and a worker that waits for a client that does not read holds
no mutex of the server (`BasePeer.cc:338`). Without it TLC finds a `disconnect` that
waits for ever with the socket full. The receiver has weak fairness; the program's thread has strong fairness, since a
mutex or a place in the socket that it waits for is free again and again and may be gone
each time it looks. The wait for the echo ends after ten seconds. That the server writes, or echoes, is not assumed. In UdpDiscovery the agent goes on with
what it has begun, and of a broadcast that is repeated every second some arrive
(strong fairness of its receipt, since the agent is busy in between).

## 4. Findings

Runs that expect a violation show what the code does against what a comment,
the changelog or the README says; `PROJECT.json` quotes both.

1. `stranded`: `doPoll` drops a client with an error from the queue whether or not
   `handleErrors` acted on it. If discovery has reconnected it meanwhile, it stays
   marked as queued, and is never queued again.
2. `crash_empty`: pruning can empty the `outBox` during a send. After `EAGAIN`
   `dataPending` is still set, and the next `doWrites` takes `front()` of an empty
   list. The same two steps have a second outcome: if `EAGAIN` follows a partial
   write and the message was pruned, the next message is sent from the offset of
   the old one, which is why `WholeFrames` is checked without pruning.
3. `available`: the condition that says that messages are available is one for all
   channels, and `receiveMsg` unsets it when the queue of its own channel is empty.
   `OneChannelIsSignalled` is what is left of the promise.
4. `unsubscribed`: an echo does not tell which request it answers. After a connect
   that gave up the server is one Connect behind; a later connect goes on with
   the old echo, takes an old echo of Subscribe for an acknowledgement, and does
   not ask again, while the server still has the requests in its socket that make it forget the client.
   `ServerKnowsClient` and `SubscriptionsSurvive` hold as long as no connect has given up, the
   latter but for channels whose last request was not sent.

The following were met while modelling, can be seen in the modules, and have no run of their own:

- `pkgSource` extracts only if the directory is missing (`DeployFunc.py:237`): an
  extraction cut short leaves it, and the next start builds from what is there.
- `clientReset` erases `clients_[name]`, which may by then be another object
  (`BasePeer.cc:714`), so an error on a retired client unregisters its successor; and
  it keeps `bytesWrittenSoFar`, so that the object's next connection
  may begin in the middle of a message.
- `stop()` broadcasts without the mutex (`Server.cc:167`): a worker between its look at
  `running_` and `pthread_cond_wait` sleeps for ever, and the join waits for it.
- A TCP connection that its sender resets is reset twice by the reader (`TcpPeer.cc:293, 364`).
- ^C between the assignments of `DeployFunc.py:372-374` leaves a package in the status without its
  logs, and `printMakeLog`, which follows, raises `KeyError`; so does it after a torn success or
  error log has been removed.
- `open(..., 'w')` (`DeployFunc.py:483`) empties the record before the new one is written: a stop
  there loses all of it.
- `connect` returns Ok although a resubscription could not be sent (`UnixClient.cc:312`), and
  `subscribe` and `unsubscribe` leave `channels_` changed when their request could not be. After
  a failed `subscribe`, the echo of an earlier one may set `acknowledged`, and then a second try sends nothing.
- The buffer of a message of which a fragment was damaged stays off the list until a good one
  follows: if none does it is never pruned. If one does it erases an entry that is gone
  (`UnixClient.cc:683`).
- When the Connect cannot be sent, `connect` returns with its sockets open, and later ones
  are refused until `disconnect` is called (`UnixClient.cc:273`).

## 5. Proofs

Theorems for every value of the constants:

- installer: `TypeOK`, `DependenciesMade`, `WorksOnMade`, `RecordIsCurrent`, `NeverForgotten`,
  `DoneIsFixpoint`, `FailureIsExplained`, the refinement `ImplementsOrder`;
  `AllOthersAreMade` if dependencies have no cycle (`Ranks`);
  `LogsAgree` and `MadeMeansSucceeded` if the program is not stopped while it saves its
  logs (`~StopsInSave`), `MadeFromSources` if `EachNeedsItsSources`;
- server: `TypeOK`, `NobodySleepsOnWork`, `NoLostWakeup`, `OnceOnQueues`, `PollKeepsPlaces`,
  `EntryIsConnected`; of the streams `EachOnce`, `InOrder`, `DropsOnlyStale` and
  `WholeFrames`, and the refinement `ImplementsRelay`, each under a hypothesis
  discussed below;
- link: `RelaysWhatWasSent`, under the hypotheses of `WholeFrames`;
- discovery: `TypeOK`, `MergeIsExact`, `SubscriptionsAgree`, `RestartIsNoticed`;
- client: `TypeOK`, `OneReceiver`, `OneChannelIsSignalled`, `IncompleteArePruned`, `WholeMessages`,
  `ServerKnowsClient`, `SubscriptionsSurvive`.

What is assumed is only the named
`ASSUME`s of the modules: that a configuration has the type of one, that orders are
sequences of names and list every configuration (`os.listdir` does), that there is
a worker and the sets of names are finite, that the
names of the input thread and of nobody are not workers, that channels are numbers
in the agent, and that a message has a fragment. `EachNeedsItsSources` says that the build of a
configuration with sources fails without them; TLC evaluates it as an `ASSUME` of MCCadreConfigs for
the 36 configurations of the repository, and of MCCadreInstall. `Ranks` says that some numbering
puts every package after its dependencies; for the 36 configurations it is their depth in the
graph, an `ASSUME` of MCCadreConfigs too.

**CadreInstall_proofs.** `DependenciesMade` is not inductive: a package that
succeeds becomes part of `Made`, so one must know that its dependencies are made *now*
(`WorksOnMade`, from the check at the call to the return), and after a restart memory
is what the disk says, so the record must be closed too. It stays closed
because it is equal to memory except between a success and the save of the status
file. `IInv` conjoins this with the types it needs. `MakeitStepEffect` says what
any of the thirteen stages can do to the status: nothing, or, with the return, set
the current package to True.

Two results rest on `IInv` alone. `NeverForgotten`: no step takes anything from the record but a save
of the status file that is cut short, and what is on record is `Made`, which nothing that is worked on is. `ImplementsOrder`: the
initial states are the abstract one (`OrderInit`), and each of the program's
actions is one of three abstract steps or a stutter (`OrderStep`). The abstract guard, that the
dependencies of what succeeds are made, is `WorksOnMade`.

`TypeOK` needs more than types. The logs are dictionaries that `runOsCmd` appends to
(`d[k] += ...`), which keeps their type only if the key is there. `HasEntries` says
that it is while a command runs: the three entries have been reset, one after the other, before the first.

**CadreOutcome_proofs.** What does "made" mean at the end? `Progress` says of every moment
of `makeit` that each mandatory stage of the current package is in its success log or
still to come (`Due`), and that the only error so far is one that the code overlooks,
`checkout`. At the return nothing is due, which is `MadeMeansSucceeded`.
After a restart memory is what was saved, so the three logs on disk must agree too
(`DiskIsGood`, which follows `saveMakeLog` file by file). An interrupt that `saveMakeLog` does not
survive leaves a new status with old logs: the hypothesis `~StopsInSave` is needed,
the runs say so with the constant, and MCCadreCrash, where it is TRUE, does not check the two properties. A stop between the resets of
one package's entries is covered: `LogsAgree` says that no other package lacks one.
`SourcesInv` does the same for trees: past each stage the tree is as
far as the stage leaves it, or a build command that fails without sources is still
to come. For the retry loop `RoundInv` says that what is not made is in one of the
two lists or at hand (`Lists`), that what is in the list of failures was tried when it was
(`Failures`), and that a round with no progress so far has judged
the dependencies against the packages made now (`OnTime`). When the lists
show that a round made no progress, this is `DoneIsFixpoint`. It says of each package that
its dependencies are to blame or it is itself; that no failure reaches further than what depends on it
(`AllOthersAreMade`) takes the whole graph: of the unmade packages that need nothing
outside a set of which none failed by itself, the one with the least rank was left for a
dependency, which is another one with a lesser rank. Without the hypothesis that there is no
cycle this is false: two packages that need each other are never tried.

**CommsServer_proofs.** `AwakeInv`: a worker sleeps only if both queues are empty
or somebody else holds the right to poll, and the holder is not asleep since he is
somewhere in `doPoll` (`PcInv`); a client is put on a queue together with a signal.
`WakeInv`: besides `NoLostWakeup`, `dataPending` is right in every client
(`PendingOK`: set when there is something in the `outBox`, and only on a connection) and
the input thread has nobody in hand while it reads. Since a worker unmarks a client
only if `dataPending` is not set, looked at under the queues' mutex, and `queueMsg`
reports those in which it sets it, there is no gap. The steps that give a
client nothing to write (`Calms`) are treated by one lemma, `CalmStep`.

The queues: `QueueInv` adds the types of the queues, that there are at
least as many clients waiting as descriptors to look at (`Behind`, without which
`doPoll` would run off the list), and `OnceOnQueues`. Each of the five steps that
move a client is one lemma on top of three about sequences without repetition. `OffQueue` is needed
when the input thread puts a client on a queue, and what makes it
work is that all who are on a queue or in hand are marked. `PollKeepsPlaces`
follows: only `PollEvent` and `EndPoll` remove from `writeWaiting_`, they are steps of the
one worker with the right to poll, and that one is in `poll()`.
`EntryIsConnected` is inductive together with `WakeInv`: every reset either
retires the entry or is followed by a connection under the same lock.

**CommsStream_proofs.** First the rest of the types, with who holds the queues' mutex
(`HoldsInv`), what a worker has in hand while it sends (`HandInv`: the offset it read
before is still the client's, since nobody else moves it), and that the
pipe holds at most one byte per message received (`PipeInv`). Then the streams. `StreamInv`: a
connection, its descriptor and its client know each other (`NumberOK`, `FileOK`); the message a
worker is sending is the client's current one, if the client is still on that connection
(`MatchOK`); the `outBox` is in the order of arrival (`Rising`); and what has been sent is
older than all that is due, except for a part of a frame that the client or its worker knows of
(`FreshOK`). Hence `EachOnce` and `InOrder`, although pruning may change what is at the
front during a send; that pruning takes nothing else is by the least number that
`Pruned` may choose, and gives `DropsOnlyStale`.

These need that the descriptor a worker sends on is not another connection's by
then. It may be: `send` runs without a lock (`BasePeer.cc:338`), and the
model has that step. `NotReused` is the hypothesis, named as such: the three
theorems are about the runs of the program in which it holds. `NotReusedAlways` shows
that it always does for hosts that connect once (`Reconnects = FALSE`, as in MCCommsOrder)
or if only one connection is made (MCCommsLink): without a second
connection of its host nobody closes a client that a worker has in hand (`StayInv`), and without
a second connection at all nobody takes the number. `OnceInOrderAlways` puts them together.

`WholeFrames` has two hypotheses more than no reuse, both needed: no pruning (`~staleThresholdValid`; the
second outcome of finding 2) and no second connection, since
`bytesWrittenSoFar` survives a reset. `FrameInv`: the message at the front of the `outBox` is the current one,
the bytes on a connection are whole frames and then as many bytes as the client
has written of the front, or the worker is about to tell it (`PartOK`). MCCommsLink, which checks it, is such an instance.

**CommsRelay_proofs.** Two results about the way of a message. `ServerIsRelay`: every step of the server is a
step of MessageRelay or a stutter, if no step sends on a number that was used again
(`NotReused`); `ImplementsRelayAlways` replaces this, as above, by the two kinds of instance where it holds.
`StreamInv` is about the connection a client has; the abstract order is about all it ever
had, so `RelayInv` adds that what was sent on earlier connections is older than
what is due (`PastOK`), that nothing is due without a connection (`IdleOK`), and that without
pruning the current message is the front of the `outBox` (`HeadOK`), so that setting it
discards nothing. The steps fall into four kinds: those in which nothing is accepted or delivered and what is due stays (`Quiet`) or shrinks (`Loses`),
those that accept (`Accepts`), and those that send (`Hands`); each is mapped by one lemma.

`RelaysWhatWasSentAlways` is about the composition with the other end. The invariants above hold of it
because a step of the reader leaves the server alone, unless it resets a connection whose header is not
one; that this never happens (`ReaderUnnoticed`: every run of CommsLink is one of CommsServer) and what is relayed
are proved in one induction, under the hypotheses of `WholeFrames`. `LinkInv`: what has been relayed, and
what is in the buffer, is the stream cut into frames up to the last byte taken (`Made`). It is
kept by the reader since a stream consists of whole frames (`OneMessage`, from `FrameInv`), and
by the server since a stream only grows at its end (`NextGrows`).

**UdpDiscovery_proofs.** `SubscriptionsAgree` speaks of the moments between
broadcasts and is not inductive. `Difference` says it of all moments: what the remote peer
has for the host at work is what the map has, without the calls to subscribe and with the calls to
unsubscribe that are still to be made. `Merging` is the loop invariant of the
merge: outside `todo` and `rest` the map has the channels of the list and no others, and
a channel of the list that has an entry is not passed by the iterator of the map before
it is reached, which is where the order of channels is used. `MergeIsExact` is what
remains of it when both lists have ended.

**UnixClient_proofs.** `Threads` says where the receiver is for each place of the program;
`OneReceiver` is its part about the socket, and `TypeOK` rests on it too. `OneChannelIsSignalled`: the
receiver fills the queue before it signals, and `receiveMsg` unsets the condition only when it has
taken the last message, under the mutex of the queue.

The buffers: the list and the map of buffers agree, with the message in hand
and those of damaged messages (`offList`) as the exceptions; what is pruned is a prefix of the list. `WholeMessages` needs the
way of a page: it is published once, and is in one place of the `outBox`, the socket, the receiver's
hands, a buffer or a queue (`PagesTravelOnce`, `BuffersHoldOnce`). So a buffer with as
many pages as the message has them all, and a queue holds a message once.

**UnixConnect_proofs.** Why may `connect` trust its echo, if no connect has given up? `KInv`:
the notice of this attempt, or its echo, is in exactly one place of a chain from the server's
socket over its `outBox`, the client's socket and the receiver to the
condition (`Chain`); behind the notice there is no older request (`NoticeIsLast`); once it has
been taken the server has the client at the open socket (`ServerHasClient`). A failure of the server to connect
breaks the chain, and then there is no echo.

`SubscriptionsSurvive` speaks of moments at rest, `SInv` of all: for every channel that is not in `unsent` the last
request on its way (`Asked`: in the server's socket, or in the program's hand), or without one the server's set, says whether the client wants it
(`RequestsSayIt`, `Agree`); a channel that `connect` has still to come to counts as not wanted yet.
A failed connection empties both sides: sockets are numbered in order, so a request of an
older one is never taken for the newest (`SocketsInOrder`); nothing is acknowledged when `connect` comes to the
channels (`NoneAcknowledged`), so that it asks for all; and the server's new entry starts empty (`NewEntryIsEmpty`). A request
that fails puts its channel in `unsent`, and the next one that is sent, or the next connection, takes it out.

**Only model-checked**: liveness (`Ends`, `Arrives`, `Converges`, `CallsReturn`), since temporal
reasoning under fairness and `ENABLED` are out of the prover's reach; and `AllThatCanBeIsMade` and
`RoundsFollowLevels`, which are about the repository's own 36 configurations and about packages that fail
every time, an instance and not a parameter: the levels of a graph are a recursive definition. `AllOthersAreMade`
is what holds of the first for every graph; it follows from `DoneIsFixpoint`, which `install` checks, and has no run of its own.

## 6. Not modelled

- Server: statistics, thread creation failures in `start`, the poll for input (a step
  that receives a message). `UdpPeer` is BasePeer without partial writes; no run checks it.
- UnixClient: sending data (a loop of `send`, and the race on `rollingMessageID_`), a header with a
  wrong checksum (it is looked at for ever, 646, 779-782) and duplicate fragments, what the statistics say (they only take
  their place in the server's socket), the race of an echo with `unsubscribe` (802-806, 412), a server that
  restarts, a program that calls from several threads. Of what may follow when an entry is erased twice the
  model has two outcomes, none and the end of the process. One client of its
  server: clients share nothing but the map of channels, and the room in the server's socket.
- CommsLink: once a `recv` has failed, the code may call `recv` once more before
  `handleErrors` resets the connection (`TcpPeer.cc:226-294`).
- UnixPeer: sends that block because a local client does not read.
- UdpDiscovery: `initialize`, `terminate`, and a socket error, which ends the agent; the
  agent has one remote peering method, and the lists of one local one (those of several follow each other
  unsorted), of less than 999 channels (336-339). A connection that loses its entry to another
  client's reset (`BasePeer.cc:714`) keeps its subscriptions in the code (720-742); here both go.
- Installer: a patch file that is not there is skipped (`DeployFunc.py:200, 263`); the two
  that configurations name are in the repository.
- UnixClient and UdpDiscovery each have the part of BasePeer they call, in the form in which they see it; they
  are not composed with CommsServer, which would multiply the state spaces and
  relates through those few operations only.
- `ConfigFunc.py`, `ServerMain.cc`, `ClientMain.cc`, `NetworkIntfUtils.cc`: output
  and arguments without state. Message layouts and checksums: data. `~/.bashrc`:
  lines that are only appended.
- The sources of the other offline packages (two copies of CMU IPC, bayes++ with its build
  tools, and archives): third-party code that the installer unpacks and builds,
  and by lines nearly all of what is in the repository. The models are of the
  repository's own programs, the installer and SimpleComms, and cover most of their stateful code.
- A send on a descriptor number that was closed and reused *is* in the model (its
  bytes go to the other connection, `files`), but no text in the repository says
  what should happen, so no property is about it. `WholeFrames` and
  `ImplementsRelay` are therefore checked for hosts that connect once, and theorems about
  streams have `NotReused` as a hypothesis (section 5).

## 7. Plan

Done: installer, server, link, discovery, client. What would add most next:

1. **UnixClient**: sending data with two threads at `rollingMessageID_`; a server that restarts;
   headers with a wrong checksum.
2. **UnixPeer**: several local clients, one of which does not read, with the workers of CommsServer.
3. **UdpPeer** as an instance of CommsServer with `supportsPartialWrites = FALSE`.
4. **`~/.bashrc`**: the lines appended, and the path that is None at the second import.
5. **Proofs**: `DropsOnlyStale` for a client that reconnects without `NotReused`, which it may not need;
   `RelaysWhatWasSent` with pruning, for streams on which no offset survives a message.

New runs take the place of those that show least, so that the suite stays small
enough to be run after every change.
