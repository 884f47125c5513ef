# Verification of rosgo

TLA+ modules, TLC configurations and TLAPS proofs about `src/ros`, the Go client
library for ROS: subscriptions, publishers, services, the node that owns them,
messages whose type is loaded at run time, and the clock arithmetic. Paths below
are relative to the repository; line numbers refer to `src/ros/` unless another
directory is given.

1. [The system](#1-the-system)
2. [Modules](#2-modules)
3. [Runs](#3-runs)
4. [Fairness, bounds, abstractions](#4-fairness-bounds-abstractions)
5. [Proofs](#5-proofs)
6. [What the code does otherwise than it says](#6-what-the-code-does-otherwise-than-it-says)
7. [Not modelled](#7-not-modelled)
8. [Plan](#8-plan)

## 1. The system

A `defaultNode` (`node.go`) talks to the ROS master over XML-RPC, answers the
master and other nodes through a slave API of its own, and owns the topics and
services the application opened. Each of those runs in goroutines of its own,
and all callbacks of the application run in the goroutine that calls `Spin`.

```
 master ──XML-RPC──► slave API goroutine ─publisherUpdate─► pubListChan ─┐
                                                                         ▼
 remote publisher ══TCPROS══► reader goroutine ─msgChan─────► subscriber loop ─jobChan─► Spin
                              ◄──────── quit channel ───────────────┘                    ▲
                              ─disconnectedChan──►                                       │
 Publish ─msgChan─► publisher loop ─session.msgChan─► session goroutine ══TCPROS══►      │
 accept  ─sessionChan─►   ▲ │                           ◄─quitChan─                      │
                          └─┼─────── sessionErrorChan ──────┘                            │
 service client ══TCP══► service session ──────────────── jobChan ───────────────────────┘
                         service loop ◄─sessionCloseChan─   ◄─responseChan/errorChan─
```

| Component | State | Operations | Hard behaviour | What makes it correct |
|---|---|---|---|---|
| **Topic subscription** `subscriber.go` | publisher list, record of readers and their quit channels, callbacks, four channels | list update, requestTopic, reader start/stop, read, deliver, requeue to `jobChan`, shutdown | reader, loop and callers interleave; a publisher leaves and comes back; messages dropped at three places; sends under `select` with time-outs | no reader without a record or a quit token; records mirror the list; messages in order; shutdown ends |
| **Topic publisher** `publisher.go` | session list, per-session channel and queue, listener | accept, handshake, fan-out, queue with drop-oldest, writes with deadline, callbacks, shutdown | unbuffered quit channels, fan-out that waits, sessions ending in any phase | list tracks sessions; unbroken tail of messages; progress of fan-out and of the shutdown |
| **Service server and client** `service_server.go`, `service_client.go` | session list, job in the spinning goroutine, deadlines on both sides | accept, header, request, job, result, close, shutdown; call | 1 s against 10 ms time-outs, unbuffered result channels, a nil quit channel | success implies handled exactly once; list tracks sessions; spinning and shutdown progress |
| **Time arithmetic** `temporal.go`, `time.go`, `duration.go` | two `uint32` | normalise, Add, Sub, Diff, Cmp, conversions | truncating division, borrow, boundary at one second, panic out of range | exact wherever it does not panic |
| **Rate** `rate.go` | start, expected and actual cycle time | Sleep, Reset, CycleTime | the wall clock is stepped back; boundary at one second | no panic on a steady clock; period kept; sleep bounded |
| **Node, slave API, registration** `node.go`, `master.go` | publishers, subscribers, services, resolver | New*/Remove*, publisherUpdate, requestTopic, getters | maps shared by goroutines without a common lock; registration before storage; asynchronous unregistration | one registration per stored entry; a list is never overtaken by an older one |
| **Node shutdown** `node.go`, `xmlrpc/xmlrpc.go` | `okMutex`, WaitGroups, interrupt channel | Shutdown, WaitForShutdown, Spin, signal handler | WaitGroup entered from inside the goroutine; handlers blocked on channels of loops that ended | shutdown ends, in order |
| **TCPROS header** `header.go` | – | encode, decode | truncated input | decode inverts encode |
| **Names** `name.go` | mapping | canonicalise, resolve, remap | colliding remappings are applied in map order | resolution is idempotent on canonical names |
| **Message definitions** `libgengo/*` | registry of specifications | load, MD5 | recursion over definitions, swallowed errors | MD5 depends on every nested definition |
| **Dynamic messages** `dynamic_message.go` | global context, a type's specification, a message's data map | load a type, make, write, read, JSON both ways, schema | definitions replaced under loaded types; errors dropped half-way through a message; partial updates | what is sent is what arrives if the sums are equal; a cut message is noticed; JSON keeps values and types |
| **Generator**, **actions**, **command line** | – | templates, nothing (empty files), parsing | – | – |

The properties of each component come from the list of hazards in
`PROJECT.json`; every entry names the line where it bites and the property that
covers it, or says why none does.

## 2. Modules

| Module | Extends | Contents |
|---|---|---|
| `Subscriber` | – | one subscription: the loop, the reader goroutines, the callers |
| `MCSubscriber` | `Subscriber` | symmetry of publishers and readers |
| `SubscriberProofs` | `Subscriber`, `Channels` | two inductive invariants, eleven theorems |
| `Publisher` | – | one advertised topic: the loop, the accepting goroutine, the sessions, the callers |
| `MCPublisher` | `Publisher` | symmetry of sessions |
| `PublisherProofs` | `Publisher`, `Channels` | inductive invariants, eight theorems |
| `Service` | – | one service: the loop, sessions, the spinning goroutine, the clients |
| `MCService` | `Service` | symmetry of calls |
| `ServiceProofs` | `Service`, `Channels` | inductive invariants, nine theorems |
| `LossyFifo` | – | what a topic promises of a stretch of a message's way: the abstract specification of `Subscriber` and `Publisher` |
| `LossyFifoProofs` | `LossyFifo` | what follows for those at both ends of a feed, two theorems |
| `Topic` | – | a publisher's session, its TCP connection and a subscription, one after another |
| `TopicProofs` | `Topic` | the whole way is a `LossyFifo` again, two theorems |
| `Channels` | – | lemmas about sequences as Go channels and lists |
| `Names` | – | pure operators: canonical names, qualification, resolution, remapping |
| `Node` | `Names` | the node: registration, tables, slave API, loops' life cycle, shutdown, and the master it talks to |
| `MCNode` | `Node` | names and remappings of the runs |
| `NodeLoop` | – | what a node relies on of a loop goroutine: the abstract specification of the loops of `Subscriber`, `Publisher`, `Service` and `Node` |
| `NodeProofs` | `Node`, `Channels` | inductive invariant, twelve theorems |
| `MsgContext` | – | pure operators: message definitions, their fields and MD5 texts |
| `DynamicMessage` | `MsgContext` | pure operators: new messages, writing, reading, JSON, schema |
| `Messages` | `DynamicMessage` | a program that loads types, fills messages from JSON, publishes and receives them |
| `MCMessages` | `Messages` | five variants of a package, eighteen documents |
| `Temporal` | – | pure operators: normalisation and the operations on it |
| `Rate` | `Temporal` | a rate loop and the wall clock it reads |
| `RateProofs` | `Rate` | what the operators of `Temporal` return, for all values; two inductive invariants; eleven theorems |

In every module, operators named `Bug_…` are plausible mistakes in the
definition that follows them. They are not part of the specification; each one
makes a checked property fail, which shows that the property depends on that
definition.

### Subscriber

`pc` is the place of `defaultSubscriber.start` (50–147): its `select`, the
update loops (60–100), the enqueueing of a job (104–129), the unregistration
(140). `cpc[c]` is the place of a reader in `startRemotePublisherConn`
(149–279). A reader has an identity in `Conn`, which is also the identity of its
quit channel, so `connections` maps a publisher to the reader started for it
last.

| Action | Code |
|---|---|
| `LoopPubList`, `LoopQuitDead`, `LoopRequest`, `LoopUpdated` | the `pubListChan` case; each send and each requestTopic is a step |
| `RequestPanics` | an answer that is a success but not a list of the expected form: the assertions and the indexing of 78–85 panic, and the process ends (`crashed`) |
| `LoopMsg`, `LoopEnqueue`, `LoopEnqueueTimeout` | the `msgChan` case with its 3 s time-out |
| `LoopDisconnected`, `LoopShutdown`, `LoopUnregister` | the other cases |
| `Dial`, `Handshake`, `ReadSize`, `ReadBody`, `Deliver`, `DropHeld`, `Notify` | the reader |
| `publisherUpdate`, `AppendLength`, `AppendElement`, `Shutdown`, `SpinOnce` | the callers in `node.go` and the user's goroutine |

Four details of the code decide the shape of the model.

* `LoopQuitDead` has no step for a publisher without a record: a send on the nil
  channel the map returns never completes.
* The loop itself calls `requestTopic` and `unregisterSubscriber`, over HTTP
  without a time-out (`xmlrpc/xmlrpc.go:489`). `LoopAnswered` sets these steps
  apart from `LoopOwnStep`: they may never come.
* A reader reports `host:port` when it loses its connection, while records are
  kept by API URI. `TcpUri` keeps the two apart, so `Forget` of a notice forgets
  nothing. The assumption `KeysAssumption` states that the forms never coincide.
* `sub.callbacks` is appended to without a lock from the user's goroutine
  (`node.go:510`). This is a data race; the two halves of the append are two
  actions, and a job bound between them is not `whole` and cannot be run.

### Publisher

`pc` is the place of `defaultPublisher.start` (63–116), `lpc` that of
`listenRemoteSubscriber`, `spc[s]` that of `remoteSubscriberSession.start`
(214–339). `rest` is what remains of the loop over `pub.sessions`, both in the
fan-out and in the shutdown. A session's quit channel has no buffer:
`LoopQuit` is a rendezvous and requires the session to be at its `select`.
`Post` and `Disconnect` are the two deferred statements, in the order
they run. The connect callback runs in a goroutine of its own: `SinglePublish`
and `ConnectReturns` may happen at any time after the header.

### Service

`pc` is the place of `defaultServiceServer.start`; its loop alternates an
`Accept` of at most 1 ms and a `select` of at most 1 ms. `spc[c]` is the place
of `remoteClientSession.start`, `cpc[c]` that of `defaultServiceClient.Call`.
The job a session enqueues runs in the goroutine that calls `Spin`:
`spin` is the call it serves and `stage` how far it is. `SpinSend` is a
rendezvous with a session still at its `select`. The header exchange of the client
and the server is one step on each side. A client that gave up does not close
its connection, so a request it wrote stays readable (`"late"`).

### LossyFifo: what a topic promises

`LossyFifo` is a family of feeds. A message is offered to a feed, waits in
transit, and is taken or lost; the oldest in transit is taken first. What is in
transit is a set, as the numbers of the messages already say in which order they
were offered. Both halves of a topic implement it, checked as `DeliversFeed` (a
property of the two live runs, by `INSTANCE … WITH`) and proved for all
instances:

| | `Publisher`, one feed per session | `Subscriber`, one feed per reader |
|---|---|---|
| offered | messages the loop has come to fan out to that session | messages read off the connection |
| transit | the session's channel and queue | what the reader holds, `msgChan`, the loop's job, `jobChan` |
| taken | last message written to the socket | last message handed to the callbacks |

`Skip` stands for messages that pass by a session that is not listed yet or any
more. Messages a connect callback sends to one subscriber are not messages of
the topic; they are in the session's queue, and in no feed.

`Topic` joins the halves. Between them is a TCP connection, external, which
keeps order and repeats nothing: a third `LossyFifo`. `Write` and `Read` are the
steps in which a message leaves one stretch and enters the next. `TopicProofs`
shows that the three in a row are one `LossyFifo` per connection whose
transit is the union of theirs: callbacks see the messages of one session in
the order of publication and once each. `Topic` speaks of a message by the
publisher's number where `Subscriber` counts what it reads; the two
numberings have the same order, which is all a `LossyFifo` looks at. `Topic` is
built of abstract specifications and needs numbers without bound, so it is
proved and has no run.

### NodeLoop: what a node relies on

`NodeLoop` is a loop goroutine seen from its node: it takes lists of publishers
in the order they were sent, and tokens to end; it takes one token, nothing after
it, withdraws its registration and ends. It ends untold only when its
listener fails. Tokens may be sent to it at any time, also after it ended, until
the channel is full. Four modules implement it, checked as `RunsAsLoop` and
`LoopsRunAsLoops` and proved for all instances:

| `NodeLoop` | `Subscriber` | `Publisher`, `Service` | `Node`, each loop |
|---|---|---|---|
| running | `select`, an update, a job | `select`, fan-out, an accept | started or not yet |
| stopping | unregistration | quitting sessions, unregistration | unregistration |
| lists, seen | `pubListChan`, `pubList` | none | `lists`, `seen` |
| tokens | `shutdownChan` | `shutdownChan` | `tokens` |
| may fail | never | the listener | publishers and services, by `MayFail` |

`NodeLoop` is the interface between `Node` and the three: the loops spelled out
do nothing it does not allow, and `Node` does nothing to a loop, nor lets it do
anything, that it does not allow. The guards of `Node`'s `LoopList`,
`LoopToken`, `LoopEnd` and `LoopGone` are those of `Receive`, `Stop`, `End` and
`Fail` (but for subscriptions, which have no listener to fail), so that no step
of a `NodeLoop` is missing there once the goroutine has started. That a loop
which is told does end is liveness, and is not part of `NodeLoop`:
`ShutdownTerminates` and the two `ShutdownProgress` say when it does, and `Node`
assumes nothing of the kind.

### Node

`upc` is the place of the user goroutine, which runs all of `NewPublisher`,
`NewSubscriber`, `NewServiceServer`, the Remove calls, `Spin` and `Shutdown`;
`lpc[l]` that of the loop goroutine `l` (a subscription's, a publisher's or a
service server's), `hpc` that of the goroutine serving a `publisherUpdate`. What
a loop does between its start and its end is the business of `Subscriber`,
`Publisher` and `Service`; `Node` keeps its two channels, and what it may do
when told (`NodeLoop`). It need not do it: findings 1 and 2,
`service_server.go:134` and a call nobody answers keep loops from ending, and
`ShutdownReturns` says what comes of it.

A token is a send to a channel of capacity 10 that waits while the channel is
full, in the middle of a call. `BeginTelling` brings the user goroutine to the
place of the sends with the loops it has still to tell (`telling`), and
`SendToken` is one send: until there is room, the goroutine stays at `closing`,
`removing`, `replacing` or `telling` and makes no other call. `Shutdown` clears
`node.ok` first and then tells all loops that have an entry, one after another,
subscriptions before publishers before services (`Before`), each kind in any
order; `AfterTelling` is where a call goes on.

| Action | Code |
|---|---|
| `Start`, `NewSubscriber`, `Store`, `SendFirstList` | `newDefaultNode`; `NewSubscriber` in its three steps: register, store and `go`, send the list |
| `NewPublisher`, `NewPublisherWithCallbacks`, `Store` | register, then store; `Published` is the lookup by the name as passed (413) |
| `NewServiceServer`, `Serve`, `RemoveSubscriber`, `RemovePublisher`, `Delete`, `Close` | replacement (tell the old server, then register) and removal (tell, then delete); `Close` is the object's own `Shutdown`, which leaves the table alone |
| `SendToken` | `shutdownChan <- struct{}{}` of each of these and of `Shutdown` |
| `Spin`, `SpinReturns`, `Shutdown`, `Waited`, `Drained`, `Interrupt` | `node.ok`, both WaitGroups, the signal handler and the slave API's `shutdown` |
| `LoopStart`, `LoopList`, `LoopToken`, `LoopEnd`, `LoopGone` | `wg.Add` in the goroutine, a list, a token, unregistration and `wg.Done`, a listener's failure |
| `publisherUpdate`, `SendUpdate`, `requestTopic`, `MapRace` | the slave API; the unlocked map read |
| `MasterUpdates`, `Unregister`, `Change` | the master, external: it tells each node of the newest list, one call at a time, and takes a service away only from the address that registered it |

A list of publishers is the number of the change at the master that made it, so
that "newest" can be said. `Register` has the three outcomes of a call: done,
failed, and failed after the master had done it (`Ghost`). `Names` resolves
every name as `name.go` does (`canonicalizeName` is the loop over the words, as
a recursive function). `NamesAssumption` says that the node has a name:
`qualifyNodeName` refuses an empty one, and panics on one that is all
separators. The names the user may pass are any set of names; the node of the
runs is `/ns/rosgo`, started with two remappings that exchange `chatter` and
`/other`. A remapping's result is remapped again by `NewPublisher` calling
`NewPublisherWithCallbacks`.

### MsgContext, DynamicMessage and Messages

A text of a definition is a sequence of field lines; a context is what the
package path in force holds. `sum` is the text that is hashed in place of its MD5,
that is, the hash is taken to be injective. A Go value carries its Go type, a
stream is a sequence of such values, and a JSON value its kind. The operators
follow the code branch by branch; where it drops an error, so do they:

* `WriteItem`, `WriteArray`: a value of the wrong Go type is an error after part
  of the message has been written; a nil message and a fixed array that is too
  short panic.
* `ReadElement` against `Read`: only scalars notice the end of the stream (1153,
  1302).
* `ArrayElement`, `StringField`, `NumberField`, `TimeOf`: the JSON callbacks,
  with `UnmarshalJSON` storing key by key.
* `NewMessage`: the data follows the definition found *now* under the type's name.

`Messages` is a program of one publisher and one subscriber. It may move the
package path between any two calls; types loaded before stay as they are. `Edit`
is `UnmarshalJSON` of a document, `Publish` drops `Serialize`'s error, `Receive`
is the job of `subscriber.go:111`. The two sides connect if their sums are equal.
A panic ends the program. A read of bytes written as another type is "garbled"
and not followed further.

### Temporal and Rate

`normalizeTemporal` is translated literally, with Go's truncating `/` and `%`
(`Quo`, `Rem`) and with its `nsec > 1000000000`, which lets a nanosecond part of
exactly one second through. `Giga` and `MaxUint32` are constants, so that TLC
can use a second of four nanoseconds while the proofs cover the real values.
`Rate` adds the wall clock: `Tick` advances it and the sleep in progress,
`StepBack` sets it back. `stepped` is a history variable.

## 3. Runs

| Run | Instance | Properties | Shows |
|---|---|---|---|
| `subscriber_safety` | 2 publishers, 2 readers, 3 updates, 2 callbacks, one message, every requestTopic outcome, symmetry | `TypeOK` `NoOrphanReader` `ToldOnce` `RunsAsLoop` | a publisher can leave, come back and leave again while readers, records and tokens stay consistent; to its node the subscription is a `NodeLoop` |
| `subscriber_live` | 1 publisher, 2 readers, 3 updates, 2 messages, channels of 2; a request is answered with TCPROS, with a malformed list, or never | `InOrder` `RecordsMirrorList` `ShutdownTerminates` `ToldReaderStops` `DeliversFeed` | the subscription is a `LossyFifo`; order through every channel and drop; the records are *exactly* the list; shutdown ends the loop but for an unanswered call; readers told to quit end |
| `subscriber_nil_quit` | 1 publisher whose requestTopic may fail | `ShutdownTerminates` – **violated** | finding 1 |
| `publisher_safety` | 2 sessions, 3 messages, queue of 2, every failure, symmetry | `TypeOK` `SessionsTracked` `UnbrokenTail` `RunsAsLoop` | the list follows the sessions; each has the newest messages without gap; to its node the publisher is a `NodeLoop` |
| `publisher_live` | 2 sessions, 3 messages, all capacities 1, writes may fail, no connect callback | `FanProgress` `ShutdownProgress` `DisconnectRuns` `DeliversFeed` | a topic is a `LossyFifo` for each session; progress, with the exceptions named by `Blocked` and `AwaitsMaster`; an ended session's callback runs unless its notice is stuck for good (`NoticeStuck`) |
| `publisher_cleared` | 1 session | `SessionsCleared` – **violated** | finding 2 |
| `service` | 2 calls, `jobChan` of 1, every failure and time-out on both sides | `TypeOK` `SuccessMeansHandled` `RefusalMeansReported` `SessionsTracked` `SpinProgress` `ShutdownProgress` `RunsAsLoop` | what a client may conclude from a result; when spinning and shutdown progress; to its node the server is a `NodeLoop` |
| `node` | 2 loops, 3 calls, channels of 1, 2 changes at the master, crossed remappings, failing calls and listeners; three programs: subscribe and close; the two ways to advertise; serve, close and spin | `TypeOK` `FreshList` `OrphansAreMisKeyed` `RefusedOnlyInGap` `NothingLeft` `ShutdownReturns` `LoopsRunAsLoops` | a subscription at rest has the newest list or one that was on its way when it registered; a node turns a subscriber away only while the publisher comes or goes; what is left at the master after a shutdown; when the shutdown returns, counted from its first send; each loop is a `NodeLoop` |
| `node_orphan` | the same without remapping, only publishers, nothing fails | `NoOrphanLoop` – **violated** | finding 3 |
| `messages` | one type with a field of each kind, 5 package paths, 18 documents, 2 changes of the path, 2 edits | `TypeOK` `JSONRoundTrip` `JSONFollowsSchema` `ReceivedAsSent` `CutIsNoticed` `SchemaKeepsTypes` | what equal sums are enough for, which messages written in part are noticed, what JSON keeps |
| `rate` | a second of 4 ns, periods 0, 3, 6, 8, 9, a clock up to 14 | `TypeOK` `PanicsOnlyOnStep` `KeepsPeriod` | a rate loop with a clock that is stepped back |
| `rate_one_second` | period of exactly one second | `PanicsOnlyOnStep` – **violated** | finding 4 |

The bounds and why they are enough:

* *Channels.* The code's capacities are 10 and 100. With 1 or 2 every channel is
  full, empty and in between in the same run, and whoever waits for room does
  wait.
* *Updates.* Three list updates are the shortest sequence in which a publisher
  joins, leaves and rejoins; two readers are what that needs. `Conn` is never
  reused, so a run ends its interesting part when readers run out;
  `subscriber_live` has as many readers as three updates of one publisher can
  start.
* *Messages.* Three published messages with a queue of two force a drop of the
  oldest. Two per reader force an order.
* *Sessions and calls.* Two, so that one can end, be blocked or time out while
  the loop serves the other. In the publisher's liveness run two sessions with
  channels of one are what it takes for one session's notice to fill
  `sessionErrorChan` and the other's to find no room. That run leaves out the
  connect callback and failures of the listener and the headers: they are in
  `publisher_safety`, and a listener or a header that fails takes the loop or
  the session to places the run has anyway.
* *Notices of readers.* `subscriber_live` has room for the notices of both its
  readers, so the part "for the loop to take its notice" of `ToldReaderStops` is
  not met there; `LeftBehindForGood` proves that it is real.
* *Node.* Two loops are what it takes to replace, orphan or overtake one; the
  third call removes or closes. Programs are kept apart because the kinds share
  no state but the WaitGroup and the shutdown; each shares them with itself.
  With channels of one, two calls of `Close`, or one after the loop has ended,
  fill a `shutdownChan`, so that a call and `Shutdown` get stuck in their sends;
  dropping any one of the cases of `Held` makes the run find `ShutdownReturns`
  violated. Every name passed in this run is remapped, so `OrphansAreMisKeyed`
  says here that orphans are publishers; that no other name gets an orphan is
  `OrphansReplaced`, for all names. A change of publishers is counted only while
  a subscription or a request could notice it.
* *Messages.* The type has a nested message, a header with a time, a text,
  bytes, a float, a 64-bit field and array, and fixed bool arrays outside and
  inside the nested one. Its variants take the nested type from another package,
  make it an array, make a fixed array dynamic, and leave the nested type out.
  Two changes of the path are enough to load both sides from different places
  and use them in a third. Integers have 3, 5, 8 and 12 bits in place of 8, 16,
  32 and 64, in the same order, so that the documents' numbers wrap.
  `BitsAssumption` states the order.
* *Clock.* A second of four nanoseconds gives periods below one second, above
  one, exactly two (8) and none. The clock has room for two cycles.
* *Shutdown.* At most one token is pending at a time; the loop reads only one.

All configurations say `CHECK_DEADLOCK FALSE`: after a shutdown, a panic or with
the bounds exhausted the system really stops. A loop that stops when it
should not is what the liveness properties look for.

Symmetry is used in the safety runs only. `publisher_live` has an action
constraint in its place: the first connection gets the first identity, so the runs
left out are those with the identities exchanged, and no fairness condition is
about the constrained action. The one `CHOOSE` over a symmetric set,
the initial `cpub` of readers never started, is not read before it is assigned.

## 4. Fairness, bounds, abstractions

*Fairness.* Goroutines are scheduled, so each loop and each goroutine has weak
fairness for what it can do by itself or under a deadline of its own. Go's
`select` picks uniformly among ready cases: a case that is ready again and again
is taken, hence strong fairness for the shutdown cases, for a session's
`<-session.msgChan` and quit, and for a service loop's close events. What a peer
must do has no fairness unless a deadline bounds it: no fairness for TCPROS
headers (neither side sets a deadline before them), for the answer to a call to
a publisher or the master (`xmlrpc/xmlrpc.go:489` has no time-out), for `Spin`
in `Subscriber`, or for any caller. So `LoopRequest` and `LoopUnregister` may
never happen, and the properties say so: `AwaitsAnswer` in `Subscriber`,
`AwaitsMaster` in `Publisher`, `pc = "unregister"` in `Service`. `Service`
assumes that the application keeps spinning and that its handler returns; both
are the application's obligations and are used by `SpinProgress` only. `Node`
needs only that the user goroutine inside a call, a request's goroutine or a
loop that has not started goes on if one of them can (one weak fairness
condition over all of them, enough as every call and change is bounded). Nothing
is assumed of a loop once it has started: it may be blocked for good, or wait
for the master. Neither the user nor the master has to do anything.

*Abstractions.* Payloads and header contents are left out; a message is its
number. A read that times out is a step of the reader that leaves its place
unchanged; that it may split a size (hazard at `subscriber.go:235`) needs the
stream's bytes. `addCallbackChan` of the subscriber is left out because nothing
sends on it. A master's answer is a value or an error. `lookupService` and
`Dial` succeed or the call returns an error before anything happened. In `Node`,
`ROS_NAMESPACE` and `__ns` are not set, and the map that `newNameResolver`
ranges over without order gives every mapping it can give (`resolvedMappings`).
In `Messages`, files do not change while their directory is the path,
definitions are not cyclic (`LoadMsg` would recurse for ever), constants are
left out, a text is kept but for its length, floats are never rounded, and one
goroutine uses the context. Floating point conversions are left out.

## 5. Proofs

All obligations are proved by TLAPS with Z3, Zenon and LS4, for every value of
the constants: any number of publishers, readers, sessions and calls, any
capacity, any program of the node's user, any names and remappings. The
assumptions are the `ASSUME`s of the modules, which TLC evaluates in the runs:
publishers' URIs and `host:port` never coincide, the "none" values are no
members of their sets, capacities are positive, a node has a name.

Every invariant the passing runs check is stated by a theorem, except those of
`Messages`, and so is every safety property of steps. For each, the property
alone is not inductive; what has to be added is the argument.

**Subscriber** (`SubscriberProofs`): `TypeCorrect`, `NoOrphans`,
`RecordsMirror`, `QuitOnce`. `NoOrphanReader` is not inductive: telling the
reader of a dead publisher is safe only if the record names a reader started for
that publisher, and starting a new one only if the old record is gone. `IndInv`
adds

* `ListsOK` – dead publishers are off the list, fresh ones on it;
* `RecordsOK` – records lie between "listed, not fresh" and "plus the dead ones";
* `OwnersOK` – a record names a reader of its publisher that has not been told
  to quit as long as the loop runs;
* `UnusedOK`, `JobOK`, `ReadOK` – readers not started have no token, and the
  numbers in transit are in range.

There is one lemma per action, `StepInd` combines them, and the theorems follow
from `Invariance`. `TypeCorrect` includes that a quit channel holds one token at
most, so the loop never waits in a send to an existing reader.

`MessagesInOrder`, `ImplementsFeed`, `HandedOnOnce`. `InOrder` says that
`jobChan`, the loop's job and `msgChan` in a row (`Pipeline`) are in order. A
reader that delivers keeps them so only if nothing in the row is as new as what
it holds: `Ordered` adds that everything on its way was read, and is older than
what its reader holds. The lemmas then describe each step as a change of the
row: an element moves within it, one is appended, one is dropped, the first is
taken. Each of these is a step of the feed of that connection, or none.

`QuitSendsAtOnce`, `NilSendNeverEnds`, `LeftBehindForGood`. The liveness
properties have exceptions; these theorems say that there is no other place
where telling a reader waits, and that the exceptions last. From `IndInv`:
wherever the loop sends a quit token, the channel exists, is open and has room,
unless the publisher's requestTopic had failed. The send on a nil channel
(finding 1), once begun, is never left, whatever readers and callers do. A
reader whose notice finds no room after the loop has ended stays where it is,
told to quit or not: the exception in `ToldReaderStops`.

**Publisher** (`PublisherProofs`): `TypeCorrect`, `SessionsListed`,
`LostAtOldEnd`, `ImplementsFeed`, `WrittenOnce`.

* `Types` adds to `TypeOK` that a session that writes has something to write.
* `Tracks`, for `SessionsTracked`: the list, the loop's rest of it and the two
  channels of sessions have no duplicates; a session in `sessionChan`, or in the
  hands of the accepting goroutine, has not started; one in `sessionErrorChan`
  has ended. So adding never duplicates, and removing on a notice never removes
  a live session.
* `Numbers` and `AllKept`, for `UnbrokenTail`: `msgChan` holds exactly the
  numbers after the loop's, and each backlog (queue and channel) is an unbroken
  stretch that ends with the last message sent to it. For sessions no longer
  listed only the order remains (`Kept`), and that is what the refinement needs
  of them. A backlog changes at its ends only: append, drop the oldest, move
  from the channel to the queue. One lemma each says that it stays `Kept` and
  `Unbroken`.

`SendToEndedNeverEnds`, `CallbackNeverRuns`. A loop that sends to a session that
has ended – a message for which its channel has no room, or the token to quit –
does so for good: finding 2 has no way out, and neither has `Blocked` in
`FanProgress` and `ShutdownProgress` where the session has ended. A session
whose notice finds no room then, or after the loop has gone, never has its
disconnect callback called: the exception `NoticeStuck` in `DisconnectRuns`.

**Topic** (`LossyFifoProofs`, `TopicProofs`): `HoldsBetween` and
`FeedsOnceInOrder` for every `LossyFifo`, by the invariant that everything in
transit lies between what was taken and what was offered. The theorems of
`Subscriber`, `Publisher` and `Topic` about order are instances.
`Topic!ImplementsFeed` uses it three times: no stretch holds anything as old as
what the stretch behind it holds, so the oldest message of the last stretch is
the oldest of all.

**Service** (`ServiceProofs`): `TypeCorrect`, `SessionsListed`,
`SuccessIsHandled`, `RefusalIsReported`. That a handler runs once is part of
`TypeOK` and needs `Jobs`: a call is in `jobChan` once at most, and not while
the spinning goroutine serves it or after; a result was sent only after the
handler ran or decoding failed; a client's result is the session's. Who gave up
meanwhile, on which side, does not matter. `Tracks` is as for `Publisher`; it
rests on a call connecting once.

`StoppedOnlyUnheard`, `UnheardForGood`, `UnheardStopsSpinning`,
`NilQuitNeverEnds`. The goroutine that spins can send a result at once unless
the session gave up or had been told of a decoding error (`HeardOut`: a session
leaves its place only by its time-out or by taking what was sent). If so, it
never can, and no job of the node runs again. A loop that tells a session to
quit waits for good. These are the exceptions in `SpinProgress` and
`ShutdownProgress`.

**Node** (`NodeProofs`): `TypeCorrect`, `ListsFresh`, `OrphansReplaced`,
`RefusedInGap`, `LeftByFailure`. One invariant, `IndInv`, serves all. Each
property speaks of the node at rest, while the tables of node and master
disagree inside every call; so the invariant says for each place of the user
goroutine what is still missing there:

* `LoopsBorn`, `Entries` – a loop is reachable only once stored; an entry is of
  its kind and name;
* `Telling` – the loops a call has still to tell are those it looked up, and
  still in their table;
* `InCall` – the loop about to be stored is unknown, and what it replaces was
  told to end or is looked up elsewhere; the list about to be sent is one of
  `early`;
* `Registrations` – a loop the master knows is in the table, about to be, or
  told to end;
* `Requests`, `Updates` – whatever overtakes whatever, the newest list of a
  topic is in force, in the channel, in the hands of a handler, or still owed by
  the master, unless the subscription registered with a list on its way.

`Updates` is the strengthening of `FreshList` that took longest to find: a
handler that has looked up a subscription before it was replaced brings nothing
to the new one (`Brings`), and the first list may be the newest one although it
is sent last (`Awaits`). `StepKinds` sorts the actions into seventeen kinds by
what they do to the tables, and each part has one lemma over the kinds. The
parts were checked by TLC on the instance of `node` and on a larger one (three
loops, four calls) before they were proved.

`ShutdownForgetsNone`, `SendHoldsCall`, `OrphanForGood`, `OrphanHoldsShutdown`,
`RequestHoldsShutdown`. `ShutdownReturns` names what may keep a shutdown from
returning; these say how far each of its cases goes. When Shutdown has come
through its sends, every loop that has not ended was told to end, or is an
orphan of finding 3 (`AllTold`: from the first send on, a loop in a table was
told or is still to be told). Whether a loop that was told does end is not for
`Node` to say. A call that sends a token to a loop that has ended and whose
channel is full does so for good, be it Shutdown, Close, a Remove or
NewServiceServer. An orphan is never reached again, by whatever the user calls,
and holds a shutdown for good, unless its listener fails. A request that sends a
list to an ended loop without room does so for good, and a shutdown that waits
for it does not return.

`ResolutionIdempotent` and the other lemmas on names hold for names of any
length. `canonicalizeName` is recursive; as induction theorems cannot be used,
`Canonical` and `WordsCounted` argue with the least number of words for which
they fail (`LeastNumber`).

**NodeLoop**: `IsNodeLoop` in `SubscriberProofs`, `PublisherProofs` and
`ServiceProofs`, `LoopsAreNodeLoops` in `NodeProofs`. The steps of each module
are sorted by what they do to the loop's place, its lists and its tokens. Only
the publisher needs an invariant for it (`ListenerHonest`): that its loop hears
of a failed listener only if listeners may fail. In `Node` a step may touch many
loops at once (a shutdown tells them all), and each of them takes one step of
its own `NodeLoop` or none.

**Temporal and Rate** (`RateProofs`): `NormalizeKeepsValue`, `AddExact`,
`SubExact`, `SubPanics`, `FromNSecExact`. Arithmetic on times counts nanoseconds
exactly or panics, for all field values. For proper operands, `AddProper` says
when a second is left in the nanoseconds (finding 4), namely exactly when those
of the operands add up to one, and `SubUndoesAdd` that otherwise a sum can be
taken apart again, field by field. The nonlinear facts are isolated in `DivMod`,
`QuoRem` and `Carry`. `TypeCorrect` holds for all expected cycle times;
`NoPanicWithoutStep`, `PeriodKept` and `SleepIsBounded` (which has no run) hold
under `Giga \notin Periods`, the case finding 4 is about. `RateInv` says that
the fields are proper values and that the clock reading is; `CycleInv` that in a
cycle whose clock was not stepped, the time since the start plus the time left
to sleep reaches the expected time.

*Only model-checked:*

* all liveness properties: `ShutdownTerminates`, `ToldReaderStops`,
  `FanProgress`, `ShutdownProgress`, `DisconnectRuns`, `SpinProgress`,
  `ShutdownReturns`. Fairness and `ENABLED` are out of the prover's reach. What
  is proved is their other half: where something waits, that it waits for good
  or for whom;
* everything about `Messages`: it and the operators under it are
  recursive over definitions and values.

Two formulas of the models were changed for the proofs. `LossyFifo`'s transit is
a set where it was a sequence, and the order in a channel is stated over pairs
of places instead of over a filtered sequence; both say the same. The loops that
`Shutdown` in `Node` tells to end were written as `UNION … \ …` without
parentheses, which TLC and TLAPS do not read alike.

## 6. What the code does otherwise than it says

Each of these has a run that TLC finds violated.

1. **A publisher whose requestTopic failed blocks the subscription for good**
   (`subscriber.go:68`, run `subscriber_nil_quit`). Line 76 goes on without an
   entry; when the publisher leaves, the lookup yields nil and the send never
   completes. No update, message or shutdown is handled afterwards (proved:
   `NilSendNeverEnds`).
2. **A session in its handshake, or one that has just ended, blocks the
   publisher's shutdown** (`publisher.go:110`, run `publisher_cleared`), because
   `quitChan` has no buffer and nobody receives from it. If the session has
   ended, for good (`SendToEndedNeverEnds`).
3. **A second publisher of a topic orphans the first** (`node.go:413`, run
   `node_orphan`). The lookup uses the name as passed, the store (424) the
   remapped one. For a name that is not global and canonical,
   `NewPublisherWithCallbacks` never finds the entry, and replaces it. The first
   loop is then out of reach: neither `RemovePublisher` nor `Shutdown` tells it
   to end, and `Shutdown` waits for it for good (`OrphanForGood`,
   `OrphanHoldsShutdown`).
4. **`NewRate(1)` can panic on a steady clock** (`temporal.go:7`, run
   `rate_one_second`): one second is kept as 0 s and 1000000000 ns, which the
   comparison takes for equal to 1 s and the subtraction for less.

Seen while modelling, without a run of its own:

* `service_server.go:134`: a service session's `quitChan` is never made, so a
  shutdown that finds a session listed never ends (`NilQuitNeverEnds`). This is
  the exception in `Service`'s `ShutdownProgress`.
* `service_server.go:312`: a session that gave up leaves nobody to receive the
  result, and the goroutine that spins the whole node blocks. This is the
  exception `Unheard` in `SpinProgress` (`UnheardForGood`).
* `publisher.go:241`: sessions that end after the loop has gone post to a
  channel nobody reads; beyond ten of them the disconnect callback is not called
  (`CallbackNeverRuns`).
* `publisher.go:227`: a session that fails before its header is accepted calls
  the disconnect callback although the connect callback never ran.
* `node.go:161`: `__si` is stored only if it does *not* parse, so the argument
  always turns interrupts off.
* `node.go:507`: the list of the registration may overtake a newer
  `publisherUpdate`, and stays in force until the next change (`early` in
  `FreshList`).
* `node.go:415`: between registration and store a `requestTopic` is turned away,
  and the remote subscriber does not ask again. `RefusedOnlyInGap`.
* `subscriber.go:140`: the unregistration of a removed subscription may reach the
  master after a new registration and take that away.
* `subscriber.go:53`, `node.go:582`: `wg.Add` in the goroutine lets a shutdown
  pass a loop that has not started. `NothingLeft`.
* `node.go:566`, `467`, `525`: `Shutdown`, `Close`, the Remove calls and
  `NewServiceServer` send a token to a loop without looking whether it still
  takes one. A loop that has ended, or is blocked, with a full channel holds the
  call for good (`SendStuck` in `ShutdownReturns`, `SendHoldsCall`).
* `subscriber.go:78`: an answer to `requestTopic` that is a success but no list
  of the expected form panics and ends the process (`RequestPanics`). An answer
  that never comes holds the subscription (`AwaitsAnswer`).
* `node.go:359`: a `publisherUpdate` for a subscription whose loop has ended
  (closed by its own `Shutdown`, or told to end by the node's) may block its
  handler for good, and `Shutdown` with it. `HandlerStuck` in `ShutdownReturns`
  (`RequestHoldsShutdown`).
* `publisher.go:83`: a publisher whose listener failed stays registered.
* `publisher.go:144`, `dynamic_message.go:1153`: what of a message could be
  written is sent, and if it is cut off in an array of primitives, it is
  received as whole, with zeros.
* `subscriber.go:114`: after an error of `Deserialize` the callbacks get the
  message all the same, with nil data.
* `libgengo/context.go:302`, `308`: two definitions with a missing part have the
  same sum, and so have an array of messages and a single one.
* `dynamic_message.go:104` takes every type called Header for `std_msgs/Header`;
  the sum is computed with the one of its package.
* `dynamic_message.go:424`: bools in JSON arrays are always read as false. Texts
  with escapes come back escaped. The schema has `sec` and `nsec` where the JSON
  has `Sec` and `NSec`, and the type `bool`, which JSON schema does not know.
* `dynamic_message.go:263`: for an array of messages the schema's `items` get the
  schema of the messages as the value of their `type`, where the name of a type
  belongs: it describes nothing, so the JSON of a message with such an array, if
  it is not empty, does not match the schema, as the comment at 340–343 says it
  should. `JSONFollowsSchema` says that it matches exactly in all other cases;
  `SchemaKeepsTypes` takes the items' schema as it was meant.
* `dynamic_message.go:461`, `160`: an object for a nested type that is not found
  panics in an array, and so does a received message whose type lacks a part.
* `node.go:510`: the append to `sub.callbacks` races with the loop's copy.
* `subscriber.go:132`: a lost connection is never forgotten, hence never dialled
  again until the publisher leaves the list and returns.

## 7. Not modelled

* *XML-RPC values, TCPROS headers*: codecs over bytes without state. That a call
  fails or a header never comes is part of the modules above.
* *Framing of messages on a connection*: a size that times out after one to
  three bytes is read anew from the next byte (`subscriber.go:235`).
  `Subscriber` takes size and body as units, so it has no place for this; it
  needs the bytes of the stream.
* *The master*: external; only what the node sees of it.
* *Command line, host detection, parameters*: sequential; constants of `Node`.
* *libgengo's file search, constants, services; generator; generated code*: text
  processing.
* *Data races on `sub.callbacks` and the global message context*: their outcome
  is undefined. `Subscriber` has the two halves of the append; `Messages` is one
  goroutine.
* *Actions*: the files are empty.

## 8. Plan

All safety properties outside `Messages` are proved, and so is what the
exceptions in the liveness properties say. What is left, for later versions of
the code or of the tools:

1. `Messages`: its operators recurse over definitions and values. A theorem about
   them needs induction over data, and modules without `RECURSIVE`; the
   operators on scalars could be moved to one.
2. Liveness, once fairness and `ENABLED` can be proved about: that a
   loop that was told ends where no exception applies, from the three loops'
   liveness, in place of the case `Ending` in `ShutdownReturns`.
3. The bytes of a connection, for the read that times out within a size
   (`subscriber.go:235`).
