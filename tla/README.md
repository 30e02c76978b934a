# MROS: TLA+ models, checks and proofs

MROS is a small publish/subscribe middleware. A central process, `mroscore`,
runs a *Mediator*; every user process has one or more *Nodes* that speak to the
Mediator over a two-way RPC connection and to each other over message
connections from *Publishers* to *Subscribers*. Almost everything that can go
wrong in it is a matter of timing: detached threads, callbacks that run on
somebody else's thread, closing handshakes and a signal handler that takes
locks. These modules model those parts of the C++ code, step by step, state
what makes them correct, check it with TLC and prove the safety part with TLAPS.

All paths below are relative to the repository root (`src/` in `PROJECT.json` is
that root); `PROJECT.json` maps every definition to the lines it stands for.

## 1. Inventory

| Component | State | Operations | Talks to |
|---|---|---|---|
| Mediator (`src/mediator/mediator.cpp`) | `topic_table_`, `node_table_`, a mutex for each | `handleRPCConnections`, `addNode`, `addPublisher`, `addSubscriber`, `removePublisher`, `removeSubscriber`, `removeNode`, shutdown | one `ConnectionBsonRPCSocket` per node |
| BsonRPCSocket (`src/socket/bson_rpc_socket/`) | `is_connected_`, `sending_lock_`, `closing_message_received_`, callbacks | `sendRequest`, `sendRequestAndGetResponse`, `close`, `receiveCycle`; connecting handshakes of client and connection | the peer's socket, the owner's callbacks |
| BsonSocket (`src/socket/bson_socket/`) | descriptor, `is_open_`, `storage_bson_` | `sendMessage`, `receiveMessage`, `close` | kernel |
| ServerSocket, ClientSocket | descriptor | `acceptConnection`, `connect`, `close` | kernel |
| Node (`src/mros/node.cpp`, `include/mros/node.hpp`) | `connected_`, `publishers_`, `subscribers_`, spin condition variable | constructor, `createPublisher`, `createSubscriber`, `connectSubscriberToPublishers`, `remove...ByTopic`, `spin`, `spinOnce`, `disconnect`, destructor | Mediator by RPC; its Publishers and Subscribers; MROS |
| Publisher (`include/mros/publisher.hpp`) | `connected_`, `subscriber_connections_` | `publish`, accepting thread, `disconnect`, destructor | Subscribers by message connections; Node |
| Subscriber (`include/mros/subscriber.hpp`) | `connected_`, `message_queue_`, `publisher_connections_`, two threads | `connectToPublisher`, receiving thread, `spin`, `spinOnce`, `disconnect`, destructor | Publishers, the user's callback, Node |
| MROS (`src/mros/mros.cpp`) | `active_`, `deactivate_routines_` | `init`, `registerDeactivateRoutine`, `deactivate` from SIGINT | Nodes, Mediator |
| Logger, messages, utilities, command line stubs, `mediator_old.cpp` | - | output, values; empty or commented-out files | - |

What is hard in each, and what makes it correct:

* **Mediator.** One thread per node handles requests; each handler takes the two
  mutexes one after the other, so handlers of different nodes interleave in the
  middle of an update. Correct means: the two tables agree, each publisher and
  subscriber of a topic are introduced to each other whatever the order, no
  stale address is handed out, a node's departure at any moment does no harm,
  shutdown ends.
* **BsonRPCSocket.** Either end, or both at once, may close while requests are
  in flight and while other threads send; a process may die. Correct means: no
  request written before the closing message is lost or reordered, nobody uses a
  closed descriptor, every `close()` returns with everything done, no thread
  stays blocked.
* **Subscriber.** Two threads, `spinOnce()` and a destructor around one queue,
  with a notification only when the queue was empty. Correct means: no lost
  wake-up, the newest messages kept in order, the destructor returns and its
  dummy message is not delivered.
* **Node.** `disconnect()` runs from the destructor, from the closing callback on
  the receive thread and from a signal handler, possibly all at once. Correct
  means: it ends, it reaches all objects, it releases `spin()`, and the Mediator
  is told what the user did.
* **Publisher.** `publish()` holds a mutex while it sends; the accepting thread,
  which adds and at last destroys the connections, needs that mutex. Correct
  means: nobody misses or repeats a message from the moment it was added, and
  shutdown closes every connection, accepted or not.
* **Publisher and Subscriber together.** Two processes shut down in any order
  over one pair of finite buffers. Correct means: what was published reaches the
  callback although the publisher is gone by then, and neither shutdown waits
  for the other.
* **Connecting handshake.** The mediator serves one client at a time; clients
  time out, say nothing or die. Correct means: a client that is connected is
  known by its name, everyone else is served or told so, shutdown ends.
* **BsonSocket.** A byte stream cut at any place by both loops. Correct means:
  messages come out whole and in order.

`PROJECT.json` lists 40 hazards with their lines and the properties that cover
them.

## 2. Modules

| Module | Models | Runs |
|---|---|---|
| `Channel` | abstract: one direction of a connection, as its users see it | through `Framing` and `RpcSocket` |
| `Framing` | one direction of a `BsonSocket` connection, byte by byte | `MCFraming`: `framing`, `framing_short_sends` |
| `RpcSocket` | both ends of an RPC connection | `MCRpcSocket`: `rpc` |
| `Connect` | the connecting handshake, clients and accepting thread | `connect`, `connect_exit` |
| `Mediator` | the `mroscore` process | `MCMediator`: `mediator`, `mediator_introduction` |
| `Node` | one Node, its user's thread, SIGINT, the RPC receive thread | `MCNode`: `node`, `node_spin` |
| `Publisher` | one Publisher, its threads and its subscribers' connections | `publisher` |
| `Subscriber` | one Subscriber, its threads and its publishers' streams | `subscriber` |
| `PubSub` | a Publisher and a Subscriber over their connection | `pubsub` |
| `FramingProofs`, `RpcSocketProofs`, `ConnectProofs`, `MediatorProofs`, `NodeProofs`, `PublisherProofs`, `SubscriberProofs`, `PubSubProofs` | theorems (section 5) | `tlapm` |

How they fit: `Framing` justifies treating a message as one write and one read,
which `RpcSocket`, `Publisher` and `Subscriber` do. `RpcSocket` starts where
`Connect` ends. `Mediator` and `Node` use an RPC connection as `RpcSocket` shows
it to behave. `PubSub` puts `Publisher` and `Subscriber` together and shows that
each meets what the other's module assumes.

Operators whose comment says "Variant: ..." are plausible mistakes in the code
next to them; each property is shown to notice one of them (`mutants` in
`PROJECT.json`). They take no part in any specification.

### Channel and Framing

`Channel` has three variables: the messages `sent`, those `received`, and the
`status` of the direction. A message sent is delivered in order and, while the
channel stays open, in the end; the receiver leaves the channel only when it is
empty, unless it breaks. A step may deliver and break at once: a process whose
receive thread hands a request to its callback may leave both directions jammed by
that very step. `SafeSpec` is the specification without its fairness.

In `Framing` a byte is its message, its part (size or body) and its place. The
loops of `sendMessage` are `Copy` (the kernel takes one byte), `SendReturns`,
`SendReturnsShort` (a signal or the peer's end makes `send()` return early) and
`SendFails`; `left`, `offset` and `copied` are `size_to_complete_send`,
`send_size` and the progress of the running call. `offset` becomes the result of
the *last* `send()`, as in bson_socket.cpp:56, and `left` is a `size_t` modulo
`Modulus`. The loops of `receiveMessage` are `Recv`, `RecvEnd`, `DecodeSize` and
`DecodeBody` on `storage_bson_`; bytes that are not what they are taken for make
it `garbled`. `Close` is the end of either side, at any step.

### RpcSocket

Starts after the connecting handshake. At each end a receive thread (`rx`,
`hand`) runs `receiveCycle`; each request has a user thread of its own, each
closer is one that calls `close()`. `wire[e]` holds the messages on their way to
end `e`; `Capacity` is what the two socket buffers hold, and a write waits for
room with `sending_lock_` (`lock[e]`) held. `reset[e]` says that the peer closed
with unread input, which TCP answers with RST; `recv` then returns -1, which the
code appends as a length, and the process aborts (`ReceiveReset`). `Kill` ends a
process at any step; its kernel closes the descriptor. `Jammed` names the
circular wait of both ends for room in full buffers, `Stuck` the stutter of a
connection that waits for ever.

### Connect

`client[c]` is the position of client `c` in `connectToServer()`, `server` that
of the accepting thread, which serves one client (`serving`) from `accept()` to
`startReceiveCycle()`. `down` and `name` are what is on its way in either
direction. `Impatient` clients pass a timeout to the poll; `Silent` ones connect
and send nothing. A failed client keeps its socket until its owner lets go
(`Leave`): the server then still waits for its name. `Held` says so. An exception
in the handshake, or from `accept()`, leaves the loop and ends the mediator
(`HandshakeFails`, `AcceptFails`).

### Mediator

`pc[n]` is the position of the receive thread of node `n`, `job[n]` the object
whose request it handles. Every critical section is one action: the topic-table
half of `addPublisher` is `AddPublisherTopic`, the node-table half
`AddPublisherNode`, followed by one `Notify` per copied subscriber with
`node_table_mutex_` held (`nodeLock`) and `NotifyDone`. `addSubscriber` is
`AddSubscriberTopic`, `AddSubscriberNode`, and `AddSubscriberReply`, which its
caller in the RPC socket sends. `removeNode` is `RemoveNodeTopics` (lock),
`RemoveNodeErase` (the two loops), `RemoveNodeEntry` (erase under the other
mutex); it runs in the closing callback, after which `EndReceiveCycle` uses the
socket once more.

`unordered_map::operator[]` inserts: `Touched` and `AddressAt` say what it leaves
behind (a null connection, an empty address). Dereferencing a null connection is
`NullConnection`. The loops of `removeNode` read `node_table_` without its mutex:
a node in them while another step inserts or erases there is put in `raced`, and
its erase may then find nothing (`RemoveNodeErase`, second disjunct) or crash
(`TornRead`). A thread whose socket has been destroyed may crash at any moment
(`UseDestroyedSocket`). `connection reset` aborts the process (`ConnectionReset`).

Abstractions: a node URI lives once (the code's key is host:port, which the
kernel may reuse after a departure); an `AddressPort` is the publisher that owns
it; a user has one object of a kind per topic and node, as node.hpp:96 and 101
say. `told`, `life`, `goneBefore` and `raced` are history.

Sending blocks (mediator.cpp:124 with `node_table_mutex_` held, the answer of
`addSubscriber`, the handshake). A send to a node whose process lives and reads
comes to an end; a node that reads no more is in `deaf` (`StopReading`), and a
send to it never returns (`SendBlocks`). The bytes in between are abstracted:
whatever fits into the buffers before has been sent, and `RpcSocket` has the
buffers. `Stalled` is a handler that has such a send on its list, `TableHeld` one
that keeps `node_table_mutex_` doing so, `ServerHeld` the accepting thread waiting
for that mutex or for a deaf client's name.

The accept loop ends in three ways: by the signal (`ClearTopics`, `ClearNodes`),
by an exception of `accept()` (`AcceptFails`), or by one of the handshake
(`FailHandshake`); the last two pass by the clearing. In all three `main()` then
runs `~Mediator` (`Destroy`): tables, sockets and mutexes are destroyed, and the
detached receive threads go on with them, and may crash (`UseDestroyedSocket`,
`TornRead`, `NullConnection`), until `Exit` ends the process. A mutex that such a
thread finds destroyed behaves in the model as if it were still there.

### Node

`main` is the user's thread, `dis[f]` the position inside `disconnect()` of each
of three frames: the user's (from the destructor), the receive thread's (from the
closing callback) and the signal handler's, which sits on top of the user's
thread and stops it (`Running`). The RPC client is reduced to `rpc`, `received`
and `lock`, with the frame that holds `sending_lock_`; a send with it held, and
the answer to a closing message, take as long as the Mediator likes.

A frame that looks a subscriber up `lock()`s its weak pointer (`hold[f]`):
`connectSubscriberToPublishers` does, and each turn of the loops of `spin()`,
`spinOnce()` and `disconnect()` (`Visit`, `EndVisit`, with the topics left in
`todo[f]`). If the user has dropped the subscriber in the meantime, `Release` runs
`~Subscriber` in that frame, as `DropSubscriber` does in the user's: `dtor[f]` goes
through the joins of the two threads (`JoinReturns`, which nothing forces to
happen), `Erase`, which removes whatever is the entry of the topic by now, and the
request to the Mediator (`RemoveLock`, `Removed`). The receive thread serves nothing
meanwhile, and a `disconnect()` does not go on.

`subscribers_` has no lock. `MapChange` is a creation or an erasure by one frame
while another looks up, erases or is in a loop: it may end the process
(`crashed`), or the loop is in `torn` and may end before it has seen all entries.
A topic is `late` when a subscriber of it was destroyed by a `lock()`ed pointer, that
is, at a time of nobody's choosing. `told`, `late`, `before` and `torn` are history.
`publisher` is the one entry of `publishers_`: its key is a moved-from string.

Left out: one SIGINT takes effect (a second one would find the Node
disconnected), and it does not interrupt the middle of a map operation; a Node
whose last pointer is held by another thread's `~Subscriber`; a publisher that the
user drops while the loop over `publishers_` holds it is destroyed after the loop; a
second `spin()` of the same subscriber (subscriber.hpp:152), which assigns to a
joinable `std::thread` and ends the process.

### Publisher

`acceptor` is the accepting thread with the connection in its `hand`; `user[u]`
are the user's threads, which publish one at a time under `mutex` and let go of
the object at last: the last one runs the destructor (`Release`, `Join`).
`connections` is `subscriber_connections_`, `todo` what the running `publish()`
has yet to serve. A subscriber's end is `reader[s]`: it connects, reads, may stop
reading with its socket open, and leaves. `Send` waits for room, `Erase` drops a
connection whose subscriber is gone, as the `erase_if` of publisher.hpp:116 does.
`AcceptFails` is the exception that ends the process. `stream`, `read` and
`joined` are history but for the room they leave.

### Subscriber

`rx` is the receiving thread with its copy of the connections (`todo`, `dead`),
`spinner` the spinning thread, `dtor` the destructor. A message is its publisher
and its number. `Send` and `ClosePublisher` are the publishers' processes.
`Trim` is the loop at line 192 with its `uint32_t` limit, `Wake` the conditional
`notify_one`. A second connection to an address already connected changes nothing
(subscriber.hpp:137: the insertion fails and the new socket is destroyed) and is
not a step; a second `spin()` ends the process and is left out. `arrived`, `taken` and `called` are history. Spurious wake-ups find
the same predicate and are stutters.

### PubSub

Both modules are instantiated over one set of variables. The Publisher's only
peer is `sub`, the Subscriber's only publisher is `pub`, and the connection is
stored once: the Subscriber's `sent`, `got` and `closed` are substituted by the
length of `stream[sub]`, `read[sub]` and the state of the publisher's end
(`Closed`). Steps that touch the connection are joint: `Connect`, `ReadMessage`,
`RemoveDead` (erasing the connection closes the socket), `CopyConnections` (the
receiving thread ends and leaves the socket open, unread) and `CloseSockets` (the
members of the Subscriber are destroyed after its threads were joined). All other
steps are of one side. `connect()` and the insertion into
`publisher_connections_` are one step, since nothing reads the connection in
between.

## 3. Runs

Passing:

| Run | Instance | Distinct states | Properties |
|---|---|---|---|
| `mediator` | 2 nodes, 1 topic, two publishers in turn on one node, a subscriber on the other; either node may stop reading | 281,168 | `TypeOK`, `TablesAgree`, `NoStaleIntroduction`, `CrashOnlyOnDeparture`, `HandlersFinish`, `ShutdownCompletes` |
| `rpc` | a request and a call from the client, a request from the connection, one closer at each end, the client's process may be killed, room for one message | 113,327 | `TypeOK`, `WritersOwnOpenSocket`, `CallsAnswered`, `ImplementsChannel`, `CallsReturn`, `BothEndsClose` |
| `framing` | messages of 2, 3 and 1 bytes behind sizes of 3 bytes, reads of at most 2, room for 3, one early return per loop | 1,702 | `TypeOK`, `FramesInOrder`, `ImplementsChannel`, `SendEnds` |
| `connect` | 4 clients, one impatient and one silent, a backlog of 2, `accept()` may fail | 42,042 | `TypeOK`, `KnownWhenConnected`, `ClientsConnect`, `ShutdownCompletes` |
| `node` | 2 topics, two subscribers of one topic in turn, one publisher, one SIGINT | 221,679 | `TypeOK`, `ListedUnlessLate`, `MediatorAgrees`, `NobodyLeftConnected`, `DisconnectReturns`, `SleeperReleased` |
| `publisher` | 2 subscribers, 2 publishing threads, 2 messages, room for one | 134,803 | `TypeOK`, `NoGaps`, `ShutdownCompletes` |
| `subscriber` | 2 publishers with 2 messages each, queue size 0 (so that trimming happens), one `spinOnce` | 583,262 | `TypeOK`, `NoLostWakeup`, `QueueBounded`, `NewestInOrder`, `DummyNotCalled`, `DestructorReturns` |
| `pubsub` | one publishing thread, 2 messages, room for one, queue size 0, one `spinOnce` | 153,841 | `PeersAreSubscribers`, `PublishersAreAsExpected`, `Delivered`, `PublishReturns`, `BothShutDown` |

What each shows, in the order of the hazards:

* `mediator`: whatever the order of the critical sections of two handlers, of a
  departure and of the shutdown, the two tables agree outside them
  (`TablesAgree`), a subscriber is never sent to a publisher that was gone before
  it registered (`NoStaleIntroduction`), a null or destroyed socket is used, as long
  as the accept loop runs, only after a node has begun to leave
  (`CrashOnlyOnDeparture`), nothing but a node that reads no more makes a handler
  keep a mutex (`HandlersFinish`) or the process go on after a signal, a failed
  `accept()` or a failed handshake (`ShutdownCompletes`). The run reaches the
  states in which it does.
* `rpc` and `framing`: both levels implement `Channel`. For `rpc` this covers the
  closing handshake of test_bson_rpc_socket.cpp: all that was written before a
  closing message is handled by the other end, in order. `BothEndsClose` and
  `CallsReturn` say that closing ends at both ends, up to `Jammed`.
  `FramesInOrder` is the byte-level invariant behind it: the bytes in
  `storage_bson_` and on the wire begin with the message that `receiveMessage`
  wants next, each is followed by its successor in the concatenated frames
  (`NextByte`), and the last by the byte that `sendMessage` writes next.
* `connect`: the name is in the node table before `connectToServer()` returns;
  nobody starves in the backlog, and after SIGINT nobody waits for ever, up to
  `Held`.
* `node`: whichever frames are in `disconnect()` at once, each that has gone through
  its loops has reached what was listed when it began (`NobodyLeftConnected`), and
  each returns and wakes a sleeping `spin()`, or is held up (`HeldUp`) for a reason that
  `DisconnectReturns` names.
* `publisher`, `subscriber`: the two threads of each, with peers that are free to
  do anything the kernel allows.
* `pubsub`: `PeersAreSubscribers` and `PublishersAreAsExpected` are refinements:
  the composition implements `Publisher`'s `FairSpec`, the liveness of its readers
  included, and `Subscriber`'s `Spec`. So what `publisher` and `subscriber` check
  against arbitrary peers holds of the pair. `Delivered`, `PublishReturns` and
  `BothShutDown` hold of the pair only.

Why these sizes are enough: two handlers of different nodes are the most that
can be in each other's critical sections on one topic, and the second publisher
of a node brings the "removed, then added again" case; one message of room makes
every write block that can block; reads of at most two bytes cut
frames of five, six and four inside and across every border; a backlog of two behind the
client being served, with a fourth outside, has clients waiting at every place;
a queue limit of 1 with four messages trims several times; two subscribers of
one topic are what a stale destructor needs; two subscribers and two publishing
threads let a connection be added, erased and cleared while another thread is
in, or waits for, `publish()`. The theorems of section 5 remove the bounds for
the safety properties.

Violations, each of a sentence in the repository (quoted in `findings`):

| Run | Property | What happens |
|---|---|---|
| `mediator_introduction` | `AlwaysIntroduced` | a subscriber that registers between the halves of `addPublisher` gets an empty address and is never told the real one |
| `node_spin` | `SpinReturns` | the notification is lost between test and sleep |
| `framing_short_sends` | `NothingGarbled` | after a second early return of `send()` the body resumes at the wrong offset and the receiver takes other bytes for a size |
| `connect_exit` | `ExitsOnlyWhenTerminated` | a client that dies in its handshake ends the mediator |

Some passing properties state what remains true. What each leaves out is named in
its definition:

* `SleeperReleased` is `SpinReturns` for a thread asleep before.
* `TablesAgree` speaks of nodes that are outside a handler, not being erased, and
  not in `raced`: for the node hit by the data race of mediator.cpp:166 the lists
  may be wrong, or the process may crash, and nothing in the code prevents it.
* `CrashOnlyOnDeparture` ends with the accept loop: from then on `~Mediator` runs
  under the receive threads.
* `HandlersFinish` holds up to `Stalled` and `TableHeld`, `Mediator`'s
  `ShutdownCompletes` up to `ServerHeld`: one node that does not read stops every
  handler, later accepts and the shutdown.
* `DisconnectReturns` and `SleeperReleased` hold up to `HeldUp`: a send that does
  not return, or whose thread SIGINT stopped inside `sendRequest()`
  (mros.cpp:41); a Mediator that does not answer the closing message;
  `~Subscriber` joining a thread that may sit in `recv()`, on the receive thread or
  in the loops.
* `ListedUnlessLate`, `MediatorAgrees` and `NobodyLeftConnected` except late topics:
  there the destructor of an earlier subscriber does erase and unregister the
  subscriber the user made after it. `MediatorAgrees` speaks of times between the
  user's calls and of topics without a destructor under way. `NobodyLeftConnected`
  speaks of the subscribers listed when the `disconnect()` began, and excepts loops
  under which `subscribers_` was changed; a subscriber created after the mark may
  stay connected.
* `CallsAnswered` speaks of connections that the caller alone closes: an end that
  has sent its closing message sends the answer behind it
  (bson_rpc_socket.cpp:126), where nobody reads it.
* `CallsReturn` and `BothEndsClose` hold up to `Jammed` (traffic in both directions
  and full buffers). The run has one closer per end; of two that pass the unlocked
  test of bson_rpc_socket.cpp:10 together, `notify_one()` wakes one only.
* `ClientsConnect` and `Connect`'s `ShutdownCompletes` hold up to `Held` (a client
  that keeps a socket and says nothing).
* `Publisher`'s `ShutdownCompletes` holds up to `Blocked`. The calls of `publish()`
  are bounded, so that nobody starves at the mutex for reasons of scheduling alone.
* `QueueBounded` has the bound that the code gives, `queue_size_ + 2`: it trims to
  `queue_size_ + 1` and then pushes. The comment of subscriber.hpp:190 reads as a
  limit of `queue_size_`.
* `DestructorReturns` requires that the publishers have closed, because the
  destructor joins a thread that may block in `recv()` on a silent one
  (subscriber.hpp:102).
* The liveness of `pubsub` is that of one publisher; a second, silent one would keep
  the receiving thread in its `recv()` (subscriber.hpp:187).
* `FramesInOrder` holds with one early return per loop. In `Framing`'s `TypeOK` the
  range of `left` is that of a `size_t` and holds by the modulo; that nothing wraps is
  the theorem `SizeLeftIsExact`.

Several liveness properties are written `[]<>P`. What they speak of happens finitely
often in a behaviour (a thread is called once, or the bounds of the run end its
calls), so that they say that P holds from some time on: whatever was begun ends.

Two more behaviours of the code are in the models without a property, since nothing
in the code prevents them: all publishers of a Node share one entry, whose key is a
moved-from string (node.hpp:124), so that `disconnect()` reaches only the last; and a
reset connection aborts the process (bson_socket.cpp:73).

Deadlock is checked in `mediator`, `rpc`, `framing`, `node` and `subscriber`:
there the states where the system may stop are named actions (`Ended`, `Idle`,
`Stuck`, `Stopped`, `Destroyed`). It is off in `connect`, `publisher` and
`pubsub`, whose systems stop for good when nobody calls them again, or when a
peer that owes nothing stays silent; what must not stop there is stated by their
liveness properties.

## 4. Fairness

A started thread that can take a step takes it (weak fairness per thread): the
code blocks only on mutexes, condition variables and the kernel, whose
conditions the guards state. What users, publishers, signals and timeouts *may*
do is never fair: nobody has to send, close, publish, die, time out or press
ctrl+C. What concerns a peer:

* `Mediator`: a node that reads answers the handshake and makes room for what is
  sent to it. It may stop reading for good at any time; the fairness of a handler
  with such a node on its list ends there (`~Stalled(n)`), and that of the handshake
  (`CompleteHandshake`) too.
* `Node`: the user's thread, with the handler on top of it, and the receive thread
  run. Publishers and the Mediator owe nothing: every wait for them is in `Peers`,
  without fairness.
* `Publisher`: a subscriber that reads goes on reading; `PeersAreSubscribers`
  shows that the Subscriber does, from the fairness of its own receiving thread.
* `Channel`: delivery is fair only while the direction is open and unbroken.

## 5. Proofs

For every value of the constants that satisfies the named assumptions of the
modules:

| Module | Theorem | Property |
|---|---|---|
| `FramingProofs` | `TypeCorrect`, `SizeLeftIsExact`, `FramesArriveInOrder`, `NothingIsGarbled`, `MessagesAreChannel` | `TypeOK`, `NothingWraps`, `FramesInOrder`, `NothingGarbled`, `C!SafeSpec` (the safety half of `ImplementsChannel`) |
| `RpcSocketProofs` | `TypeCorrect`, `WritersAlwaysOwn`, `EveryCallAnswered`, `ConnectionIsChannel` | `TypeOK`, `WritersOwnOpenSocket`, `CallsAnswered`, `ChannelSafety` (the safety half of `ImplementsChannel`) |
| `ConnectProofs` | `TypeCorrect`, `ConnectedIsKnown` | `TypeOK`, `KnownWhenConnected` |
| `MediatorProofs` | `TypeCorrect`, `TablesAgreeAlways`, `AddressesAlwaysCurrent`, `NeverStale`, `NoCrashBeforeDeparture` | `TypeOK`, `TablesAgree`, `AddressesAreCurrent`, `NoStaleIntroduction`, `CrashOnlyOnDeparture` |
| `NodeProofs` | `TypeCorrect`, `HeldSubscribersListed`, `MediatorKnowsSubscribers`, `DisconnectReachesListed` | `TypeOK`, `ListedUnlessLate`, `MediatorAgrees`, `NobodyLeftConnected` |
| `PublisherProofs` | `TypeCorrect`, `NoGapsEver`, `QuietOnceDestroyed` | `TypeOK`, `NoGaps`, `NoUseAfterDestroy` |
| `SubscriberProofs` | `TypeCorrect`, `WakeupNeverLost`, `QueueAlwaysBounded`, `DummyNeverCalled`, `TakenInOrder`, `QuietOnceDestroyed` | `TypeOK`, `NoLostWakeup`, `QueueBounded`, `DummyNotCalled`, `NewestInOrder`, `NoUseAfterDestroy` |
| `PubSubProofs` | `PeerIsSubscriber`, `PublisherIsAsExpected` | `Publisher`'s `Spec`, `PublishersAreAsExpected` |

Four theorems have a hypothesis besides the assumptions of their module: the last
four of `FramingProofs` assume `ShortSends <= 1`, that is, at most one early return of
`send()` for a signal in each loop. It is needed: the code resumes at the size of
the last piece instead of the sum (bson_socket.cpp:56), and the run
`framing_short_sends` shows what a second early return does. `TypeCorrect` holds
without it.

Each is proved from an inductive invariant, preserved by one step per action:

* **Framing.** `BaseInv` is the type with two facts it rests on. `LoopOK`: as long
  as the receiver is there, `offset` is what was sent before and `left` the rest,
  with no early return yet only if `offset` is 0; from it `size_to_complete_send`
  is exact (`NothingWraps`), which a second early return would break. The bytes between the calls (`Stream`: the pending ones and the
  one to come) are described three times (`InStream`): each is followed by its
  successor (`Chain`), a byte tells all others of its part (`Runs`), and no message
  number is above the last (`Order`). The first alone would do with induction over
  the bytes; since that is out of reach, `Runs` and `Order` are carried along, and
  kept by each step because a step adds one byte at the end (`StreamAppend`) or
  takes a message in front (`StreamDrop`). `ReadOK`: what was returned is the first
  messages, and the size that was decoded is the next one's. For the channel, the
  byte to come lies in message `Complete + 1` (`UpcomingFacts`), so a body that was
  taken was complete before, and when a sender is gone and less than a part is left,
  no complete message is (`NothingLeftBehind`).
* **Mediator.** `TypeOK` alone is not inductive: a handler applies `TopicOf` and
  `NodeOf` to its `job`, so `JobOK` says which kind of object each step works on.
  `PhaseOK`: between its two critical sections a handler has already changed the
  topic table, so that the second one restores agreement, and a node whose removal
  has passed the loops is out of every list unless its read was torn. `LifeOK` (an
  object being added is not yet, one being removed no longer, subject to another
  request) and `ToldOK` (the addresses of a pending reply are of the topic and
  were not gone when the subscriber registered) give the other two.
  `AddressesAreCurrent` is an invariant of the proof and not of a run. `Registered`
  gives `CrashOnlyOnDeparture`, an action property: while the accept loop runs and
  until a node leaves, whoever is in the topic table, in a copied list or connected
  has its entry in the node table.
* **Node.** `FrameOK` ties the three frames of `disconnect()` to the threads whose
  stacks they are on, `HoldOK` what a frame has `lock()`ed or destroys to where it is.
  `LifeOK` and `OneHeld` say that what is `lock()`ed is alive, that one frame at most
  destroys a subscriber, and that the user has one of a topic at a time; `DropOK`
  that a destructor is the user's own drop, with no successor yet, or its topic is
  late. `MediatorTold` is `MediatorAgrees` at every moment, with the request not yet
  sent. `LoopOK` follows the subscribers that a `disconnect()` has still to reach
  through its phases: they are held, and in an undisturbed loop their topic is still
  in `todo[f]` and still leads to them, unless it is late. `NobodyLeftConnected` is
  what is left of that when `todo[f]` is empty.
* **RpcSocket.** `LockOK` ties `sending_lock_` to the position of its holder in
  both directions, and the descriptor to the position of the receive thread: it is
  closed after the last read only. `HandOK` says what the receive thread has in
  hand. For the channel, `DirectionOK` says of one direction that the requests
  written (`w`), those taken by the receive thread (the first `n`) and those in the
  buffers ahead of the first closing message (`q`) fit together in this order
  (`Flow`), and that an end stops reading with everything handled, when its peer
  will write no more; `ClosingOK` that a closing message is on its way, or about to
  be, whenever one end has closed and the other still reads. For `CallsAnswered`,
  `AnswerOK` follows a call from the peer's callback through its response back
  (`Answering`), with nothing behind the closing message of an end that answers
  before it closes. `Flow` is stated by positions: that a sequence *filtered* by
  kind has some value would need induction over it.
* **Connect.** `StageOK` says for each client what its position and the message on
  its way to it allow (a client that is still `Fresh` has been sent nothing, "clr"
  is on its way only to one that is `Known`), `Once` that nobody is twice in the
  backlog or both there and being served; `named` has whoever is being cleared.
* **Publisher.** `PlacesOK`: a subscriber is in at most one of backlog, hand and
  connections, once, and whoever the running `publish()` has yet to serve is in
  `connections`;
  `UnusedOK`: nothing was sent to one that is not there yet; `SentOK`: what was sent
  is the run of messages since `joined`, up to the one being published; `Bounded`
  keeps `published` in range, for which the set of users must be finite.
  `NoUseAfterDestroy`, an action property stated in the proof module, says that no
  step uses the members of a Publisher once its destructor has returned; it rests
  on `Alone`: whoever runs the destructor has outlived all other users, and the
  server socket is closed before the accepting thread ends.
* **Subscriber.** `IInv` gives the wake-up, the bound and the dummy: the positions
  of destructor and threads decide whether a dummy can be in the queue.
  `TakenInOrder` rests on `OrderInv`: the queue is the last part of what arrived,
  what was taken comes before it, and what was passed over was followed by enough
  newer messages. Its lemmas say what each change of the queue does to that
  (`PushOrdered`, `TrimFacts` and their like). `NoUseAfterDestroy` is the same as
  for the Publisher, from `Joined`: each thread was joined or never started.
* **PubSub.** Each joint step is a step, or a stutter, of either module.
  `PeerIsSubscriber` follows action by action. `PublisherIsAsExpected` needs facts
  about the Publisher (a write happens only while both ends are open); they come
  from the Publisher's own inductive invariant, by instantiating `PublisherProofs`,
  plus `LinkOK`, which ties the Subscriber's connections to the Publisher's.

TLC checked the invariants on the instances of the runs before they were proved.

The proofs changed the model in three places. In `Node` the branches of `Told`
were not exclusive, and one variable could not tell a topic from a subscriber:
names and objects are now assumed to be apart. `Channel` now has deliveries that
break the channel in the same step, which the instance of `rpc` does not reach and
other capacities do. `FramesInOrder` was an equation of concatenated sequences; it
now compares neighbours, which says the same and can be proved.

Only model-checked: everything under fairness, that is, the liveness properties and
the fair halves of the refinements (`PeersAreSubscribers`, `ImplementsChannel`),
since TLAPS reasons neither about fairness nor about ENABLED. The safety properties
of the passing runs are all proved; for `ImplementsChannel` the theorems are about
its safety half, which has no name in a run. What a violating run refutes has no
theorem, except that `NothingGarbled` holds under the hypothesis above.

## 6. Plan

Done: `Mediator`, `RpcSocket`, `Subscriber`, `Node`, `Framing`, `Channel`,
`Publisher`, `PubSub`, `Connect`, and theorems for every safety property of the
passing runs. Next, in this order:

1. Composition of `Node` and `Mediator` over `Channel`s, so that `deaf` and `Peers`
   are each other's steps, and `TopicGraph`, an abstract registry with one step per
   request, that `Mediator` implements when at rest.
2. Two publishers in `PubSub`: a silent one holds up the messages of the other
   (subscriber.hpp:187).

## 7. Not modelled

`Logger`, the message types, URI formatting and the exception classes have no
behaviour that the properties depend on. `mediator_old.cpp` is commented out and
the command line tools are empty files. Of the sockets, listening, accepting,
connecting and closing are in `Connect` and `Publisher`; failures of `socket`,
`bind` and `listen` in the constructors, before any thread exists, and address
conversions are left out. What `Node` and `Subscriber` leave out is listed with
them in section 2; in `Mediator` it is the names of nodes, which nothing reads, and
what locking a destroyed mutex does.
