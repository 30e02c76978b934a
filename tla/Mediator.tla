------------------------------ MODULE Mediator ------------------------------
(***************************************************************************)
(* The mroscore process: the accepting thread and one detached receive     *)
(* thread per node connection, working on the topic table and the node     *)
(* table under two mutexes (mediator.cpp).  A request handler touches the  *)
(* two tables in two critical sections, so handlers of different nodes     *)
(* interleave between them.                                                *)
(*                                                                         *)
(* A node whose process lives on and never reads again blocks whoever sends *)
(* to it (deaf); one that pauses, or dies in the end, only delays him.      *)
(*                                                                         *)
(* A node URI lives once; an AddressPort is the publisher that owns it; a  *)
(* publisher or subscriber object is created and destroyed once, and one   *)
(* object per node, topic and kind is alive at a time (node.hpp:96,101).   *)
(***************************************************************************)
EXTENDS Naturals, FiniteSets

CONSTANTS
    Nodes, Topics,              \* node URIs and topic names
    Publishers, Subscribers,    \* the objects the users create
    NodeOf, TopicOf,            \* the node and the topic of each object
    NoAddress,                  \* a default-constructed AddressPort
    Absent,                     \* no entry in publisher_addresses_by_topic
    NoThread, NoJob

Objects == Publishers \cup Subscribers

ASSUME ObjectsAssumption ==
    /\ NodeOf \in [Objects -> Nodes]
    /\ TopicOf \in [Objects -> Topics]
    /\ Publishers \cap Subscribers = {}

ASSUME DistinctAssumption ==
    /\ NoAddress \notin Publishers
    /\ Absent \notin Publishers \cup {NoAddress}
    /\ NoThread \notin Nodes
    /\ NoJob \notin Objects

ASSUME FiniteAssumption == IsFiniteSet(Nodes) /\ IsFiniteSet(Objects)

VARIABLES
    active,         \* MROS::active_ of the mroscore process
    process,        \* how far the accepting (main) thread and the process are
    deaf,           \* nodes that read no more, their buffers full
    pc,             \* where the receive thread of each node is
    job,            \* the object whose request that thread handles
    copy,           \* node URIs copied out of the topic table
    reply,          \* addresses of the addSubscriber response
    topicLock,      \* topic_table_mutex_, when held across steps
    nodeLock,       \* node_table_mutex_, when held across steps
    connection,     \* node_table_[n].connection; "none" is no entry at all
    addresses,      \* node_table_[n].publisher_addresses_by_topic
    subscribed,     \* node_table_[n].subscribed_topics
    publishing,     \* topic_table_[t].publishing_nodes
    subscribing,    \* topic_table_[t].subscribing_nodes
    life,           \* of each object, as its requests are handled
    told,           \* publishers whose address was sent to a subscriber
    goneBefore,     \* publishers removed before its addSubscriber began
    raced           \* nodes whose removal read a table being changed

server  == <<active, process, deaf>>
threads == <<pc, job, copy, reply>>
locks   == <<topicLock, nodeLock>>
tables  == <<connection, addresses, subscribed, publishing, subscribing>>
history == <<life, told, goneBefore, raced>>
vars    == <<server, threads, locks, tables, history>>

Steps == {"away", "handshake", "receiving",
          "addPublisher", "notify", "addSubscriber", "reply",
          "removePublisher", "removeSubscriber",
          "closing", "reading", "erasing", "leaving", "ended"}

TypeOK ==
    /\ active \in BOOLEAN
    /\ process \in {"running", "failed", "topicsCleared", "nodesCleared",
                   "destroyed", "exited", "crashed", "aborted"}
    /\ deaf \in SUBSET Nodes
    /\ pc \in [Nodes -> Steps]
    /\ job \in [Nodes -> Objects \cup {NoJob}]
    /\ copy \in [Nodes -> SUBSET Nodes]
    /\ reply \in [Nodes -> SUBSET (Publishers \cup {NoAddress})]
    /\ topicLock \in Nodes \cup {NoThread}
    /\ nodeLock \in Nodes \cup {NoThread}
    /\ connection \in [Nodes -> {"none", "null", "set"}]
    /\ addresses \in [Nodes -> [Topics -> Publishers \cup {NoAddress, Absent}]]
    /\ subscribed \in [Nodes -> SUBSET Topics]
    /\ publishing \in [Topics -> SUBSET Nodes]
    /\ subscribing \in [Topics -> SUBSET Nodes]
    /\ life \in [Objects -> {"new", "adding", "up", "removing", "gone"}]
    /\ told \in [Subscribers -> SUBSET (Publishers \cup {NoAddress})]
    /\ goneBefore \in [Subscribers -> SUBSET Publishers]
    /\ raced \in SUBSET Nodes

Init ==
    /\ active = TRUE
    /\ process = "running"
    /\ deaf = {}
    /\ pc = [n \in Nodes |-> "away"]
    /\ job = [n \in Nodes |-> NoJob]
    /\ copy = [n \in Nodes |-> {}]
    /\ reply = [n \in Nodes |-> {}]
    /\ topicLock = NoThread
    /\ nodeLock = NoThread
    /\ connection = [n \in Nodes |-> "none"]
    /\ addresses = [n \in Nodes |-> [t \in Topics |-> Absent]]
    /\ subscribed = [n \in Nodes |-> {}]
    /\ publishing = [t \in Topics |-> {}]
    /\ subscribing = [t \in Topics |-> {}]
    /\ life = [o \in Objects |-> "new"]
    /\ told = [s \in Subscribers |-> {}]
    /\ goneBefore = [s \in Subscribers |-> {}]
    /\ raced = {}

-----------------------------------------------------------------------------
Alive == process \notin {"exited", "crashed", "aborted"}

Goto(n, step) == pc' = [pc EXCEPT ![n] = step]

\* unordered_map::operator[] on node_table_: an absent key is inserted.
\* Variant: node_table_[uri] = NodeData{} replaces the entry.
TouchedAnew(S) == [m \in Nodes |-> IF m \in S THEN "null" ELSE connection[m]]
Touched(S) ==
    [m \in Nodes |-> IF m \in S /\ connection[m] = "none" THEN "null"
                                                          ELSE connection[m]]

\* operator[] on publisher_addresses_by_topic: the value, after insertion.
\* Variant: the value as it was.
AddressKept(m, t) == addresses[m][t]
AddressAt(m, t) == IF addresses[m][t] = Absent THEN NoAddress ELSE addresses[m][t]

\* A topic's list of nodes after insert(n), and lists after erase(n) for the
\* topics in S.  Variant: the erasure is forgotten.
Listed(list, n) == list \cup {n}
UnlistedForgotten(lists, n, S) == lists
Unlisted(lists, n, S) ==
    [t \in Topics |-> IF t \in S THEN lists[t] \ {n} ELSE lists[t]]

\* publisher_addresses_by_topic after erase(t).  Variant: forgotten.
ForgottenKept(n, t) == addresses
Forgotten(n, t) == [addresses EXCEPT ![n][t] = Absent]

\* Nodes inside removeNode's loops, which read node_table_ under the topic
\* mutex only, while a step inserts into or erases from node_table_ itself.
Reading == {m \in Nodes : pc[m] = "reading"}
Resize(changed) == raced' = raced \cup (IF changed THEN Reading ELSE {})

Gone(o) == life[o] = "gone"

\* The node's socket is closed, and removeNode runs, or has run.
Leaving(n) == pc[n] \in {"closing", "reading", "erasing", "leaving", "ended"}

\* A send to node m blocks in a full buffer, with the node's sending_lock_ held;
\* on a socket that is closed, or whose peer is gone, it fails at once.
SendBlocks(m) == m \in deaf /\ connection[m] = "set" /\ ~Leaving(m)

\* The handler of node n is in such a send, or may be the next time it sends:
\* the order of its list of nodes is that of an unordered_set.
Stalled(n) == \/ pc[n] = "notify" /\ \E m \in copy[n] : SendBlocks(m)
              \/ pc[n] = "reply" /\ SendBlocks(n)

\* The request of object o can come next from its node: the receive thread
\* waits in receiveMessage() and no object of the same kind is alive there.
Twin(o, x) == /\ x # o
              /\ NodeOf[x] = NodeOf[o]
              /\ TopicOf[x] = TopicOf[o]
              /\ (x \in Publishers) = (o \in Publishers)
Idle(n)      == Alive /\ pc[n] = "receiving"
CanCreate(o) == /\ Idle(NodeOf[o])
                /\ life[o] = "new"
                /\ \A x \in Objects : Twin(o, x) => life[x] \in {"new", "gone"}
CanDestroy(o) == Idle(NodeOf[o]) /\ life[o] = "up"

-----------------------------------------------------------------------------
(* The accepting thread: handleRPCConnections.                             *)

\* A connection is accepted and registered in the node table, after which
\* the accepting thread blocks in startConnection's handshake.  A signal between
\* the loop's test and accept() leads to the same state as one just after.
Accept(n) ==
    /\ process = "running" /\ active
    /\ \A m \in Nodes : pc[m] # "handshake"
    /\ pc[n] = "away"
    /\ nodeLock = NoThread
    /\ connection' = [connection EXCEPT ![n] = "set"]
    /\ Goto(n, "handshake")
    /\ Resize(connection[n] = "none")
    /\ UNCHANGED <<server, job, copy, reply, locks, addresses, subscribed,
                   publishing, subscribing, life, told, goneBefore>>

\* The node's name arrives: addNode, "clr", and the receive thread starts.
CompleteHandshake(n) ==
    /\ process = "running"
    /\ pc[n] = "handshake" /\ n \notin deaf
    /\ nodeLock = NoThread
    /\ Goto(n, "receiving")
    /\ UNCHANGED <<server, job, copy, reply, locks, tables, history>>

\* The client is gone: the exception leaves the accept loop and is caught by the
\* constructor, past the clearing of the tables.
FailHandshake(n) ==
    /\ process = "running"
    /\ pc[n] = "handshake" /\ n \notin deaf
    /\ process' = "failed"
    /\ UNCHANGED <<active, deaf, threads, locks, tables, history>>

\* accept() fails with anything but EAGAIN: the same.
AcceptFails ==
    /\ process = "running" /\ active
    /\ \A m \in Nodes : pc[m] # "handshake"
    /\ process' = "failed"
    /\ UNCHANGED <<active, deaf, threads, locks, tables, history>>

\* SIGINT: MROS::deactivate.
Deactivate ==
    /\ Alive /\ active
    /\ active' = FALSE
    /\ UNCHANGED <<process, deaf, threads, locks, tables, history>>

ClearTopics ==
    /\ process = "running" /\ ~active
    /\ \A m \in Nodes : pc[m] # "handshake"
    /\ topicLock = NoThread
    /\ publishing' = [t \in Topics |-> {}]
    /\ subscribing' = [t \in Topics |-> {}]
    /\ process' = "topicsCleared"
    /\ UNCHANGED <<active, deaf, threads, locks, connection, addresses, subscribed,
                   history>>

ClearNodes ==
    /\ process = "topicsCleared"
    /\ nodeLock = NoThread
    /\ connection' = [n \in Nodes |-> "none"]
    /\ addresses' = [n \in Nodes |-> [t \in Topics |-> Absent]]
    /\ subscribed' = [n \in Nodes |-> {}]
    /\ Resize(\E n \in Nodes : connection[n] # "none")
    /\ process' = "nodesCleared"
    /\ UNCHANGED <<active, deaf, threads, locks, publishing, subscribing,
                   life, told, goneBefore>>

\* The constructor returns and main() ends: ~Mediator destroys the tables, with
\* them the sockets, and the mutexes, whatever the detached threads are doing.
Destroy ==
    /\ process \in {"failed", "nodesCleared"}
    /\ connection' = [n \in Nodes |-> "none"]
    /\ addresses' = [n \in Nodes |-> [t \in Topics |-> Absent]]
    /\ subscribed' = [n \in Nodes |-> {}]
    /\ publishing' = [t \in Topics |-> {}]
    /\ subscribing' = [t \in Topics |-> {}]
    /\ Resize(TRUE)
    /\ process' = "destroyed"
    /\ UNCHANGED <<active, deaf, threads, locks, life, told, goneBefore>>

\* The end of main() ends the detached threads.
\* Variant: main() joins them first.
ExitAfterJoin ==
    /\ process = "destroyed"
    /\ \A n \in Nodes : pc[n] \in {"away", "ended"}
    /\ process' = "exited"
    /\ UNCHANGED <<active, deaf, threads, locks, tables, history>>
Exit ==
    /\ process = "destroyed"
    /\ process' = "exited"
    /\ UNCHANGED <<active, deaf, threads, locks, tables, history>>

-----------------------------------------------------------------------------
(* The receive thread of a node: addPublisher.                             *)

AddPublisherTopic(p) ==
    LET n == NodeOf[p]  t == TopicOf[p] IN
    /\ CanCreate(p)
    /\ topicLock = NoThread
    /\ publishing' = [publishing EXCEPT ![t] = Listed(@, n)]
    /\ copy' = [copy EXCEPT ![n] = subscribing[t]]
    /\ job' = [job EXCEPT ![n] = p]
    /\ Goto(n, "addPublisher")
    /\ life' = [life EXCEPT ![p] = "adding"]
    /\ UNCHANGED <<server, reply, locks, connection, addresses, subscribed,
                   subscribing, told, goneBefore, raced>>

\* node_table_mutex_ is taken here and kept until every copied node is told.
AddPublisherNode(n) ==
    LET p == job[n] IN
    /\ Alive /\ pc[n] = "addPublisher"
    /\ nodeLock = NoThread
    /\ nodeLock' = n
    /\ connection' = Touched({n})
    /\ addresses' = [addresses EXCEPT ![n][TopicOf[p]] = p]
    /\ Goto(n, "notify")
    /\ Resize(connection[n] = "none")
    /\ UNCHANGED <<server, job, copy, reply, topicLock, subscribed,
                   publishing, subscribing, life, told, goneBefore>>

\* One sendRequest of the loop.  The node of a closed socket is not told:
\* the message is dropped.
Notify(n, m) ==
    LET t    == TopicOf[job[n]]
        here == {s \in Subscribers : /\ NodeOf[s] = m /\ TopicOf[s] = t
                                     /\ life[s] \notin {"new", "gone"}} IN
    /\ Alive /\ pc[n] = "notify"
    /\ m \in copy[n]
    /\ connection[m] = "set" /\ ~SendBlocks(m)
    /\ copy' = [copy EXCEPT ![n] = @ \ {m}]
    /\ told' = [s \in Subscribers |->
                   IF s \in here /\ ~Leaving(m) THEN told[s] \cup {job[n]} ELSE told[s]]
    /\ UNCHANGED <<server, pc, job, reply, locks, tables, life, goneBefore, raced>>

\* Variant: node_table_mutex_ is not released.
NotifyDoneLocked(n) ==
    /\ Alive /\ pc[n] = "notify"
    /\ copy[n] = {}
    /\ life' = [life EXCEPT ![job[n]] = "up"]
    /\ job' = [job EXCEPT ![n] = NoJob]
    /\ Goto(n, "receiving")
    /\ UNCHANGED <<server, copy, reply, locks, tables, told, goneBefore, raced>>
NotifyDone(n) ==
    /\ Alive /\ pc[n] = "notify"
    /\ copy[n] = {}
    /\ nodeLock' = NoThread
    /\ life' = [life EXCEPT ![job[n]] = "up"]
    /\ job' = [job EXCEPT ![n] = NoJob]
    /\ Goto(n, "receiving")
    /\ UNCHANGED <<server, copy, reply, topicLock, tables, told, goneBefore, raced>>

-----------------------------------------------------------------------------
(* addSubscriber: its caller sends what it returns back to the node.       *)

AddSubscriberTopic(s) ==
    LET n == NodeOf[s]  t == TopicOf[s] IN
    /\ CanCreate(s)
    /\ topicLock = NoThread
    /\ subscribing' = [subscribing EXCEPT ![t] = Listed(@, n)]
    /\ copy' = [copy EXCEPT ![n] = publishing[t]]
    /\ job' = [job EXCEPT ![n] = s]
    /\ Goto(n, "addSubscriber")
    /\ life' = [life EXCEPT ![s] = "adding"]
    /\ goneBefore' = [goneBefore EXCEPT ![s] = {p \in Publishers : Gone(p)}]
    /\ UNCHANGED <<server, reply, locks, connection, addresses, subscribed,
                   publishing, told, raced>>

\* operator[] inserts the nodes and the addresses it does not find.
AddSubscriberNode(n) ==
    LET t     == TopicOf[job[n]]
        ghost == {m \in copy[n] : addresses[m][t] = Absent} IN
    /\ Alive /\ pc[n] = "addSubscriber"
    /\ nodeLock = NoThread
    /\ subscribed' = [subscribed EXCEPT ![n] = @ \cup {t}]
    /\ reply' = [reply EXCEPT ![n] = {AddressAt(m, t) : m \in copy[n]}]
    /\ addresses' = [m \in Nodes |-> IF m \in copy[n]
                                     THEN [addresses[m] EXCEPT ![t] = AddressAt(m, t)]
                                     ELSE addresses[m]]
    /\ connection' = Touched(copy[n] \cup {n})
    /\ raced' = raced \cup (ghost \cap Reading) \cup
                (IF \E m \in copy[n] \cup {n} : connection[m] = "none"
                 THEN Reading ELSE {})
    /\ copy' = [copy EXCEPT ![n] = {}]
    /\ Goto(n, "reply")
    /\ UNCHANGED <<server, job, locks, publishing, subscribing,
                   life, told, goneBefore>>

AddSubscriberReply(n) ==
    LET s == job[n] IN
    /\ Alive /\ pc[n] = "reply" /\ ~SendBlocks(n)
    /\ told' = [told EXCEPT ![s] = @ \cup reply[n]]
    /\ reply' = [reply EXCEPT ![n] = {}]
    /\ life' = [life EXCEPT ![s] = "up"]
    /\ job' = [job EXCEPT ![n] = NoJob]
    /\ Goto(n, "receiving")
    /\ UNCHANGED <<server, copy, locks, tables, goneBefore, raced>>

-----------------------------------------------------------------------------
(* removePublisher and removeSubscriber: requests name the topic only.     *)

RemovePublisherTopic(p) ==
    LET n == NodeOf[p] IN
    /\ CanDestroy(p)
    /\ topicLock = NoThread
    /\ publishing' = Unlisted(publishing, n, {TopicOf[p]})
    /\ job' = [job EXCEPT ![n] = p]
    /\ Goto(n, "removePublisher")
    /\ life' = [life EXCEPT ![p] = "removing"]
    /\ UNCHANGED <<server, copy, reply, locks, connection, addresses,
                   subscribed, subscribing, told, goneBefore, raced>>

RemovePublisherNode(n) ==
    LET p == job[n] IN
    /\ Alive /\ pc[n] = "removePublisher"
    /\ nodeLock = NoThread
    /\ connection' = Touched({n})
    /\ addresses' = Forgotten(n, TopicOf[p])
    /\ Resize(connection[n] = "none")
    /\ life' = [life EXCEPT ![p] = "gone"]
    /\ job' = [job EXCEPT ![n] = NoJob]
    /\ Goto(n, "receiving")
    /\ UNCHANGED <<server, copy, reply, locks, subscribed, publishing,
                   subscribing, told, goneBefore>>

RemoveSubscriberTopic(s) ==
    LET n == NodeOf[s] IN
    /\ CanDestroy(s)
    /\ topicLock = NoThread
    /\ subscribing' = Unlisted(subscribing, n, {TopicOf[s]})
    /\ job' = [job EXCEPT ![n] = s]
    /\ Goto(n, "removeSubscriber")
    /\ life' = [life EXCEPT ![s] = "removing"]
    /\ UNCHANGED <<server, copy, reply, locks, connection, addresses,
                   subscribed, publishing, told, goneBefore, raced>>

RemoveSubscriberNode(n) ==
    LET s == job[n] IN
    /\ Alive /\ pc[n] = "removeSubscriber"
    /\ nodeLock = NoThread
    /\ connection' = Touched({n})
    /\ subscribed' = [subscribed EXCEPT ![n] = @ \ {TopicOf[s]}]
    /\ Resize(connection[n] = "none")
    /\ life' = [life EXCEPT ![s] = "gone"]
    /\ job' = [job EXCEPT ![n] = NoJob]
    /\ Goto(n, "receiving")
    /\ UNCHANGED <<server, copy, reply, locks, addresses, publishing,
                   subscribing, told, goneBefore>>

-----------------------------------------------------------------------------
(* The closing branch of receiveCycle and its closing callback, removeNode. *)

\* A closing message, answered, or the end of the stream: the socket is closed.
\* The answer to a deaf node would block.
Disconnect(n) ==
    /\ Idle(n) /\ n \notin deaf
    /\ Goto(n, "closing")
    /\ UNCHANGED <<server, job, copy, reply, locks, tables, history>>

\* removeNode takes topic_table_mutex_ and iterates over the node's own entry
\* of node_table_, which that mutex does not protect.
RemoveNodeTopics(n) ==
    /\ Alive /\ pc[n] = "closing"
    /\ topicLock = NoThread
    /\ topicLock' = n
    /\ connection' = Touched({n})
    /\ Goto(n, "reading")
    /\ UNCHANGED <<server, job, copy, reply, nodeLock, addresses, subscribed,
                   publishing, subscribing, history>>

\* The topic lists lose the node; a lookup torn by a concurrent change of
\* node_table_ may also find no topics at all.
RemoveNodeErase(n) ==
    LET published == {t \in Topics : addresses[n][t] # Absent} IN
    /\ Alive /\ pc[n] = "reading"
    /\ \/ /\ publishing' = Unlisted(publishing, n, published)
          /\ subscribing' = Unlisted(subscribing, n, subscribed[n])
       \/ /\ n \in raced
          /\ UNCHANGED <<publishing, subscribing>>
    /\ topicLock' = NoThread
    /\ Goto(n, "erasing")
    /\ UNCHANGED <<server, job, copy, reply, nodeLock, connection, addresses,
                   subscribed, history>>

\* close() returns at once (the socket is no longer connected); erasing the
\* entry destroys the socket whose receive thread runs this very callback.
RemoveNodeEntry(n) ==
    /\ Alive /\ pc[n] = "erasing"
    /\ nodeLock = NoThread
    /\ connection[n] = "set"
    /\ connection' = [connection EXCEPT ![n] = "none"]
    /\ addresses' = [addresses EXCEPT ![n] = [t \in Topics |-> Absent]]
    /\ subscribed' = [subscribed EXCEPT ![n] = {}]
    /\ Resize(TRUE)
    /\ life' = [o \in Objects |-> IF NodeOf[o] = n THEN "gone" ELSE life[o]]
    /\ Goto(n, "leaving")
    /\ UNCHANGED <<server, job, copy, reply, locks, publishing, subscribing,
                   told, goneBefore>>

\* The rest of receiveCycle: unlock, set the flag, notify, end.
EndReceiveCycle(n) ==
    /\ Alive /\ pc[n] = "leaving"
    /\ Goto(n, "ended")
    /\ UNCHANGED <<server, job, copy, reply, locks, tables, history>>

-----------------------------------------------------------------------------
(* Steps that end the process by a signal or by std::terminate.            *)

Crash == /\ Alive
         /\ process' = "crashed"
         /\ UNCHANGED <<active, deaf, threads, locks, tables, history>>

\* node_table_[m].connection is a null pointer, or has just been inserted.
NullConnection(n) ==
    /\ \/ pc[n] = "notify" /\ \E m \in copy[n] : connection[m] # "set"
       \/ pc[n] = "erasing" /\ nodeLock = NoThread /\ connection[n] # "set"
    /\ Crash

\* The loops of removeNode follow freed or half-written hash nodes.
TornRead(n) == pc[n] = "reading" /\ n \in raced /\ Crash

\* A receive thread goes on using the socket that left node_table_.
UseDestroyedSocket(n) ==
    /\ pc[n] \notin {"away", "handshake", "ended"}
    /\ connection[n] # "set"
    /\ Crash

\* recv returns -1: append(buffer, -1) throws std::length_error, which the
\* receive thread does not catch (bson_socket.cpp:72, bson_rpc_socket.cpp:74).
ConnectionReset(n) ==
    /\ Idle(n)
    /\ process' = "aborted"
    /\ UNCHANGED <<active, deaf, threads, locks, tables, history>>

-----------------------------------------------------------------------------
(* A client does not send its name, or somebody sends to a node whose       *)
(* process, suspended or stuck, has left its full buffers unread for good.  *)
StopReading(m) ==
    /\ Alive
    /\ m \notin deaf /\ ~Leaving(m)
    /\ \/ pc[m] \in {"handshake", "reply"}
       \/ \E n \in Nodes : pc[n] = "notify" /\ m \in copy[n]
    /\ deaf' = deaf \cup {m}
    /\ UNCHANGED <<active, process, threads, locks, tables, history>>

\* node_table_mutex_ is held by a handler that waits for a deaf node.
TableHeld == nodeLock \in Nodes /\ Stalled(nodeLock)

\* The accepting thread waits for a client's name or for that mutex for ever.
ServerHeld == TableHeld \/ \E n \in deaf : pc[n] = "handshake"

\* The process has ended, or deaf nodes keep it from going on.
Ended == (~Alive \/ ServerHeld) /\ UNCHANGED vars

-----------------------------------------------------------------------------
AcceptingThread == ClearTopics \/ ClearNodes \/ Destroy \/ Exit

Handler(n) ==
    \/ AddPublisherNode(n)
    \/ \E m \in Nodes : Notify(n, m)
    \/ NotifyDone(n)
    \/ AddSubscriberNode(n)
    \/ AddSubscriberReply(n)
    \/ RemovePublisherNode(n)
    \/ RemoveSubscriberNode(n)
    \/ RemoveNodeTopics(n)
    \/ RemoveNodeErase(n)
    \/ RemoveNodeEntry(n)
    \/ EndReceiveCycle(n)
    \/ NullConnection(n)

Request ==
    \/ \E p \in Publishers : AddPublisherTopic(p) \/ RemovePublisherTopic(p)
    \/ \E s \in Subscribers : AddSubscriberTopic(s) \/ RemoveSubscriberTopic(s)

Environment ==
    \/ Deactivate
    \/ AcceptFails
    \/ \E n \in Nodes : \/ Accept(n) \/ FailHandshake(n) \/ Disconnect(n)
                        \/ StopReading(n)
                        \/ TornRead(n) \/ UseDestroyedSocket(n) \/ ConnectionReset(n)

Next ==
    \/ AcceptingThread
    \/ \E n \in Nodes : CompleteHandshake(n) \/ Handler(n)
    \/ Request
    \/ Environment
    \/ Ended

Spec == Init /\ [][Next]_vars

\* Threads that can run do run, and a node that reads answers the handshake and
\* takes what is sent to it; a handler with a deaf node on its list need not get
\* past it.  Nobody has to send a request, to read, to leave, to die or to signal.
Fairness ==
    /\ WF_vars(AcceptingThread)
    /\ \A n \in Nodes : WF_vars(~Stalled(n) /\ Handler(n))
    /\ \A n \in Nodes : WF_vars(CompleteHandshake(n))

FairSpec == Spec /\ Fairness

-----------------------------------------------------------------------------
(* Properties.                                                             *)

\* Node n is between the two critical sections of a handler that adds or
\* removes an object of this kind on topic t, or its removal is under way or
\* was torn (mediator.cpp:103-214).
Between(n, t, Kind) ==
    \/ pc[n] = "erasing" \/ n \in raced
    \/ /\ pc[n] \in {"addPublisher", "addSubscriber",
                     "removePublisher", "removeSubscriber"}
       /\ job[n] \in Kind /\ TopicOf[job[n]] = t

\* Every handler leaves both tables changed or neither: while the mediator
\* runs, the topic table lists a node as a publisher of a topic exactly when
\* the node table holds the address of a publisher for it, and as a subscriber
\* exactly when the node table has the topic among its subscriptions.
TablesAgree ==
    process = "running" =>
        \A n \in Nodes, t \in Topics :
            /\ ~Between(n, t, Publishers) =>
                   (n \in publishing[t] <=> addresses[n][t] \in Publishers)
            /\ ~Between(n, t, Subscribers) =>
                   (n \in subscribing[t] <=> t \in subscribed[n])

\* An address kept in the node table is the one of the node's publisher alive
\* on that topic: no handler of another node leaves a stale or foreign address.
AddressesAreCurrent ==
    \A n \in Nodes, t \in Topics : addresses[n][t] \in Publishers =>
        LET p == addresses[n][t] IN
        NodeOf[p] = n /\ TopicOf[p] = t /\ life[p] \in {"adding", "up", "removing"}

\* A subscriber is never sent to a publisher whose removal was complete when
\* its addSubscriber request began, nor to one of another topic.
NoStaleIntroduction ==
    \A s \in Subscribers : \A p \in told[s] \cap Publishers :
        p \notin goneBefore[s] /\ TopicOf[p] = TopicOf[s]

\* As long as the accept loop runs and no node has begun to leave, the mediator
\* dereferences registered connections only (mediator.cpp:124,180).  Once main()
\* has left the loop nothing protects the threads from ~Mediator.
CrashOnlyOnDeparture ==
    [][process = "running" /\ process' = "crashed" => \E n \in Nodes : Leaving(n)]_vars

\* Every request that a receive thread started to handle is finished, unless
\* the process ends first: no mutex of the mediator is held for ever.  One thing
\* alone prevents it, and only while it lasts: a node that does not read, to
\* which the thread itself, or the holder of node_table_mutex_, has to send
\* (mediator.cpp:124, bson_rpc_socket.cpp:126).
HandlersFinish ==
    \A n \in Nodes :
        pc[n] \notin {"away", "handshake", "receiving", "ended"} ~>
            \/ pc[n] \in {"receiving", "ended"} \/ ~Alive
            \/ [](Stalled(n) \/ TableHeld)

\* After the termination signal, or when the accept loop has failed, the process
\* ends (mediator.cpp:11,24,83-92), unless the accepting thread waits for ever
\* for the name of a deaf client or for node_table_mutex_.
ShutdownCompletes ==
    ~active \/ process = "failed" ~>
        ~Alive \/ []ServerHeld

\* mediator.hpp:78: addSubscriber "Requests that the calling node connect to
\* all the existing publishers", and addPublisher (72) that all subscribing
\* nodes connect to the new one: no pair that is set up stays unconnected.
AlwaysIntroduced ==
    process = "running" =>
        \A p \in Publishers, s \in Subscribers :
            /\ TopicOf[p] = TopicOf[s]
            /\ life[p] = "up" /\ ~Leaving(NodeOf[p])
            /\ life[s] = "up" /\ ~Leaving(NodeOf[s])
            => p \in told[s]
=============================================================================
