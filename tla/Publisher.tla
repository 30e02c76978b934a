----------------------------- MODULE Publisher -----------------------------
(***************************************************************************)
(* One Publisher object (publisher.hpp) and the connections of its         *)
(* subscribers.  The accepting thread polls the server socket and adds     *)
(* what it accepts; threads of the user publish, one at a time, with       *)
(* subscriber_connections_mutex_ held while they send; the Node's          *)
(* disconnect() and the destructor make the accepting thread close.        *)
(* Messages are numbered in the order in which they are published.         *)
(***************************************************************************)
EXTENDS Naturals, Sequences, SequencesExt

CONSTANTS
    Subscribers, Users,     \* the peers; the user's threads that hold it
    Capacity,               \* messages that fit in the buffers of a connection
    MaxPublished,           \* bound: calls of publish()
    Nobody

ASSUME PublisherAssumption ==
    /\ Capacity \in Nat \ {0} /\ MaxPublished \in Nat
    /\ IsFiniteSet(Users) /\ Subscribers \cap Users = {}
    /\ Nobody \notin Subscribers \cup Users

VARIABLES
    connected,      \* connected_
    acceptor,       \* accepting thread
    hand,           \* its subscriber_connection
    listening,      \* the server socket is open
    backlog,        \* clients that the kernel has connected to it
    mutex,          \* subscriber_connections_mutex_
    connections,    \* subscriber_connections_
    user,           \* the user's threads
    todo,           \* connections that the running publish() has yet to serve
    published,      \* messages published
    reader,         \* each subscriber's end of its connection
    stream, read,   \* messages sent on it, messages it has read
    joined          \* messages published before it was added

accepting == <<connected, acceptor, hand, listening, backlog>>
sending   == <<mutex, connections, user, todo, published>>
peers     == <<reader, stream, read, joined>>
publisherVars == <<accepting, sending, peers>>

TypeOK ==
    /\ connected \in BOOLEAN /\ listening \in BOOLEAN
    /\ acceptor \in {"test", "accept", "adding", "sleep", "close", "clear", "ended",
                     "aborted"}
    /\ hand \in Subscribers \cup {Nobody}
    /\ backlog \in Seq(Subscribers) /\ connections \in Seq(Subscribers)
    /\ todo \in Seq(Subscribers)
    /\ mutex \in Users \cup {Nobody} /\ \A u \in Users : user[u] = "sending" <=> mutex = u
    /\ user \in [Users -> {"idle", "locking", "sending", "released", "joining", "gone"}]
    /\ published \in 0..MaxPublished
    /\ reader \in [Subscribers -> {"none", "reading", "stopped", "gone"}]
    /\ stream \in [Subscribers -> Seq(1..MaxPublished)]
    /\ read \in [Subscribers -> 0..MaxPublished]
    /\ joined \in [Subscribers -> 0..MaxPublished]

Init ==
    /\ connected = TRUE /\ acceptor = "test" /\ hand = Nobody
    /\ listening = TRUE /\ backlog = <<>>
    /\ mutex = Nobody /\ connections = <<>> /\ todo = <<>> /\ published = 0
    /\ user = [u \in Users |-> "idle"]
    /\ reader = [s \in Subscribers |-> "none"]
    /\ stream = [s \in Subscribers |-> <<>>]
    /\ read = [s \in Subscribers |-> 0]
    /\ joined = [s \in Subscribers |-> 0]

Runs == acceptor # "aborted"

\* Subscribers whose connection is open at the publisher's end.
Linked == IF Runs THEN ToSet(backlog) \cup ToSet(connections) \cup {hand} ELSE {}

-----------------------------------------------------------------------------
(* publish().                                                              *)

StartPublish(u) ==
    /\ Runs /\ user[u] = "idle"
    /\ published + Cardinality({v \in Users : user[v] = "locking"}) < MaxPublished
    /\ user' = [user EXCEPT ![u] = "locking"]
    /\ UNCHANGED <<accepting, mutex, connections, todo, published, peers>>

\* Variant: publish() works without the mutex.
LockNothing(u) ==
    /\ Runs /\ user[u] = "locking"
    /\ mutex' = u
    /\ published' = published + 1 /\ todo' = connections
    /\ user' = [user EXCEPT ![u] = "sending"]
    /\ UNCHANGED <<accepting, connections, peers>>
LockConnections(u) ==
    /\ Runs /\ user[u] = "locking" /\ mutex = Nobody
    /\ mutex' = u
    /\ published' = published + 1 /\ todo' = connections
    /\ user' = [user EXCEPT ![u] = "sending"]
    /\ UNCHANGED <<accepting, connections, peers>>

\* sendMessage to the next connection; the first bytes of a message need room.
Send(u) ==
    LET s == Head(todo) IN
    /\ Runs /\ user[u] = "sending" /\ todo # <<>>
    /\ reader[s] # "gone" /\ Len(stream[s]) - read[s] < Capacity
    /\ stream' = [stream EXCEPT ![s] = Append(@, published)]
    /\ todo' = Tail(todo)
    /\ UNCHANGED <<accepting, mutex, connections, user, published, reader, read, joined>>

\* It throws when the subscriber is gone, and erase_if drops the connection.
\* Variant: the exception leaves publish(), the mutex locked.
SendThrows(u) ==
    /\ Runs /\ user[u] = "sending" /\ todo # <<>>
    /\ reader[Head(todo)] = "gone"
    /\ user' = [user EXCEPT ![u] = "idle"]
    /\ UNCHANGED <<accepting, mutex, connections, todo, published, peers>>
Erase(u) ==
    /\ Runs /\ user[u] = "sending" /\ todo # <<>>
    /\ reader[Head(todo)] = "gone"
    /\ \E i \in DOMAIN connections :
           connections[i] = Head(todo) /\ connections' = RemoveAt(connections, i)
    /\ todo' = Tail(todo)
    /\ UNCHANGED <<accepting, mutex, user, published, peers>>

Unlock(u) ==
    /\ Runs /\ user[u] = "sending" /\ todo = <<>>
    /\ mutex' = Nobody
    /\ user' = [user EXCEPT ![u] = "idle"]
    /\ UNCHANGED <<accepting, connections, todo, published, peers>>

-----------------------------------------------------------------------------
(* disconnect() and ~Publisher.                                            *)

\* The Node holds a shared_ptr meanwhile.
Disconnect ==
    /\ Runs /\ connected
    /\ \E u \in Users : user[u] \in {"idle", "locking", "sending"}
    /\ connected' = FALSE
    /\ UNCHANGED <<acceptor, hand, listening, backlog, sending, peers>>

\* The last thread to let go of the object runs its destructor.
Release(u) ==
    /\ Runs /\ user[u] = "idle"
    /\ IF \A v \in Users \ {u} : user[v] = "released"
       THEN user' = [user EXCEPT ![u] = "joining"] /\ connected' = FALSE
       ELSE user' = [user EXCEPT ![u] = "released"] /\ UNCHANGED connected
    /\ UNCHANGED <<acceptor, hand, listening, backlog, mutex, connections, todo,
                   published, peers>>

Join(u) ==
    /\ user[u] = "joining" /\ acceptor = "ended"
    /\ user' = [user EXCEPT ![u] = "gone"]
    /\ UNCHANGED <<accepting, mutex, connections, todo, published, peers>>

-----------------------------------------------------------------------------
(* The accepting thread: acceptConnectionsUntilDisconnect.                 *)

AcceptTest ==
    /\ acceptor = "test"
    /\ acceptor' = IF connected THEN "accept" ELSE "close"
    /\ UNCHANGED <<connected, hand, listening, backlog, sending, peers>>

\* accept() does not block.
Accept ==
    /\ acceptor = "accept"
    /\ IF backlog = <<>>
       THEN acceptor' = "sleep" /\ UNCHANGED <<hand, backlog>>
       ELSE acceptor' = "adding" /\ hand' = Head(backlog) /\ backlog' = Tail(backlog)
    /\ UNCHANGED <<connected, listening, sending, peers>>

\* Any other error than an empty backlog throws out of the thread.
AcceptFails ==
    /\ acceptor = "accept"
    /\ acceptor' = "aborted"
    /\ UNCHANGED <<connected, hand, listening, backlog, sending, peers>>

Add ==
    /\ acceptor = "adding" /\ mutex = Nobody
    /\ connections' = Append(connections, hand)
    /\ joined' = [joined EXCEPT ![hand] = published]
    /\ acceptor' = "sleep"
    /\ UNCHANGED <<connected, hand, listening, backlog, mutex, user, todo, published,
                   reader, stream, read>>

Sleep ==
    /\ acceptor = "sleep"
    /\ acceptor' = "test" /\ hand' = Nobody
    /\ UNCHANGED <<connected, listening, backlog, sending, peers>>

\* Clients that nobody accepted are reset.  Variant: the server stays open.
CloseNothing ==
    /\ acceptor = "close"
    /\ acceptor' = "clear"
    /\ UNCHANGED <<connected, hand, listening, backlog, sending, peers>>
CloseServer ==
    /\ acceptor = "close"
    /\ listening' = FALSE /\ backlog' = <<>>
    /\ acceptor' = "clear"
    /\ UNCHANGED <<connected, hand, sending, peers>>

\* Variant: without the mutex.
ClearUnlocked ==
    /\ acceptor = "clear"
    /\ connections' = <<>>
    /\ acceptor' = "ended"
    /\ UNCHANGED <<connected, hand, listening, backlog, mutex, user, todo, published,
                   peers>>
Clear ==
    /\ acceptor = "clear" /\ mutex = Nobody
    /\ connections' = <<>>
    /\ acceptor' = "ended"
    /\ UNCHANGED <<connected, hand, listening, backlog, mutex, user, todo, published,
                   peers>>

-----------------------------------------------------------------------------
(* The subscribers' processes.                                             *)

Connect(s) ==
    /\ reader[s] = "none"
    /\ IF Runs /\ listening
       THEN reader' = [reader EXCEPT ![s] = "reading"] /\ backlog' = Append(backlog, s)
       ELSE reader' = [reader EXCEPT ![s] = "gone"] /\ UNCHANGED backlog
    /\ UNCHANGED <<connected, acceptor, hand, listening, sending, stream, read, joined>>

Read(s) ==
    /\ reader[s] = "reading" /\ read[s] < Len(stream[s])
    /\ read' = [read EXCEPT ![s] = @ + 1]
    /\ UNCHANGED <<accepting, sending, reader, stream, joined>>

\* The end of the stream, or a reset.
ReadEnd(s) ==
    /\ reader[s] = "reading" /\ read[s] = Len(stream[s]) /\ s \notin Linked
    /\ reader' = [reader EXCEPT ![s] = "gone"]
    /\ UNCHANGED <<accepting, sending, stream, read, joined>>

\* A subscriber may stop reading and keep its socket open, or close it.
Stop(s) ==
    /\ reader[s] = "reading"
    /\ reader' = [reader EXCEPT ![s] = "stopped"]
    /\ UNCHANGED <<accepting, sending, stream, read, joined>>

Leave(s) ==
    /\ reader[s] \in {"reading", "stopped"}
    /\ reader' = [reader EXCEPT ![s] = "gone"]
    /\ UNCHANGED <<accepting, sending, stream, read, joined>>

-----------------------------------------------------------------------------
\* publish() waits for a subscriber that has stopped reading.
Blocked == mutex # Nobody /\ todo # <<>> /\ reader[Head(todo)] = "stopped"

Publishing(u) == LockConnections(u) \/ Send(u) \/ Erase(u) \/ Unlock(u) \/ Join(u)
AcceptingThread ==
    AcceptTest \/ Accept \/ Add \/ Sleep \/ CloseServer \/ Clear
Reading(s) == Read(s) \/ ReadEnd(s)
Subscriber(s) == Connect(s) \/ Reading(s) \/ Stop(s) \/ Leave(s)

Next ==
    \/ \E u \in Users : StartPublish(u) \/ Publishing(u) \/ Release(u)
    \/ Disconnect \/ AcceptingThread \/ AcceptFails
    \/ \E s \in Subscribers : Subscriber(s)

Spec == Init /\ [][Next]_publisherVars

\* Threads run on, and a subscriber that reads reads on.
FairSpec == /\ Spec
            /\ WF_publisherVars(AcceptingThread)
            /\ \A u \in Users : WF_publisherVars(Publishing(u))
            /\ \A s \in Subscribers : WF_publisherVars(Reading(s))

-----------------------------------------------------------------------------
(* Properties.                                                             *)

\* "Hold the lock for the whole send cycle so that shutdown will not cause
\* messages to only be sent to some subscribers" (publisher.hpp:111): whoever
\* was added has been sent every message since, in order and once; one that
\* has left, all up to some point.
NoGaps ==
    \A s \in Subscribers :
        /\ \A i \in DOMAIN stream[s] : stream[s][i] = joined[s] + i
        /\ s \in ToSet(connections) =>
               Len(stream[s]) = published - joined[s]
                                - (IF mutex # Nobody /\ s \in ToSet(todo) THEN 1 ELSE 0)

\* After disconnect() or in the destructor the accepting thread comes to its
\* end, which nothing but a blocked publish() can hold up, and no subscriber is
\* left waiting on a connection that nobody serves: those in the backlog and
\* those just accepted are closed as well (publisher.hpp:143-149).
ShutdownCompletes ==
    ~connected ~> \/ Blocked
                  \/ /\ acceptor \in {"ended", "aborted"}
                     /\ \A s \in Subscribers : reader[s] # "reading"
=============================================================================
