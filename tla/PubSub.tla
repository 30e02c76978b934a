------------------------------- MODULE PubSub -------------------------------
(***************************************************************************)
(* A Publisher and a Subscriber in two processes, over their connection:   *)
(* the module Publisher, whose peer "sub" is the Subscriber of the module  *)
(* of that name, whose only publisher is "pub".  A step of one is a step   *)
(* of the other where it touches the connection, and leaves it alone       *)
(* elsewhere.  Each module states what it expects of its peer; here both   *)
(* peers are the code.                                                     *)
(***************************************************************************)
EXTENDS Naturals, Sequences, FiniteSets

CONSTANTS
    pub, sub,
    Users, Capacity, MaxPublished, Nobody,          \* see Publisher
    queue_size_, Modulus, MaxOnce, Dummy, Default   \* see Subscriber

ASSUME PubSubAssumption ==
    /\ Capacity \in Nat \ {0} /\ MaxPublished \in Nat /\ IsFiniteSet(Users)
    /\ sub \notin Users /\ Nobody \notin Users \cup {sub}

VARIABLES
    pubConnected, acceptor, hand, listening, backlog, mutex, connections, user,
    pubTodo, published, reader, stream, read, joined,
    subConnected, queue, linked, rx, subTodo, dead, current, spinner, inHand,
    dtor, arrived, taken, called, once

Pub == INSTANCE Publisher WITH
           Subscribers <- {sub}, connected <- pubConnected, todo <- pubTodo

\* The connection as the Subscriber sees it: what was written, what it read,
\* and whether the publisher's end is closed, or can no longer be reached.
Closed == IF sub \notin Pub!Linked /\ ~(Pub!Runs /\ listening) THEN {pub} ELSE {}
Sub == INSTANCE Subscriber WITH
           Publishers <- {pub}, MaxSent <- MaxPublished,
           connected <- subConnected, todo <- subTodo,
           sent <- [p \in {pub} |-> Len(stream[sub])],
           got <- [p \in {pub} |-> read[sub]], closed <- Closed

pubVars == <<pubConnected, acceptor, hand, listening, backlog, mutex, connections,
             user, pubTodo, published, reader, stream, read, joined>>
subVars == <<subConnected, queue, linked, rx, subTodo, dead, current, spinner,
             inHand, dtor, arrived, taken, called, once>>
vars == <<pubVars, subVars>>

Init == Pub!Init /\ Sub!Init

-----------------------------------------------------------------------------
(* Steps on the connection.                                                *)

\* connect() and the insertion are one step: the connection is not read before.
Connect ==
    /\ Pub!Connect(sub)
    /\ IF Pub!Runs /\ listening THEN Sub!ConnectToPublisher(pub)
                                ELSE dtor = "no" /\ UNCHANGED subVars

ReadMessage == Pub!Read(sub) /\ Sub!ReadMessage

\* erase() of the connection destroys its socket.  Variant: it is kept.
RemoveKept ==
    /\ UNCHANGED pubVars
    /\ Sub!RemoveDead
RemoveDead ==
    /\ IF pub \in dead THEN Pub!ReadEnd(sub) ELSE UNCHANGED pubVars
    /\ Sub!RemoveDead

\* The receiving thread ends and leaves its connection open, unread.
CopyConnections ==
    /\ IF ~subConnected /\ reader[sub] = "reading" THEN Pub!Stop(sub)
                                                   ELSE UNCHANGED pubVars
    /\ Sub!CopyConnections

\* The members go last in the destructor, publisher_connections_ with them.
CloseSockets == IF reader[sub] = "none" \/ reader[sub] = "gone"
                THEN UNCHANGED pubVars ELSE Pub!Leave(sub)
JoinReceiver ==
    /\ IF spinner = "none" THEN CloseSockets ELSE UNCHANGED pubVars
    /\ Sub!JoinReceiver
JoinSpinner ==
    /\ CloseSockets
    /\ Sub!JoinSpinner

-----------------------------------------------------------------------------
(* All other steps are of one side alone.                                  *)

SendingUsers    == \E u \in Users : Pub!Publishing(u)
PublisherThread == UNCHANGED subVars /\ (SendingUsers \/ Pub!AcceptingThread)
PublisherOther  == UNCHANGED subVars /\ (Pub!Disconnect \/ Pub!AcceptFails
                      \/ \E u \in Users : Pub!StartPublish(u) \/ Pub!Release(u))

Receiving ==
    \/ CopyConnections \/ ReadMessage \/ RemoveDead
    \/ (UNCHANGED pubVars /\ (Sub!NextConnection(pub) \/ Sub!ReadFailure))
Spinning   == UNCHANGED pubVars /\ Sub!SpinningThread
Destructor == JoinReceiver \/ JoinSpinner \/ (UNCHANGED pubVars /\ Sub!PushDummy)
SubscriberOther ==
    UNCHANGED pubVars /\ (Sub!Disconnect \/ Sub!Spin \/ Sub!SpinOnce \/ Sub!Destroy)

Next == Connect \/ PublisherThread \/ PublisherOther \/ Receiving \/ Spinning
        \/ Destructor \/ SubscriberOther

Spec == Init /\ [][Next]_vars

\* The threads of both processes run; the users owe nothing.
FairSpec ==
    /\ Spec
    /\ WF_vars(UNCHANGED subVars /\ Pub!AcceptingThread)
    /\ \A u \in Users : WF_vars(UNCHANGED subVars /\ Pub!Publishing(u))
    /\ WF_vars(Receiving) /\ WF_vars(Spinning) /\ WF_vars(Destructor)

-----------------------------------------------------------------------------
(* Properties.                                                             *)

\* The Subscriber is all that Publisher expects of its peers, the liveness of
\* its reading included, wherever its threads and its destructor are.
PeersAreSubscribers == Pub!FairSpec

\* The Publisher is all that Subscriber expects of its: it writes to a
\* connection only while both ends are open.
PublishersAreAsExpected == Sub!Spec

\* A message that publish() has handed to a connection reaches the user's
\* callback or, taken by spinOnce(), its caller, as long as the subscriber spins:
\* again and again nothing that was sent is still under way, though the publisher
\* may be destroyed or its process die right after.  A message is dropped only
\* for queue_size_ + 2 newer ones (subscriber.hpp:192).
Delivered ==
    []<>(subConnected /\ spinner # "none" =>
             \A i \in 1..Len(stream[sub]) :
                 <<pub, i>> \in called \/ Len(arrived) - i >= queue_size_ + 2)

\* publish() does not go on for ever: it waits at most as long as the subscriber's
\* user leaves it disconnected without destroying it; a destructor on its way
\* frees the publisher, though it joins its threads before it closes the
\* connection.
PublishReturns ==
    \A u \in Users :
        []<>(user[u] \in {"locking", "sending"} =>
                 ~Pub!Runs \/ (~subConnected /\ dtor = "no"))

\* The two shutdowns do not wait for each other: once the publisher is to
\* disconnect, both it and the destructor of the subscriber come to an end,
\* although publish() may block on one that has stopped reading, with the
\* mutex that closing the connections takes, and the receiving thread on a
\* publisher that sends nothing (publisher.hpp:147, subscriber.hpp:102).
BothShutDown ==
    []<>(dtor # "no" /\ ~pubConnected =>
             dtor = "done" /\ acceptor \in {"ended", "aborted"})
=============================================================================
