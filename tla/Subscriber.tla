----------------------------- MODULE Subscriber -----------------------------
(***************************************************************************)
(* One Subscriber object (subscriber.hpp): the receiving thread polls the  *)
(* publisher connections one after another and fills message_queue_; the   *)
(* spinning thread and spinOnce() empty it into the user's callback; the   *)
(* Node's RPC thread adds connections; the destructor joins both threads.  *)
(* A message is its publisher and its number in that publisher's stream.   *)
(***************************************************************************)
EXTENDS Naturals, Sequences, FiniteSets

CONSTANTS
    Publishers,         \* publisher URIs
    queue_size_,        \* the size the user asked for
    Modulus,            \* 2^32: queue_size_ + 1 is computed in uint32_t
    MaxSent,            \* bound: messages that each publisher sends
    MaxOnce,            \* bound: calls of spinOnce()
    Dummy, Default      \* MessageT{} pushed by ~Subscriber, used by spinOnce

ASSUME SizesAssumption ==
    /\ Modulus \in Nat \ {0}
    /\ queue_size_ \in 0..(Modulus - 1)
    /\ MaxSent \in Nat /\ MaxOnce \in Nat
ASSUME DummyAssumption ==
    /\ Dummy # Default
    /\ {Dummy, Default} \cap (Publishers \cup (Publishers \X (1..MaxSent))) = {}
ASSUME PublishersAssumption == IsFiniteSet(Publishers)

VARIABLES
    connected,      \* connected_
    queue,          \* message_queue_
    linked,         \* keys of publisher_connections_
    sent,           \* messages that each publisher has written
    got,            \* messages read from each publisher's connection
    closed,         \* publishers that closed their connections
    rx,             \* receiving thread
    todo, dead,     \* its copy of the connections left to read, and failures
    current,        \* the connection it blocks on, one of todo
    spinner,        \* spinning thread
    inHand,         \* the message it took
    dtor,           \* destructor
    arrived,        \* messages in the order in which they were queued
    taken, called,  \* messages taken from the queue, given to the callback
    once            \* calls of spinOnce so far

receiver == <<rx, todo, dead, current>>
spinning == <<spinner, inHand>>
streams  == <<sent, got, closed>>
history  == <<arrived, taken, called, once>>
vars == <<connected, queue, linked, streams, receiver, spinning, dtor, history>>

Messages == Publishers \X (1..MaxSent)

TypeOK ==
    /\ connected \in BOOLEAN
    /\ queue \in Seq(Messages \cup {Dummy})
    /\ linked \in SUBSET Publishers
    /\ sent \in [Publishers -> 0..MaxSent]
    /\ got \in [Publishers -> 0..MaxSent]
    /\ closed \in SUBSET Publishers
    /\ rx \in {"none", "copy", "read", "blocked", "ended"}
    /\ todo \in SUBSET Publishers
    /\ dead \in SUBSET Publishers
    /\ current \in Publishers \cup {Dummy}
    /\ spinner \in {"none", "test", "take", "asleep", "callback", "ended"}
    /\ inHand \in Messages \cup {Dummy}
    /\ dtor \in {"no", "joinReceiver", "dummy", "joinSpinner", "done"}
    /\ arrived \in Seq(Messages)
    /\ taken \in Seq(Messages \cup {Dummy})
    /\ called \in SUBSET (Messages \cup {Dummy, Default})
    /\ once \in 0..MaxOnce

Init ==
    /\ connected = TRUE
    /\ queue = <<>> /\ linked = {}
    /\ sent = [p \in Publishers |-> 0]
    /\ got = [p \in Publishers |-> 0]
    /\ closed = {}
    /\ rx = "none" /\ todo = {} /\ dead = {} /\ current = Dummy
    /\ spinner = "none" /\ inHand = Dummy
    /\ dtor = "no"
    /\ arrived = <<>> /\ taken = <<>> /\ called = {}
    /\ once = 0

-----------------------------------------------------------------------------
(* The publishers' processes.                                              *)

Send(p) ==
    /\ p \in linked \ closed
    /\ sent[p] < MaxSent
    /\ sent' = [sent EXCEPT ![p] = @ + 1]
    /\ UNCHANGED <<connected, queue, linked, got, closed, receiver, spinning,
                   dtor, history>>

ClosePublisher(p) ==
    /\ p \notin closed
    /\ closed' = closed \cup {p}
    /\ UNCHANGED <<connected, queue, linked, sent, got, receiver, spinning,
                   dtor, history>>

-----------------------------------------------------------------------------
(* The Node: connectToPublisher, disconnect, spin, spinOnce.               *)

\* The Node holds a shared_ptr meanwhile, so the destructor is not running.
\* The receiving thread is started by the first connection only.  Connecting
\* once more to a URI of the map changes nothing here: insert() keeps the old
\* entry and the new socket is destroyed, a stuttering step.
ConnectToPublisher(p) ==
    /\ dtor = "no"
    /\ p \notin linked \cup closed
    /\ linked' = linked \cup {p}
    /\ rx' = IF rx = "none" THEN "copy" ELSE rx
    /\ UNCHANGED <<connected, queue, streams, todo, dead, current, spinning,
                   dtor, history>>

Disconnect ==
    /\ dtor = "no" /\ connected
    /\ connected' = FALSE
    /\ UNCHANGED <<queue, linked, streams, receiver, spinning, dtor, history>>

\* Left out: a second spin() assigns to a joinable std::thread and so ends the
\* process (std::terminate, subscriber.hpp:152).
Spin ==
    /\ dtor = "no" /\ spinner = "none"
    /\ spinner' = "test"
    /\ UNCHANGED <<connected, queue, linked, streams, receiver, inHand, dtor,
                   history>>

\* An empty queue leaves the message default-constructed.
SpinOnce ==
    /\ dtor = "no" /\ once < MaxOnce
    /\ once' = once + 1
    /\ IF queue = <<>>
       THEN /\ called' = called \cup {Default}
            /\ UNCHANGED <<queue, taken>>
       ELSE /\ called' = called \cup {Head(queue)}
            /\ taken' = Append(taken, Head(queue))
            /\ queue' = Tail(queue)
    /\ UNCHANGED <<connected, linked, streams, receiver, spinning, dtor, arrived>>

-----------------------------------------------------------------------------
(* The receiving thread: receiveMessagesUntilDisconnect.                   *)

CopyConnections ==
    /\ rx = "copy"
    /\ IF connected THEN rx' = "read" /\ todo' = linked
                    ELSE rx' = "ended" /\ UNCHANGED todo
    /\ UNCHANGED <<connected, queue, linked, streams, dead, current, spinning,
                   dtor, history>>

\* The map is iterated in an order of its own; receiveMessage() then blocks.
NextConnection(p) ==
    /\ rx = "read" /\ p \in todo
    /\ rx' = "blocked" /\ current' = p
    /\ todo' = todo \ {p}
    /\ UNCHANGED <<connected, queue, linked, streams, dead, spinning, dtor,
                   history>>

\* "while (size > queue_size_ + 1) pop" before the push.  Variants: >= drops
\* one earlier; the test is left out.
Limit == (queue_size_ + 1) % Modulus
TrimEarly(q) == IF Len(q) < Limit THEN q ELSE SubSeq(q, Len(q) - Limit + 2, Len(q))
TrimNot(q) == q
Trim(q) == IF Len(q) <= Limit THEN q ELSE SubSeq(q, Len(q) - Limit + 1, Len(q))

\* The spinning thread is notified when the queue was empty.  Variant: never.
WakeNever(q) == UNCHANGED spinner
Wake(q) == spinner' = IF Len(q) = 1 /\ spinner = "asleep" THEN "take" ELSE spinner

ReadMessage ==
    LET m == <<current, got[current] + 1>>
        q == Append(Trim(queue), m) IN
    /\ rx = "blocked" /\ got[current] < sent[current]
    /\ got' = [got EXCEPT ![current] = @ + 1]
    /\ queue' = q
    /\ Wake(q)
    /\ arrived' = Append(arrived, m)
    /\ rx' = "read"
    /\ UNCHANGED <<connected, linked, sent, closed, todo, dead, current, inHand,
                   dtor, taken, called, once>>

\* Variant: the message read before is queued again as a new one.
ReadFailureQueued ==
    /\ rx = "blocked" /\ current \in closed
    /\ got[current] = sent[current]
    /\ queue' = Append(queue, <<current, got[current] + 1>>)
    /\ dead' = dead \cup {current}
    /\ rx' = "read"
    /\ UNCHANGED <<connected, linked, streams, todo, current, spinning, dtor,
                   history>>
ReadFailure ==
    /\ rx = "blocked" /\ current \in closed
    /\ got[current] = sent[current]
    /\ dead' = dead \cup {current}
    /\ rx' = "read"
    /\ UNCHANGED <<connected, queue, linked, streams, todo, current, spinning,
                   dtor, history>>

RemoveDead ==
    /\ rx = "read" /\ todo = {}
    /\ linked' = linked \ dead
    /\ dead' = {}
    /\ rx' = "copy"
    /\ UNCHANGED <<connected, queue, streams, todo, current, spinning, dtor,
                   history>>

-----------------------------------------------------------------------------
(* The spinning thread: executeCallbacksUntilDisconnect.                   *)

SpinTest ==
    /\ spinner = "test"
    /\ spinner' = IF connected THEN "take" ELSE "ended"
    /\ UNCHANGED <<connected, queue, linked, streams, receiver, inHand, dtor,
                   history>>

\* wait() with its predicate; spurious wake-ups find the same predicate.
SpinWait ==
    /\ spinner = "take" /\ queue = <<>>
    /\ spinner' = "asleep"
    /\ UNCHANGED <<connected, queue, linked, streams, receiver, inHand, dtor,
                   history>>

SpinTake ==
    /\ spinner = "take" /\ queue # <<>>
    /\ inHand' = Head(queue)
    /\ queue' = Tail(queue)
    /\ taken' = Append(taken, Head(queue))
    /\ spinner' = "callback"
    /\ UNCHANGED <<connected, linked, streams, receiver, dtor, arrived, called,
                   once>>

\* Variant: the second test of connected_ is left out.
SpinCallbackAlways ==
    /\ spinner = "callback"
    /\ called' = called \cup {inHand}
    /\ spinner' = "test"
    /\ UNCHANGED <<connected, queue, linked, streams, receiver, inHand, dtor,
                   arrived, taken, once>>
SpinCallback ==
    /\ spinner = "callback"
    /\ called' = IF connected THEN called \cup {inHand} ELSE called
    /\ spinner' = "test"
    /\ UNCHANGED <<connected, queue, linked, streams, receiver, inHand, dtor,
                   arrived, taken, once>>

-----------------------------------------------------------------------------
(* ~Subscriber.                                                            *)

Destroy ==
    /\ dtor = "no"
    /\ connected' = FALSE
    /\ dtor' = "joinReceiver"
    /\ UNCHANGED <<queue, linked, streams, receiver, spinning, history>>

JoinReceiver ==
    /\ dtor = "joinReceiver" /\ rx \in {"none", "ended"}
    /\ dtor' = IF spinner = "none" THEN "done" ELSE "dummy"
    /\ UNCHANGED <<connected, queue, linked, streams, receiver, spinning, history>>

\* Variant: the spinning thread is joined without the dummy message.
PushNothing ==
    /\ dtor = "dummy"
    /\ dtor' = "joinSpinner"
    /\ UNCHANGED <<connected, queue, linked, streams, receiver, spinning, history>>
PushDummy ==
    /\ dtor = "dummy"
    /\ queue' = Append(queue, Dummy)
    /\ spinner' = IF spinner = "asleep" THEN "take" ELSE spinner
    /\ dtor' = "joinSpinner"
    /\ UNCHANGED <<connected, linked, streams, receiver, inHand, history>>

\* The subscriber is then removed from its Node, which tells the Mediator.
JoinSpinner ==
    /\ dtor = "joinSpinner" /\ spinner = "ended"
    /\ dtor' = "done"
    /\ UNCHANGED <<connected, queue, linked, streams, receiver, spinning, history>>

Destroyed == dtor = "done" /\ UNCHANGED vars

-----------------------------------------------------------------------------
ReceivingThread ==
    \/ CopyConnections \/ (\E p \in Publishers : NextConnection(p))
    \/ ReadMessage \/ ReadFailure \/ RemoveDead
SpinningThread == SpinTest \/ SpinWait \/ SpinTake \/ SpinCallback
Destructor     == JoinReceiver \/ PushDummy \/ JoinSpinner

Next ==
    \/ \E p \in Publishers : Send(p) \/ ClosePublisher(p) \/ ConnectToPublisher(p)
    \/ Disconnect \/ Spin \/ SpinOnce \/ Destroy
    \/ ReceivingThread \/ SpinningThread \/ Destructor
    \/ Destroyed

Spec == Init /\ [][Next]_vars

\* The threads of the subscriber run; publishers owe it nothing.
FairSpec == /\ Spec
            /\ WF_vars(ReceivingThread)
            /\ WF_vars(SpinningThread)
            /\ WF_vars(Destructor)

-----------------------------------------------------------------------------
(* Properties.                                                             *)

ToSet(q) == {q[i] : i \in DOMAIN q}

\* The spinning thread never sleeps on a queue that holds something, although
\* it is notified only when the queue was empty and spinOnce() takes messages
\* too (subscriber.hpp:198,230).
NoLostWakeup == spinner = "asleep" => queue = <<>>

\* However fast the publishers are, the queue stays bounded, by what the code
\* trims to and the push behind it: queue_size_ + 2, where the comment of
\* subscriber.hpp:190 reads as queue_size_.  The dummy message of the destructor
\* comes on top (subscriber.hpp:109,192).
QueueBounded == Len(queue) <= Limit + 1 + (IF dtor \in {"joinSpinner", "done"} THEN 1 ELSE 0)

\* What the consumers take, spin() and spinOnce() together, is what arrived, in
\* its order; a message is passed over only when at least queue_size_ + 2 newer
\* ones have arrived, if queue_size_ + 1 fits its type: the loop trims to that
\* length before the push (subscriber.hpp:192).
NewestInOrder ==
    LET At(m) == CHOOSE i \in DOMAIN arrived : arrived[i] = m IN
    /\ \A i, j \in DOMAIN taken :
           i < j /\ Dummy \notin {taken[i], taken[j]} => At(taken[i]) < At(taken[j])
    /\ queue_size_ + 1 < Modulus =>
           \A i \in DOMAIN arrived :
               \/ arrived[i] \in ToSet(taken) \cup ToSet(queue)
               \/ Len(arrived) - i >= queue_size_ + 2

\* The dummy message of the destructor never reaches the user's callback
\* (subscriber.hpp:105-107,240).
DummyNotCalled == Dummy \notin called

\* ~Subscriber returns when the publishers' ends are closed, wherever the
\* receiving and the spinning thread are at that time.
DestructorReturns ==
    (dtor = "joinReceiver" /\ linked \subseteq closed) ~> dtor = "done"
=============================================================================
