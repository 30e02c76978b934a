-------------------------------- MODULE Node --------------------------------
(***************************************************************************)
(* One Node and the MROS instance of its process (node.cpp, node.hpp,      *)
(* mros.cpp).  The user's main thread constructs the Node, creates and     *)
(* drops publishers and subscribers, spins and destroys the Node; SIGINT   *)
(* interrupts that thread and runs MROS::deactivate on it; the receive     *)
(* thread of the RPC client runs the Mediator's requests and the closing   *)
(* callback.  All three may run Node::disconnect, and ~Subscriber of a     *)
(* subscriber of which they have lock()ed the last pointer.  The client is *)
(* reduced to what RpcSocket shows of it; the topic of the publishers'     *)
(* entries in publishers_ is always the moved-from string.                 *)
(***************************************************************************)
EXTENDS Naturals

CONSTANTS
    Topics, Subscribers, Publishers,
    TopicOf,            \* the topic of each subscriber
    Nothing

ASSUME SubscribersAssumption ==
    /\ TopicOf \in [Subscribers -> Topics]
    /\ Subscribers \cap Publishers = {}
    /\ Nothing \notin Subscribers \cup Publishers

Objects == Subscribers \cup Publishers

\* The stacks that may be inside disconnect(): "signal" is the handler's frame
\* on top of the user's thread.
Frames == {"user", "receiver", "signal"}

VARIABLES
    main,           \* where the user's thread is
    dis,            \* where each frame is inside disconnect()
    rx,             \* where the receive thread of the RPC client is
    lock,           \* the frame that holds sending_lock_ of the RPC client
    connected,      \* Node::connected_
    rpc,            \* is_connected_ of the RPC client
    received,       \* closing_message_received_ of the RPC client
    active,         \* MROS::active_
    routine,        \* the Node's deactivate routine is registered
    subscribers,    \* subscribers_, topic to object
    publisher,      \* publishers_[""]
    life,           \* objects: new, held by the user, released by it, dying, gone
    up,             \* objects whose own connected_ is true
    hold,           \* the subscriber that a frame has lock()ed or is destroying
    dtor,           \* where a frame is inside ~Subscriber of what it holds
    todo,           \* the topics that a frame's loop over subscribers_ has left
    job,            \* the object whose request the user's thread is sending
    asked,          \* the topic of the Mediator's request
    crashed,        \* a data race or a dangling pointer has ended the process
    told,           \* topics on which the Mediator has this node's subscriber
    late,           \* topics with a subscriber that a lock()ed pointer destroyed
    before,         \* subscribers listed when a frame's disconnect() began
    torn            \* frames whose loop has met a change of subscribers_

flags   == <<connected, rpc, received, active, routine>>
objects == <<subscribers, publisher, life, up>>
stacks  == <<hold, dtor, todo>>
request == <<job, asked>>
history == <<told, late, before, torn>>
vars == <<main, dis, rx, lock, flags, objects, stacks, request, crashed, history>>

TypeOK ==
    /\ main \in {"new", "linked", "register", "idle", "send", "sending", "looping",
                 "spin", "sleepy", "asleep", "destroy", "gone"}
    /\ dis \in [Frames -> {"no", "test", "mark", "close", "lock", "send", "wait",
                           "publishers", "loops", "notify"}]
    /\ rx \in {"none", "receiving", "finding", "connecting", "closing", "answering",
               "callback", "signal", "ended"}
    /\ lock \in Frames \cup {Nothing}
    /\ {connected, rpc, received, active, routine, crashed} \subseteq BOOLEAN
    /\ subscribers \in [Topics -> Subscribers \cup {Nothing}]
    /\ publisher \in Publishers \cup {Nothing}
    /\ life \in [Objects -> {"new", "held", "released", "dying", "gone"}]
    /\ up \in SUBSET Objects
    /\ hold \in [Frames -> Subscribers \cup {Nothing}]
    /\ dtor \in [Frames -> {"no", "joining", "erasing", "removing", "sending"}]
    /\ todo \in [Frames -> SUBSET Topics]
    /\ job \in Objects \cup {Nothing}
    /\ asked \in IF rx = "finding" THEN Topics ELSE {Nothing}
    /\ rx = "connecting" => hold["receiver"] # Nothing
    /\ told \in SUBSET Topics /\ late \in SUBSET Topics
    /\ before \in [Frames -> SUBSET Subscribers] /\ torn \in SUBSET Frames

Init ==
    /\ main = "new" /\ dis = [f \in Frames |-> "no"] /\ rx = "none"
    /\ lock = Nothing /\ connected = FALSE /\ rpc = FALSE /\ received = FALSE
    /\ active = TRUE /\ routine = FALSE
    /\ subscribers = [t \in Topics |-> Nothing] /\ publisher = Nothing
    /\ life = [o \in Objects |-> "new"] /\ up = {}
    /\ hold = [f \in Frames |-> Nothing] /\ dtor = [f \in Frames |-> "no"]
    /\ todo = [f \in Frames |-> {}]
    /\ job = Nothing /\ asked = Nothing /\ crashed = FALSE
    /\ told = {} /\ late = {} /\ before = [f \in Frames |-> {}] /\ torn = {}

-----------------------------------------------------------------------------
\* A frame runs when no handler is on top of it; inside ~Subscriber, the rest
\* of the frame is suspended.
Running(f) == ~crashed /\ (f = "user" => dis["signal"] = "no")
At(f)      == Running(f) /\ dtor[f] = "no"
User(step) == At("user") /\ main = step
Goto(step) == main' = step

\* The frames inside a loop over subscribers_, of disconnect() or spin().
Iterating == {f \in Frames : dis[f] = "loops" \/ (f = "user" /\ main = "looping")}

\* subscribers_ has no lock: a change by frame g while another thread looks
\* into it or changes it, or inside a loop over it, may end the process; a
\* loop that goes on may miss what it has not come to.
MapChange(g) ==
    LET met == \/ Iterating # {} \/ rx = "finding"
               \/ \E f \in Frames \ {g} : dtor[f] = "erasing"
    IN  crashed' \in {FALSE, met} /\ torn' = torn \cup Iterating

\* The lists after an object of this topic is removed by its destructor.
Unlisted(t) == [subscribers EXCEPT ![t] = Nothing]

\* ~Subscriber of s begins in frame f: connected_ is false.
Dies(f, s) ==
    /\ hold' = [hold EXCEPT ![f] = s] /\ dtor' = [dtor EXCEPT ![f] = "joining"]
    /\ life' = [life EXCEPT ![s] = "dying"] /\ up' = up \ {s}

\* Frame f lets go of the pointer it lock()ed; it may be the last one.
Release(f) ==
    IF life[hold[f]] = "released" /\ \A g \in Frames \ {f} : hold[g] # hold[f]
    THEN Dies(f, hold[f])
    ELSE hold' = [hold EXCEPT ![f] = Nothing] /\ UNCHANGED <<dtor, life, up>>

-----------------------------------------------------------------------------
(* Node::Node                                                              *)

\* connectToServer starts the receive thread, or throws.
Connect ==
    /\ User("new")
    /\ \/ rpc' = TRUE /\ rx' = "receiving" /\ Goto("linked")
       \/ UNCHANGED <<rpc, rx>> /\ Goto("register")
    /\ UNCHANGED <<dis, lock, connected, received, active, routine, objects, stacks,
                   request, crashed, history>>

SetConnected ==
    /\ User("linked")
    /\ connected' = TRUE /\ Goto("register")
    /\ UNCHANGED <<dis, rx, lock, rpc, received, active, routine, objects, stacks,
                   request, crashed, history>>

Register ==
    /\ User("register")
    /\ routine' = TRUE /\ Goto("idle")
    /\ UNCHANGED <<dis, rx, lock, connected, rpc, received, active, objects, stacks,
                   request, crashed, history>>

-----------------------------------------------------------------------------
(* createPublisher, createSubscriber and the destructors' calls.           *)

\* The key of publishers_ is the moved-from topic_name: there is one entry.
CreatePublisher(p) ==
    /\ User("idle") /\ life[p] = "new"
    /\ publisher' = p
    /\ life' = [life EXCEPT ![p] = "held"] /\ up' = up \cup {p}
    /\ job' = p /\ Goto("send")
    /\ crashed' \in IF \E f \in Frames : dis[f] = "publishers" THEN BOOLEAN ELSE {FALSE}
    /\ UNCHANGED <<dis, rx, lock, flags, subscribers, stacks, asked, history>>

\* One subscriber of a topic at a time is the user's.
\* Variant: the moved-from topic_name as the key, as in createPublisher.
CreateSubscriberMoved(s) ==
    /\ User("idle") /\ life[s] = "new"
    /\ \A x \in Subscribers : TopicOf[x] = TopicOf[s] => life[x] # "held"
    /\ life' = [life EXCEPT ![s] = "held"] /\ up' = up \cup {s}
    /\ job' = s /\ Goto("send")
    /\ MapChange("user")
    /\ UNCHANGED <<dis, rx, lock, flags, subscribers, publisher, stacks, asked, told,
                   late, before>>
CreateSubscriber(s) ==
    /\ User("idle") /\ life[s] = "new"
    /\ \A x \in Subscribers : TopicOf[x] = TopicOf[s] => life[x] # "held"
    /\ subscribers' = [subscribers EXCEPT ![TopicOf[s]] = s]
    /\ life' = [life EXCEPT ![s] = "held"] /\ up' = up \cup {s}
    /\ todo' = [f \in Frames |-> IF f \in Iterating THEN todo[f] \cup {TopicOf[s]}
                                                    ELSE todo[f]]
    /\ job' = s /\ Goto("send")
    /\ MapChange("user")
    /\ UNCHANGED <<dis, rx, lock, flags, publisher, hold, dtor, asked, told, late,
                   before>>

\* ~Publisher has joined its thread; removePublisherByTopic finds no such key.
DropPublisher(p) ==
    /\ User("idle") /\ life[p] = "held"
    /\ life' = [life EXCEPT ![p] = "gone"] /\ up' = up \ {p}
    /\ job' = p /\ Goto("send")
    /\ UNCHANGED <<dis, rx, lock, flags, subscribers, publisher, stacks, asked,
                   crashed, history>>

\* The last pointer, unless a frame has lock()ed the subscriber: then it is
\* destroyed there, later.
DropSubscriber(s) ==
    /\ User("idle") /\ life[s] = "held"
    /\ IF \E f \in Frames : hold[f] = s
       THEN life' = [life EXCEPT ![s] = "released"] /\ UNCHANGED <<up, hold, dtor>>
       ELSE Dies("user", s)
    /\ UNCHANGED <<main, dis, rx, lock, flags, subscribers, publisher, todo, request,
                   crashed, history>>

\* sendRequest takes sending_lock_; the request goes out if the socket is open.
\* send() returns when the Mediator reads.
SendLock ==
    /\ User("send") /\ lock = Nothing
    /\ lock' = "user" /\ Goto("sending")
    /\ UNCHANGED <<dis, rx, flags, objects, stacks, request, crashed, history>>

\* Variant: only what is created is announced.
ToldAdded(o) == IF o \in Subscribers THEN told \cup {TopicOf[o]} ELSE told
Told(o) ==
    CASE o \notin Subscribers -> told
      [] o \in Subscribers /\ life[o] = "held" -> told \cup {TopicOf[o]}
      [] o \in Subscribers /\ life[o] # "held" -> told \ {TopicOf[o]}

Send ==
    /\ User("sending")
    /\ told' = Told(job)
    /\ lock' = Nothing /\ job' = Nothing /\ Goto("idle")
    /\ UNCHANGED <<dis, rx, flags, objects, stacks, asked, crashed, late, before, torn>>

-----------------------------------------------------------------------------
(* ~Subscriber, in whichever frame lets go of the last pointer.            *)

\* The joins return when the receiving thread has met its publishers' ends or
\* messages and the user's callback has returned.  node_ is expired as soon
\* as the user has let go of the Node.
JoinReturns(f) ==
    /\ Running(f) /\ dtor[f] = "joining"
    /\ IF main \notin {"destroy", "gone"}
       THEN dtor' = [dtor EXCEPT ![f] = "erasing"] /\ UNCHANGED <<hold, life>>
       ELSE /\ dtor' = [dtor EXCEPT ![f] = "no"] /\ hold' = [hold EXCEPT ![f] = Nothing]
            /\ life' = [life EXCEPT ![hold[f]] = "gone"]
    /\ UNCHANGED <<main, dis, rx, lock, flags, subscribers, publisher, up, todo, request,
                   crashed, history>>

\* removeSubscriberByTopic erases whatever the topic's entry is by now.
Erase(f) ==
    /\ Running(f) /\ dtor[f] = "erasing"
    /\ subscribers' = Unlisted(TopicOf[hold[f]])
    /\ dtor' = [dtor EXCEPT ![f] = "removing"]
    /\ late' = IF f = "user" /\ main = "idle" THEN late ELSE late \cup {TopicOf[hold[f]]}
    /\ MapChange(f)
    /\ UNCHANGED <<main, dis, rx, lock, flags, publisher, life, up, hold, todo, request,
                   told, before>>

RemoveLock(f) ==
    /\ Running(f) /\ dtor[f] = "removing" /\ lock = Nothing
    /\ lock' = f /\ dtor' = [dtor EXCEPT ![f] = "sending"]
    /\ UNCHANGED <<main, dis, rx, flags, objects, hold, todo, request, crashed, history>>

Removed(f) ==
    /\ Running(f) /\ dtor[f] = "sending"
    /\ told' = Told(hold[f])
    /\ lock' = Nothing /\ dtor' = [dtor EXCEPT ![f] = "no"]
    /\ hold' = [hold EXCEPT ![f] = Nothing]
    /\ life' = [life EXCEPT ![hold[f]] = "gone"]
    /\ UNCHANGED <<main, dis, rx, flags, subscribers, publisher, up, todo, request,
                   crashed, late, before, torn>>

-----------------------------------------------------------------------------
(* The loops over subscribers_ of spin(), spinOnce() and disconnect().     *)

Looping(f) == At(f) /\ f \in Iterating
Listed == {t \in Topics : subscribers[t] # Nothing}

\* lock(); disconnect() clears the subscriber's flag, spin() starts a thread.
Visit(f, t) ==
    /\ Looping(f) /\ hold[f] = Nothing /\ t \in todo[f]
    /\ todo' = [todo EXCEPT ![f] = @ \ {t}]
    /\ LET s == subscribers[t] IN
       IF s # Nothing /\ life[s] \in {"held", "released"}
       THEN /\ hold' = [hold EXCEPT ![f] = s]
            /\ up' = IF dis[f] = "loops" THEN up \ {s} ELSE up
       ELSE UNCHANGED <<hold, up>>
    /\ UNCHANGED <<main, dis, rx, lock, flags, subscribers, publisher, life, dtor,
                   request, crashed, history>>

EndVisit(f) ==
    /\ Looping(f) /\ hold[f] # Nothing
    /\ Release(f)
    /\ UNCHANGED <<main, dis, rx, lock, flags, subscribers, publisher, todo, request,
                   crashed, history>>

EndLoop(f) ==
    /\ Looping(f) /\ hold[f] = Nothing /\ (todo[f] = {} \/ f \in torn)
    /\ todo' = [todo EXCEPT ![f] = {}]
    /\ IF dis[f] = "loops"
       THEN dis' = [dis EXCEPT ![f] = "notify"] /\ UNCHANGED <<main, torn>>
       ELSE main' \in {"spin", "idle"} /\ torn' = torn \ {f} /\ UNCHANGED dis
    /\ UNCHANGED <<rx, lock, flags, objects, hold, dtor, request, crashed, told, late,
                   before>>

-----------------------------------------------------------------------------
(* spin(), spinOnce() and ~Node.                                           *)

\* Left out: that a second spin() of a subscriber ends the process; here the
\* behaviour goes on.
Spin ==
    /\ User("idle")
    /\ Goto("looping") /\ todo' = [todo EXCEPT !["user"] = Listed]
    /\ UNCHANGED <<dis, rx, lock, flags, objects, hold, dtor, request, crashed, history>>

\* wait() tests its predicate under spin_lock_, which disconnect() does not
\* take, and then blocks.
SpinTest ==
    /\ User("spin")
    /\ Goto(IF connected THEN "sleepy" ELSE "idle")
    /\ UNCHANGED <<dis, rx, lock, flags, objects, stacks, request, crashed, history>>

SpinSleep ==
    /\ User("sleepy")
    /\ Goto("asleep")
    /\ UNCHANGED <<dis, rx, lock, flags, objects, stacks, request, crashed, history>>

\* The user lets go of the Node.  Left out: that another thread, past
\* node_.lock() in ~Subscriber, has the last pointer and runs ~Node.
Destroy ==
    /\ User("idle") /\ \A f \in Frames : dtor[f] \in {"no", "joining"}
    /\ IF connected THEN Goto("destroy") /\ dis' = [dis EXCEPT !["user"] = "test"]
                    ELSE Goto("gone") /\ UNCHANGED dis
    /\ UNCHANGED <<rx, lock, flags, objects, stacks, request, crashed, history>>

\* The receive thread goes on with the members of a destroyed Node.
Dangle ==
    /\ ~crashed /\ main = "gone" /\ rx \notin {"none", "ended"}
    /\ crashed' = TRUE
    /\ UNCHANGED <<main, dis, rx, lock, flags, objects, stacks, request, history>>

-----------------------------------------------------------------------------
(* MROS::deactivate, on SIGINT.  Bound: one signal takes effect.           *)

Interrupt ==
    /\ ~crashed /\ active /\ dis["signal"] = "no"
    /\ IF routine
       THEN dis' = [dis EXCEPT !["signal"] = "test"] /\ UNCHANGED active
       ELSE active' = FALSE /\ UNCHANGED dis
    /\ crashed' \in IF main = "gone" THEN BOOLEAN ELSE {FALSE}
    /\ UNCHANGED <<main, rx, lock, connected, rpc, received, routine, objects, stacks,
                   request, history>>

-----------------------------------------------------------------------------
(* Node::disconnect, in any frame.                                         *)

In(f, step) == At(f) /\ dis[f] = step
Step(f, step) == dis' = [dis EXCEPT ![f] = step]

\* What follows disconnect() in the caller.
Return(f) ==
    /\ Step(f, "no")
    /\ active' = (active /\ f # "signal")
    /\ rx' = IF f = "receiver" THEN "signal" ELSE rx

\* Variant: notify_all() is left out.
WakenNobody(f) == main' = IF f = "user" THEN "gone" ELSE main
Waken(f) == main' = IF f = "user" THEN "gone"
                    ELSE IF main = "asleep" THEN "spin" ELSE main

TestConnected(f) ==
    /\ In(f, "test") /\ connected
    /\ Step(f, "mark")
    /\ UNCHANGED <<main, rx, lock, flags, objects, stacks, request, crashed, history>>

FoundDisconnected(f) ==
    /\ In(f, "test") /\ ~connected
    /\ Return(f)
    /\ main' = IF f = "user" THEN "gone" ELSE main
    /\ UNCHANGED <<lock, connected, rpc, received, routine, objects, stacks, request,
                   crashed, history>>

Mark(f) ==
    /\ In(f, "mark")
    /\ connected' = FALSE
    /\ before' = [before EXCEPT ![f] = {s \in Subscribers : /\ subscribers[TopicOf[s]] = s
                                                            /\ life[s] = "held"}]
    /\ Step(f, "close")
    /\ UNCHANGED <<main, rx, lock, rpc, received, active, routine, objects, stacks,
                   request, crashed, told, late, torn>>

\* connected() and the first line of close().
CloseTest(f) ==
    /\ In(f, "close")
    /\ Step(f, IF rpc THEN "lock" ELSE "publishers")
    /\ UNCHANGED <<main, rx, lock, flags, objects, stacks, request, crashed, history>>

CloseLock(f) ==
    /\ In(f, "lock") /\ lock = Nothing
    /\ lock' = f /\ rpc' = FALSE
    /\ Step(f, "send")
    /\ UNCHANGED <<main, rx, connected, received, active, routine, objects, stacks,
                   request, crashed, history>>

\* sendClosingMessage() returns when the Mediator reads.
CloseSend(f) ==
    /\ In(f, "send")
    /\ lock' = Nothing
    /\ Step(f, "wait")
    /\ UNCHANGED <<main, rx, flags, objects, stacks, request, crashed, history>>

CloseWait(f) ==
    /\ In(f, "wait") /\ received
    /\ Step(f, "publishers")
    /\ UNCHANGED <<main, rx, lock, flags, objects, stacks, request, crashed, history>>

\* Variant: the publishers only.
LoopPublishersOnly(f) ==
    /\ In(f, "publishers")
    /\ up' = up \ {publisher}
    /\ Step(f, "notify")
    /\ UNCHANGED <<main, rx, lock, flags, subscribers, publisher, life, stacks, request,
                   crashed, history>>
\* The loop over publishers_, which has one entry.  A publisher that the user
\* drops during this step is destroyed after it.
LoopPublishers(f) ==
    /\ In(f, "publishers")
    /\ up' = up \ {publisher}
    /\ todo' = [todo EXCEPT ![f] = Listed]
    /\ Step(f, "loops")
    /\ UNCHANGED <<main, rx, lock, flags, subscribers, publisher, life, hold, dtor,
                   request, crashed, history>>

Notify(f) ==
    /\ In(f, "notify")
    /\ Waken(f)
    /\ Return(f)
    /\ before' = [before EXCEPT ![f] = {}] /\ torn' = torn \ {f}
    /\ UNCHANGED <<lock, connected, rpc, received, routine, objects, stacks, request,
                   crashed, told, late>>

-----------------------------------------------------------------------------
(* The receive thread of the RPC client.                                   *)

Receiver(step) == At("receiver") /\ rx = step

\* connectSubscriberToPublishers for topic t.
ReceiveRequest(t) ==
    /\ Receiver("receiving")
    /\ rx' = "finding" /\ asked' = t
    /\ UNCHANGED <<main, dis, lock, flags, objects, stacks, job, crashed, history>>

\* Variant: the entry is not looked at.
FindUnchecked ==
    /\ Receiver("finding")
    /\ hold' = [hold EXCEPT !["receiver"] = subscribers[asked]]
    /\ rx' = "connecting" /\ asked' = Nothing
    /\ UNCHANGED <<main, dis, lock, flags, objects, dtor, todo, job, crashed, history>>
Find ==
    /\ Receiver("finding")
    /\ LET s == subscribers[asked] IN
       IF s # Nothing /\ life[s] \in {"held", "released"}
       THEN hold' = [hold EXCEPT !["receiver"] = s] /\ rx' = "connecting"
       ELSE rx' = "receiving" /\ UNCHANGED hold
    /\ asked' = Nothing
    /\ UNCHANGED <<main, dis, lock, flags, objects, dtor, todo, job, crashed, history>>

\* The connections are made; the lock()ed pointer may be the last one, and
\* then ~Subscriber runs here before the next message is received.
Connected ==
    /\ Receiver("connecting")
    /\ Release("receiver")
    /\ rx' = "receiving"
    /\ UNCHANGED <<main, dis, lock, flags, subscribers, publisher, todo, request,
                   crashed, history>>

\* The Mediator closes the connection or dies.
MediatorCloses ==
    /\ Receiver("receiving") /\ rpc
    /\ rx' = "closing"
    /\ UNCHANGED <<main, dis, lock, flags, objects, stacks, request, crashed, history>>

\* It answers the closing message of close().
MediatorAnswers ==
    /\ Receiver("receiving") /\ ~rpc
    /\ rx' = "closing"
    /\ UNCHANGED <<main, dis, lock, flags, objects, stacks, request, crashed, history>>

\* The closing branch of receiveCycle, up to its closing callback, disconnect();
\* it answers unless close() has sent the closing message.
ClosingBranch ==
    /\ Receiver("closing") /\ lock = Nothing
    /\ rpc' = FALSE
    /\ IF rpc THEN lock' = "receiver" /\ rx' = "answering" /\ UNCHANGED dis
              ELSE rx' = "callback" /\ Step("receiver", "test") /\ UNCHANGED lock
    /\ UNCHANGED <<main, connected, received, active, routine, objects, stacks, request,
                   crashed, history>>

Answered ==
    /\ Receiver("answering")
    /\ lock' = Nothing
    /\ rx' = "callback" /\ Step("receiver", "test")
    /\ UNCHANGED <<main, flags, objects, stacks, request, crashed, history>>

\* Variant: closing_message_received_ is not set.
SignalClosedNot ==
    /\ Receiver("signal")
    /\ rx' = "ended"
    /\ UNCHANGED <<main, dis, lock, flags, objects, stacks, request, crashed, history>>
SignalClosed ==
    /\ Receiver("signal")
    /\ received' = TRUE
    /\ rx' = "ended"
    /\ UNCHANGED <<main, dis, lock, connected, rpc, active, routine, objects, stacks,
                   request, crashed, history>>

-----------------------------------------------------------------------------
Stopped ==
    /\ \/ crashed
       \/ main \in {"idle", "asleep", "gone"} /\ dtor["user"] = "no"
       \/ lock = "user" /\ dis["signal"] # "no"
    /\ UNCHANGED vars

Disconnect(f) ==
    \/ TestConnected(f) \/ FoundDisconnected(f) \/ Mark(f) \/ CloseTest(f)
    \/ CloseLock(f) \/ CloseWait(f) \/ LoopPublishers(f) \/ Notify(f)
Loop(f) == (\E t \in Topics : Visit(f, t)) \/ EndVisit(f) \/ EndLoop(f)
Destructor(f) == Erase(f) \/ RemoveLock(f)
Frame(f) == Disconnect(f) \/ Loop(f) \/ Destructor(f)

UserThread ==
    \/ SetConnected \/ Register \/ SendLock \/ SpinTest \/ SpinSleep
    \/ Frame("user") \/ Frame("signal")
ReceiveThread == Find \/ Connected \/ ClosingBranch \/ SignalClosed \/ Frame("receiver")

\* What a frame waits for at its publishers' or the Mediator's pleasure.
Peers ==
    \/ Send \/ Answered \/ MediatorAnswers \/ MediatorCloses
    \/ \E f \in Frames : CloseSend(f) \/ JoinReturns(f) \/ Removed(f)
    \/ \E t \in Topics : ReceiveRequest(t)

Next ==
    \/ Connect \/ UserThread
    \/ \E p \in Publishers : CreatePublisher(p) \/ DropPublisher(p)
    \/ \E s \in Subscribers : CreateSubscriber(s) \/ DropSubscriber(s)
    \/ Spin \/ Destroy \/ Dangle \/ Interrupt
    \/ ReceiveThread \/ Peers
    \/ Stopped

Spec == Init /\ [][Next]_vars

\* Threads run.  Nothing makes a publisher close or the Mediator read or answer.
FairSpec == /\ Spec
            /\ WF_vars(UserThread)
            /\ WF_vars(ReceiveThread)

-----------------------------------------------------------------------------
(* Properties.                                                             *)

\* A subscriber that the user holds is found under its topic, unless an
\* earlier one of the topic was destroyed where a pointer had been lock()ed:
\* that destructor erases whatever the topic's entry is by then (node.cpp:81).
ListedUnlessLate ==
    \A s \in Subscribers : life[s] = "held" =>
        subscribers[TopicOf[s]] = s \/ TopicOf[s] \in late

\* Between the user's calls the Mediator has a subscription for exactly the
\* topics on which the user holds a subscriber, unless one of the topic is, or
\* was, left to a lock()ed pointer to destroy.
MediatorAgrees ==
    (main = "idle" /\ rpc) =>
        \A t \in Topics \ late :
            (\A s \in Subscribers :
                 TopicOf[s] = t => life[s] \notin {"released", "dying"}) =>
                (t \in told <=> \E s \in Subscribers : life[s] = "held" /\ TopicOf[s] = t)

\* When a disconnect() has gone through its loops, no subscriber that was held
\* and listed when this disconnect() cleared connected_ is connected, whatever
\* was created, dropped or destroyed and whoever else was in disconnect() in the
\* meantime; but for the exception of ListedUnlessLate, and unless subscribers_
\* was changed under these loops.  One created later may stay connected.
NobodyLeftConnected ==
    \A f \in Frames : dis[f] = "notify" /\ f \notin torn =>
        \A s \in before[f] \cap up : TopicOf[s] \in late

\* What holds a disconnect() up: a send in progress (or waiting, when SIGINT
\* stopped the thread that sends), a Mediator that does not answer the closing
\* message, and ~Subscriber's join, on the receive thread or in the loops.
HeldUp ==
    \/ lock # Nothing
    \/ ~rpc /\ rx = "receiving"
    \/ dtor["receiver"] = "joining"
    \/ \E f \in Frames : dis[f] # "no" /\ dtor[f] = "joining"

\* Every disconnect() returns, unless one is held up for ever; none begins more
\* than once in a frame, so in the end no frame is inside.
DisconnectReturns ==
    []<>HeldUp \/ ((\E f \in Frames : dis[f] # "no")
                       ~> (\A f \in Frames : dis[f] = "no") \/ crashed)

Closing == {"close", "lock", "send", "wait", "publishers", "loops"}

\* A thread that was asleep in spin() before disconnect() began is released,
\* unless that disconnect() is held up for ever.
SleeperReleased ==
    []<>HeldUp \/ ((main = "asleep" /\ \E f \in Frames : dis[f] \in Closing)
                       ~> main # "asleep" \/ crashed)

\* node.hpp:85: disconnect() will "signal the spin() condition variable to
\* unblock any user threads that were stuck on spin()".  Violated even when
\* nothing holds disconnect() up.
SpinReturns ==
    []<>HeldUp \/ ((main = "asleep" /\ ~connected) ~> main # "asleep" \/ crashed)
=============================================================================
