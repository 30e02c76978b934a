----------------------------- MODULE NodeProofs -----------------------------
(* Theorems about a Node, for any topics, subscribers and publishers.      *)
EXTENDS Node, TLAPS

\* The phases of a disconnect() that has marked the node and has not ended.
Reaching == {"close", "lock", "send", "wait", "publishers", "loops"}

-----------------------------------------------------------------------------
\* The frames: the destructor's, the closing callback's and the handler's.
FrameOK ==
    /\ dis["user"] # "no" <=> main = "destroy"
    /\ dis["receiver"] # "no" <=> rx = "callback"
    /\ main = "new" => rx = "none"

\* Where a frame has lock()ed or destroys a subscriber.
HoldOK ==
    /\ hold["user"] # Nothing => dtor["user"] # "no" \/ "user" \in Iterating
    /\ hold["signal"] # Nothing => dis["signal"] = "loops"
    /\ hold["receiver"] # Nothing =>
           dtor["receiver"] # "no" \/ rx = "connecting" \/ dis["receiver"] = "loops"
    /\ dtor["user"] # "no" => main = "idle" \/ "user" \in Iterating
    /\ dtor["receiver"] # "no" => rx = "receiving" \/ dis["receiver"] = "loops"

JobOK ==
    IF main \in {"send", "sending"}
    THEN job \in Objects /\ (job \in Subscribers => life[job] = "held")
    ELSE job = Nothing

\* What is lock()ed is alive; one frame at most destroys a subscriber.
LifeOK ==
    /\ \A f \in Frames : hold[f] # Nothing /\ dtor[f] = "no" =>
           life[hold[f]] \in {"held", "released"}
    /\ \A f \in Frames : dtor[f] # "no" => hold[f] # Nothing /\ life[hold[f]] = "dying"
    /\ \A f, g \in Frames : dtor[f] # "no" /\ hold[f] = hold[g] => f = g
    /\ \A o \in up : life[o] \in {"held", "released"}
    /\ \A f \in Frames : \A s \in before[f] : life[s] # "new"

OneHeld ==
    \A s, x \in Subscribers :
        life[s] = "held" /\ life[x] = "held" /\ TopicOf[s] = TopicOf[x] => s = x

\* While the user's drop() is under way there is no other subscriber of the
\* topic that is the user's; any other destructor makes its topic late.
DropOK ==
    /\ main = "idle" /\ dtor["user"] # "no" =>
           \A s \in Subscribers : TopicOf[s] = TopicOf[hold["user"]] => life[s] # "held"
    /\ \A f \in Frames : dtor[f] \in {"removing", "sending"} =>
           (f = "user" /\ main = "idle") \/ TopicOf[hold[f]] \in late

\* MediatorAgrees at every moment: until the request of the topic has gone out,
\* the Mediator may differ.
MediatorTold ==
    main \notin {"destroy", "gone"} =>
        \A t \in Topics \ late :
            (\A s \in Subscribers :
                 TopicOf[s] = t => life[s] \notin {"released", "dying"}) =>
                \/ t \in told <=> \E s \in Subscribers : life[s] = "held" /\ TopicOf[s] = t
                \/ job \in Subscribers /\ TopicOf[job] = t

\* What a disconnect() has still to reach: it is still held, and its topic is
\* still to be visited.
LoopOK ==
    /\ \A f \in Frames : dis[f] \in Reaching =>
           \A s \in before[f] \cap up : life[s] = "held"
    /\ \A f \in Frames : dis[f] = "loops" /\ hold[f] # Nothing => hold[f] \notin up
    /\ \A f \in Frames : dis[f] = "loops" /\ f \notin torn =>
           \A s \in before[f] \cap up :
               \/ TopicOf[s] \in late
               \/ TopicOf[s] \in todo[f] /\ subscribers[TopicOf[s]] = s

IInv ==
    /\ TypeOK /\ FrameOK /\ HoldOK /\ JobOK /\ LifeOK /\ OneHeld /\ DropOK
    /\ ListedUnlessLate /\ MediatorTold /\ LoopOK /\ NobodyLeftConnected
-----------------------------------------------------------------------------
LEMMA IInvInit == Init => IInv
  <1> SUFFICES ASSUME Init PROVE IInv
    OBVIOUS
  <1> USE SubscribersAssumption DEF Init, Frames, Objects
  <1>1. TypeOK
    BY DEF TypeOK
  <1>2. FrameOK /\ HoldOK /\ JobOK /\ LifeOK /\ OneHeld /\ DropOK
    BY DEF FrameOK, HoldOK, JobOK, LifeOK, OneHeld, DropOK, Iterating
  <1>3. ListedUnlessLate /\ MediatorTold
    BY DEF ListedUnlessLate, MediatorTold
  <1>4. LoopOK /\ NobodyLeftConnected
    BY DEF LoopOK, NobodyLeftConnected, Reaching
  <1> QED
    BY <1>1, <1>2, <1>3, <1>4 DEF IInv

\* The steps that change no object, no pointer and nothing that is remembered.
Data == <<subscribers, life, up, hold, dtor, todo, job, told, late, before, torn>>

ControlStep(f) ==
    TestConnected(f) \/ FoundDisconnected(f) \/ CloseTest(f) \/ CloseLock(f)
    \/ CloseSend(f) \/ CloseWait(f)
Control ==
    \/ Connect \/ SetConnected \/ Register \/ SendLock \/ SpinTest \/ SpinSleep
    \/ Destroy \/ Dangle \/ Interrupt \/ ClosingBranch \/ Answered \/ SignalClosed
    \/ MediatorAnswers \/ MediatorCloses \/ UNCHANGED vars
    \/ \E f \in Frames : ControlStep(f)
    \/ \E t \in Topics : ReceiveRequest(t)

LEMMA Steps ==
  ASSUME [Next]_vars
  PROVE  \/ Control
         \/ \E p \in Publishers : CreatePublisher(p) \/ DropPublisher(p)
         \/ \E s \in Subscribers : CreateSubscriber(s) \/ DropSubscriber(s)
         \/ Send \/ Spin \/ Find \/ Connected
         \/ \E f \in Frames : \/ Mark(f) \/ LoopPublishers(f) \/ Notify(f) \/ EndVisit(f)
                              \/ EndLoop(f) \/ Erase(f) \/ RemoveLock(f) \/ Removed(f)
                              \/ JoinReturns(f) \/ \E t \in Topics : Visit(f, t)
  <1>1. ASSUME NEW f \in Frames, Frame(f)
        PROVE  \/ ControlStep(f) \/ Mark(f) \/ LoopPublishers(f) \/ Notify(f)
               \/ EndVisit(f) \/ EndLoop(f) \/ Erase(f) \/ RemoveLock(f)
               \/ \E t \in Topics : Visit(f, t)
    BY <1>1 DEF Frame, Disconnect, Loop, Destructor, ControlStep
  <1>2. {"user", "signal", "receiver"} = Frames
    BY DEF Frames
  <1>3. CASE UserThread
    BY <1>1, <1>2, <1>3 DEF UserThread, Control
  <1>4. CASE ReceiveThread
    BY <1>1, <1>2, <1>4 DEF ReceiveThread, Control
  <1>5. CASE Peers
    BY <1>5 DEF Peers, Control, ControlStep
  <1>6. CASE Stopped \/ UNCHANGED vars
    BY <1>6 DEF Stopped, Control
  <1> QED
    BY <1>3, <1>4, <1>5, <1>6 DEF Next, Control

\* A change of subscribers_ marks every loop that is under way.
LEMMA MapFacts ==
  ASSUME TypeOK, NEW g \in Frames, MapChange(g)
  PROVE  /\ crashed' \in BOOLEAN /\ torn' \in SUBSET Frames
         /\ torn \subseteq torn'
         /\ \A f \in Frames : dis[f] = "loops" => f \in torn'
  BY DEF MapChange, Iterating, TypeOK

\* What such a step does to the positions of the threads.
LEMMA ControlFacts ==
  ASSUME TypeOK, FrameOK, Control
  PROVE  /\ UNCHANGED Data
         /\ FrameOK'
         /\ \A f \in Frames : dis[f] = "loops" <=> dis'[f] = "loops"
         /\ \A f \in Frames : dis[f] = "notify" <=> dis'[f] = "notify"
         /\ \A f \in Frames : dis'[f] \in Reaching => dis[f] \in Reaching
         /\ main = "looping" <=> main' = "looping"
         /\ main \in {"send", "sending"} <=> main' \in {"send", "sending"}
         /\ main \in {"destroy", "gone"} => main' \in {"destroy", "gone"}
         /\ dtor["user"] # "no" => (main = "idle" <=> main' = "idle")
         /\ rx = "connecting" <=> rx' = "connecting"
         /\ dtor["receiver"] # "no" /\ rx = "receiving" => rx' = "receiving"
  <1> DEFINE G == /\ UNCHANGED Data
                  /\ FrameOK'
                  /\ \A f \in Frames : dis[f] = "loops" <=> dis'[f] = "loops"
                  /\ \A f \in Frames : dis[f] = "notify" <=> dis'[f] = "notify"
                  /\ \A f \in Frames : dis'[f] \in Reaching => dis[f] \in Reaching
                  /\ main = "looping" <=> main' = "looping"
                  /\ main \in {"send", "sending"} <=> main' \in {"send", "sending"}
                  /\ main \in {"destroy", "gone"} => main' \in {"destroy", "gone"}
                  /\ dtor["user"] # "no" => (main = "idle" <=> main' = "idle")
                  /\ rx = "connecting" <=> rx' = "connecting"
                  /\ dtor["receiver"] # "no" /\ rx = "receiving" => rx' = "receiving"
  <1> SUFFICES G
    OBVIOUS
  <1> USE DEF TypeOK, FrameOK, Frames, Reaching, Data, User, At, Running, Goto, Receiver,
          In, Step, Return, flags, objects, stacks, request, history
  <1>1. CASE Connect
    BY <1>1 DEF Connect
  <1>2. CASE SetConnected \/ Register \/ SendLock
    BY <1>2 DEF SetConnected, Register, SendLock
  <1>3. CASE SpinTest \/ SpinSleep
    BY <1>3 DEF SpinTest, SpinSleep
  <1>4. CASE Destroy
    BY <1>4 DEF Destroy
  <1>5. CASE Dangle
    BY <1>5 DEF Dangle
  <1>6. CASE Interrupt
    BY <1>6 DEF Interrupt
  <1>7. CASE ClosingBranch
    BY <1>7 DEF ClosingBranch
  <1>8. CASE Answered
    BY <1>8 DEF Answered
  <1>9. CASE SignalClosed \/ MediatorAnswers \/ MediatorCloses
    BY <1>9 DEF SignalClosed, MediatorAnswers, MediatorCloses
  <1>10. CASE UNCHANGED vars
    BY <1>10 DEF vars
  <1>11. ASSUME NEW f \in Frames, ControlStep(f) PROVE G
    <2>1. CASE TestConnected(f)
      BY <2>1 DEF TestConnected
    <2>2. CASE FoundDisconnected(f)
      BY <2>2 DEF FoundDisconnected
    <2>3. CASE CloseTest(f)
      BY <2>3 DEF CloseTest
    <2>4. CASE CloseLock(f)
      BY <2>4 DEF CloseLock
    <2>5. CASE CloseSend(f)
      BY <2>5 DEF CloseSend
    <2>6. CASE CloseWait(f)
      BY <2>6 DEF CloseWait
    <2> QED
      BY <1>11, <2>1, <2>2, <2>3, <2>4, <2>5, <2>6 DEF ControlStep
  <1>12. ASSUME NEW t \in Topics, ReceiveRequest(t) PROVE G
    BY <1>12 DEF ReceiveRequest
  <1> QED
    BY <1>1, <1>2, <1>3, <1>4, <1>5, <1>6, <1>7, <1>8, <1>9, <1>10, <1>11, <1>12
       DEF Control

DisType == dis \in [Frames -> {"no", "test", "mark", "close", "lock", "send", "wait",
                               "publishers", "loops", "notify"}]

\* What a signal changes.
LEMMA InterruptFacts ==
  ASSUME TypeOK, Interrupt
  PROVE  /\ crashed' \in BOOLEAN /\ active' \in BOOLEAN
         /\ dis' = [dis EXCEPT !["signal"] = "test"] \/ dis' = dis
         /\ UNCHANGED <<main, rx, lock, connected, rpc, received, routine, objects, stacks,
                        request, history>>
  BY DEF Interrupt, TypeOK

\* A subscriber's end, and a pointer let go of.
LEMMA DiesFacts ==
  ASSUME TypeOK, NEW f \in Frames, NEW s \in Subscribers, Dies(f, s)
  PROVE  /\ hold'[f] = s /\ dtor'[f] = "joining" /\ life'[s] = "dying" /\ up' = up \ {s}
         /\ \A g \in Frames \ {f} : hold'[g] = hold[g] /\ dtor'[g] = dtor[g]
         /\ \A o \in Objects \ {s} : life'[o] = life[o]
         /\ hold' \in [Frames -> Subscribers \cup {Nothing}]
         /\ dtor' \in [Frames -> {"no", "joining", "erasing", "removing", "sending"}]
         /\ life' \in [Objects -> {"new", "held", "released", "dying", "gone"}]
  BY DEF Dies, TypeOK, Objects

LEMMA ReleaseFacts ==
  ASSUME TypeOK, NEW f \in Frames, hold[f] # Nothing, Release(f)
  PROVE  \/ /\ life[hold[f]] = "released"
            /\ \A g \in Frames \ {f} : hold[g] # hold[f]
            /\ Dies(f, hold[f])
         \/ /\ hold' = [hold EXCEPT ![f] = Nothing]
            /\ UNCHANGED <<dtor, life, up>>
  BY DEF Release

LEMMA TypeNext == IInv /\ [Next]_vars => TypeOK'
  <1> SUFFICES ASSUME IInv, [Next]_vars PROVE TypeOK'
    OBVIOUS
  <1>t. TypeOK /\ FrameOK /\ HoldOK /\ JobOK /\ LifeOK
    BY DEF IInv
  <1> USE <1>t, SubscribersAssumption
      DEF TypeOK, Objects, Frames, At, Running, User, Goto, Receiver, In, Step, flags,
          objects, stacks, request, history
  <1>1. CASE Connect
    BY <1>1 DEF Connect, FrameOK
  <1>2. CASE SetConnected \/ Register \/ SendLock
    <2>1. CASE SetConnected
      BY <2>1 DEF SetConnected
    <2>2. CASE Register
      BY <2>2 DEF Register
    <2>3. CASE SendLock
      BY <2>3 DEF SendLock
    <2> QED
      BY <1>2, <2>1, <2>2, <2>3
  <1>3. CASE SpinTest \/ SpinSleep \/ Destroy \/ Dangle
    <2>1. CASE SpinTest
      BY <2>1 DEF SpinTest
    <2>2. CASE SpinSleep
      BY <2>2 DEF SpinSleep
    <2>3. CASE Destroy
      BY <2>3 DEF Destroy
    <2>4. CASE Dangle
      BY <2>4 DEF Dangle
    <2> QED
      BY <1>3, <2>1, <2>2, <2>3, <2>4
  <1>4. CASE Interrupt
    <2>1. DisType'
      BY <1>4, InterruptFacts DEF DisType
    <2>2. active' \in BOOLEAN /\ crashed' \in BOOLEAN
      BY <1>4, InterruptFacts
    <2>3. UNCHANGED <<main, rx, lock, connected, rpc, received, routine, objects, stacks,
                     request, history>>
      BY <1>4, InterruptFacts
    <2> QED
      BY <2>1, <2>2, <2>3 DEF DisType
  <1>5. CASE ClosingBranch \/ Answered
    <2>1. CASE ClosingBranch
      <3>1. DisType' /\ lock' \in Frames \cup {Nothing} /\ rpc' = FALSE
            /\ rx' \in {"answering", "callback"} /\ rx = "closing"
        BY <2>1 DEF ClosingBranch, DisType
      <3>2. UNCHANGED <<main, connected, received, active, routine, objects, stacks,
                       request, crashed, history>>
        BY <2>1 DEF ClosingBranch
      <3> QED
        BY <3>1, <3>2 DEF DisType
    <2>2. CASE Answered
      BY <2>2 DEF Answered
    <2> QED
      BY <1>5, <2>1, <2>2
  <1>6. CASE SignalClosed \/ MediatorAnswers \/ MediatorCloses \/ UNCHANGED vars
    <2>1. CASE SignalClosed
      BY <2>1 DEF SignalClosed
    <2>2. CASE MediatorAnswers
      BY <2>2 DEF MediatorAnswers
    <2>3. CASE MediatorCloses
      BY <2>3 DEF MediatorCloses
    <2>4. CASE UNCHANGED vars
      BY <2>4 DEF vars
    <2> QED
      BY <1>6, <2>1, <2>2, <2>3, <2>4
  <1>7. ASSUME NEW f \in Frames, ControlStep(f) PROVE TypeOK'
    <2>1. CASE TestConnected(f) \/ CloseTest(f) \/ CloseWait(f)
      <3>1. CASE TestConnected(f)
        BY <3>1 DEF TestConnected
      <3>2. CASE CloseTest(f)
        BY <3>2 DEF CloseTest
      <3>3. CASE CloseWait(f)
        BY <3>3 DEF CloseWait
      <3> QED
        BY <2>1, <3>1, <3>2, <3>3
    <2>2. CASE FoundDisconnected(f)
      BY <2>2 DEF FoundDisconnected, Return, FrameOK
    <2>3. CASE CloseLock(f) \/ CloseSend(f)
      <3>1. CASE CloseLock(f)
        <4>1. DisType' /\ lock' \in Frames \cup {Nothing} /\ rpc' \in BOOLEAN
          BY <3>1 DEF CloseLock, DisType
        <4>2. UNCHANGED <<main, rx, connected, received, active, routine, objects, stacks,
                         request, crashed, history>>
          BY <3>1 DEF CloseLock
        <4> QED
          BY <4>1, <4>2 DEF DisType
      <3>2. CASE CloseSend(f)
        BY <3>2 DEF CloseSend
      <3> QED
        BY <2>3, <3>1, <3>2
    <2> QED
      BY <1>7, <2>1, <2>2, <2>3 DEF ControlStep
  <1>8. ASSUME NEW t \in Topics, ReceiveRequest(t) PROVE TypeOK'
    BY <1>8 DEF ReceiveRequest
  <1>9. ASSUME NEW p \in Publishers, CreatePublisher(p) \/ DropPublisher(p)
        PROVE  TypeOK'
    <2>1. CASE CreatePublisher(p)
      <3>1. crashed' \in BOOLEAN
        BY <2>1 DEF CreatePublisher
      <3>2. /\ publisher' = p /\ life' = [life EXCEPT ![p] = "held"] /\ up' = up \cup {p}
            /\ job' = p /\ main' = "send"
            /\ UNCHANGED <<dis, rx, lock, flags, subscribers, stacks, asked, history>>
        BY <2>1 DEF CreatePublisher
      <3> QED
        BY <3>1, <3>2
    <2>2. CASE DropPublisher(p)
      BY <2>2 DEF DropPublisher
    <2> QED
      BY <1>9, <2>1, <2>2
  <1>10. ASSUME NEW s \in Subscribers, CreateSubscriber(s) PROVE TypeOK'
    <2>1. crashed' \in BOOLEAN /\ torn' \in SUBSET Frames
      BY <1>10, MapFacts DEF CreateSubscriber
    <2> QED
      BY <1>10, <2>1 DEF CreateSubscriber
  <1>11. ASSUME NEW s \in Subscribers, DropSubscriber(s) PROVE TypeOK'
    <2>1. CASE Dies("user", s)
      BY <1>11, <2>1, DiesFacts DEF DropSubscriber
    <2>2. CASE life' = [life EXCEPT ![s] = "released"] /\ UNCHANGED <<up, hold, dtor>>
      BY <1>11, <2>2 DEF DropSubscriber
    <2> QED
      BY <1>11, <2>1, <2>2 DEF DropSubscriber
  <1>12. CASE Send
    <2>1. Told(job) \in SUBSET Topics
      BY <1>12 DEF Send, JobOK, Told
    <2> QED
      BY <1>12, <2>1 DEF Send
  <1>13. CASE Spin
    BY <1>13 DEF Spin, Listed
  <1>14. CASE Find
    BY <1>14 DEF Find
  <1>15. CASE Connected
    <2>1. CASE Dies("receiver", hold["receiver"])
      BY <1>15, <2>1, DiesFacts DEF Connected
    <2>2. CASE hold' = [hold EXCEPT !["receiver"] = Nothing] /\ UNCHANGED <<dtor, life, up>>
      BY <1>15, <2>2 DEF Connected
    <2> QED
      BY <1>15, <2>1, <2>2, ReleaseFacts DEF Connected
  <1>16. ASSUME NEW f \in Frames, Mark(f) PROVE TypeOK'
    <2>1. before' \in [Frames -> SUBSET Subscribers] /\ connected' \in BOOLEAN
      BY <1>16 DEF Mark
    <2>2. DisType' /\ main' = main /\ rx' = rx /\ asked' = asked
      BY <1>16 DEF Mark, DisType
    <2>3. UNCHANGED <<lock, rpc, received, active, routine, subscribers, publisher, life,
                     up, hold, dtor, todo, job, crashed, told, late, torn>>
      BY <1>16 DEF Mark
    <2> QED
      BY <2>1, <2>2, <2>3 DEF DisType
  <1>17. ASSUME NEW f \in Frames, LoopPublishers(f) PROVE TypeOK'
    BY <1>17 DEF LoopPublishers, Listed
  <1>18. ASSUME NEW f \in Frames, Notify(f) PROVE TypeOK'
    BY <1>18 DEF Notify, Waken, Return, FrameOK
  <1>19. ASSUME NEW f \in Frames, NEW t \in Topics, Visit(f, t) PROVE TypeOK'
    BY <1>19 DEF Visit, Looping
  <1>20. ASSUME NEW f \in Frames, EndVisit(f) PROVE TypeOK'
    <2>0. f = "receiver" => rx = "callback"
      BY <1>20 DEF EndVisit, Looping, Iterating, FrameOK
    <2>1. CASE Dies(f, hold[f])
      BY <1>20, <2>0, <2>1, DiesFacts DEF EndVisit
    <2>2. CASE hold' = [hold EXCEPT ![f] = Nothing] /\ UNCHANGED <<dtor, life, up>>
      BY <1>20, <2>0, <2>2 DEF EndVisit
    <2> QED
      BY <1>20, <2>1, <2>2, ReleaseFacts DEF EndVisit
  <1>21. ASSUME NEW f \in Frames, EndLoop(f) PROVE TypeOK'
    <2>1. CASE dis[f] = "loops"
      <3>1. DisType' /\ todo' \in [Frames -> SUBSET Topics]
        BY <1>21, <2>1 DEF EndLoop, DisType
      <3>2. UNCHANGED <<main, rx, lock, flags, objects, hold, dtor, request, crashed,
                       history>>
        BY <1>21, <2>1 DEF EndLoop
      <3> QED
        BY <3>1, <3>2 DEF DisType
    <2>2. CASE dis[f] # "loops"
      BY <1>21, <2>2 DEF EndLoop
    <2> QED
      BY <2>1, <2>2
  <1>22. ASSUME NEW f \in Frames, Erase(f) PROVE TypeOK'
    <2>1. crashed' \in BOOLEAN /\ torn' \in SUBSET Frames
      BY <1>22, MapFacts DEF Erase
    <2>2. hold[f] \in Subscribers
      BY <1>22 DEF Erase, LifeOK
    <2> QED
      BY <1>22, <2>1, <2>2 DEF Erase, Unlisted
  <1>23. ASSUME NEW f \in Frames, RemoveLock(f) PROVE TypeOK'
    BY <1>23 DEF RemoveLock
  <1>24. ASSUME NEW f \in Frames, Removed(f) PROVE TypeOK'
    <2>1. hold[f] \in Subscribers
      BY <1>24 DEF Removed, LifeOK
    <2>2. Told(hold[f]) \in SUBSET Topics
      BY <2>1 DEF Told
    <2>3. f = "receiver" => rx # "connecting"
      BY <1>24 DEF Removed, HoldOK, FrameOK
    <2> QED
      BY <1>24, <2>1, <2>2, <2>3 DEF Removed
  <1>25. ASSUME NEW f \in Frames, JoinReturns(f) PROVE TypeOK'
    <2>1. hold[f] \in Subscribers
      BY <1>25 DEF JoinReturns, LifeOK
    <2>2. f = "receiver" => rx # "connecting"
      BY <1>25 DEF JoinReturns, HoldOK, FrameOK
    <2> QED
      BY <1>25, <2>1, <2>2 DEF JoinReturns
  <1> QED
    BY <1>1, <1>2, <1>3, <1>4, <1>5, <1>6, <1>7, <1>8, <1>9, <1>10, <1>11, <1>12,
       <1>13, <1>14, <1>15, <1>16, <1>17, <1>18, <1>19, <1>20, <1>21, <1>22, <1>23,
       <1>24, <1>25, Steps DEF Control

\* Where the frames are and what they hold.
LEMMA HoldNext == IInv /\ [Next]_vars => FrameOK' /\ HoldOK'
  <1> DEFINE G == FrameOK /\ HoldOK
  <1> SUFFICES ASSUME IInv, [Next]_vars PROVE G'
    OBVIOUS
  <1>t. TypeOK /\ FrameOK /\ HoldOK /\ JobOK /\ LifeOK
    BY DEF IInv
  <1> USE <1>t, SubscribersAssumption
      DEF TypeOK, FrameOK, HoldOK, LifeOK, Return, Waken, Objects, Frames, Iterating,
          At, Running, User, Goto,
          Receiver, In, Step, Looping, flags, objects, stacks, request, history
  <1>1. CASE Control
    BY <1>1, ControlFacts DEF Data
  <1>2. ASSUME NEW p \in Publishers, CreatePublisher(p) PROVE G'
    BY <1>2 DEF CreatePublisher
  <1>3. ASSUME NEW p \in Publishers, DropPublisher(p) PROVE G'
    BY <1>3 DEF DropPublisher
  <1>4. ASSUME NEW s \in Subscribers, CreateSubscriber(s) PROVE G'
    BY <1>4 DEF CreateSubscriber, MapChange
  <1>5. ASSUME NEW s \in Subscribers, DropSubscriber(s) PROVE G'
    <2>1. CASE Dies("user", s)
      BY <1>5, <2>1, DiesFacts DEF DropSubscriber
    <2>2. CASE /\ \E f \in Frames : hold[f] = s
               /\ life' = [life EXCEPT ![s] = "released"] /\ UNCHANGED <<up, hold, dtor>>
      BY <1>5, <2>2 DEF DropSubscriber
    <2> QED
      BY <1>5, <2>1, <2>2 DEF DropSubscriber
  <1>6. CASE Send
    BY <1>6 DEF Send
  <1>7. CASE Spin
    BY <1>7 DEF Spin
  <1>8. CASE Find
    BY <1>8 DEF Find
  <1>9. CASE Connected
    <2>1. CASE /\ Dies("receiver", hold["receiver"]) /\ life[hold["receiver"]] = "released"
               /\ \A g \in Frames \ {"receiver"} : hold[g] # hold["receiver"]
      BY <1>9, <2>1, DiesFacts DEF Connected
    <2>2. CASE hold' = [hold EXCEPT !["receiver"] = Nothing] /\ UNCHANGED <<dtor, life, up>>
      BY <1>9, <2>2 DEF Connected
    <2> QED
      BY <1>9, <2>1, <2>2, ReleaseFacts DEF Connected
  <1>10. ASSUME NEW f \in Frames, Mark(f) PROVE G'
    BY <1>10 DEF Mark
  <1>11. ASSUME NEW f \in Frames, LoopPublishers(f) PROVE G'
    BY <1>11 DEF LoopPublishers
  <1>12. ASSUME NEW f \in Frames, Notify(f) PROVE G'
    BY <1>12 DEF Notify
  <1>13. ASSUME NEW f \in Frames, NEW t \in Topics, Visit(f, t) PROVE G'
    BY <1>13 DEF Visit
  <1>14. ASSUME NEW f \in Frames, EndVisit(f) PROVE G'
    <2>1. CASE /\ Dies(f, hold[f]) /\ life[hold[f]] = "released"
               /\ \A g \in Frames \ {f} : hold[g] # hold[f]
      BY <1>14, <2>1, DiesFacts DEF EndVisit
    <2>2. CASE hold' = [hold EXCEPT ![f] = Nothing] /\ UNCHANGED <<dtor, life, up>>
      BY <1>14, <2>2 DEF EndVisit
    <2> QED
      BY <1>14, <2>1, <2>2, ReleaseFacts DEF EndVisit
  <1>15. ASSUME NEW f \in Frames, EndLoop(f) PROVE G'
    BY <1>15 DEF EndLoop
  <1>16. ASSUME NEW f \in Frames, Erase(f) PROVE G'
    BY <1>16 DEF Erase
  <1>17. ASSUME NEW f \in Frames, RemoveLock(f) PROVE G'
    BY <1>17 DEF RemoveLock
  <1>18. ASSUME NEW f \in Frames, Removed(f) PROVE G'
    BY <1>18 DEF Removed
  <1>19. ASSUME NEW f \in Frames, JoinReturns(f) PROVE G'
    BY <1>19 DEF JoinReturns
  <1> QED
    BY <1>1, <1>2, <1>3, <1>4, <1>5, <1>6, <1>7, <1>8, <1>9, <1>10, <1>11, <1>12,
       <1>13, <1>14, <1>15, <1>16, <1>17, <1>18, <1>19, Steps

\* The request, and the objects' lives.
LEMMA LifeNext == IInv /\ [Next]_vars => JobOK' /\ LifeOK'
  <1> DEFINE G == JobOK /\ LifeOK
  <1> SUFFICES ASSUME IInv, [Next]_vars PROVE G'
    OBVIOUS
  <1>t. TypeOK /\ FrameOK /\ HoldOK /\ JobOK /\ LifeOK
    BY DEF IInv
  <1> USE <1>t, SubscribersAssumption
      DEF TypeOK, FrameOK, HoldOK, JobOK, LifeOK, Objects, Frames, Iterating, At,
          Running, User, Goto,
          Receiver, In, Step, Looping, flags, objects, stacks, request, history
  <1>1. CASE Control
    BY <1>1, ControlFacts DEF Data
  <1>2. ASSUME NEW p \in Publishers, CreatePublisher(p) PROVE G'
    BY <1>2 DEF CreatePublisher
  <1>3. ASSUME NEW p \in Publishers, DropPublisher(p) PROVE G'
    BY <1>3 DEF DropPublisher
  <1>4. ASSUME NEW s \in Subscribers, CreateSubscriber(s) PROVE G'
    BY <1>4 DEF CreateSubscriber, MapChange
  <1>5. ASSUME NEW s \in Subscribers, DropSubscriber(s) PROVE G'
    <2>1. CASE Dies("user", s)
      BY <1>5, <2>1, DiesFacts DEF DropSubscriber
    <2>2. CASE /\ \E f \in Frames : hold[f] = s
               /\ life' = [life EXCEPT ![s] = "released"] /\ UNCHANGED <<up, hold, dtor>>
      BY <1>5, <2>2 DEF DropSubscriber
    <2> QED
      BY <1>5, <2>1, <2>2 DEF DropSubscriber
  <1>6. CASE Send
    BY <1>6 DEF Send
  <1>7. CASE Spin
    BY <1>7 DEF Spin
  <1>8. CASE Find
    BY <1>8 DEF Find
  <1>9. CASE Connected
    <2>1. CASE /\ Dies("receiver", hold["receiver"]) /\ life[hold["receiver"]] = "released"
               /\ \A g \in Frames \ {"receiver"} : hold[g] # hold["receiver"]
      BY <1>9, <2>1, DiesFacts DEF Connected
    <2>2. CASE hold' = [hold EXCEPT !["receiver"] = Nothing] /\ UNCHANGED <<dtor, life, up>>
      BY <1>9, <2>2 DEF Connected
    <2> QED
      BY <1>9, <2>1, <2>2, ReleaseFacts DEF Connected
  <1>10. ASSUME NEW f \in Frames, Mark(f) PROVE G'
    BY <1>10 DEF Mark
  <1>11. ASSUME NEW f \in Frames, LoopPublishers(f) PROVE G'
    BY <1>11 DEF LoopPublishers
  <1>12. ASSUME NEW f \in Frames, Notify(f) PROVE G'
    BY <1>12 DEF Notify, Waken, Return
  <1>13. ASSUME NEW f \in Frames, NEW t \in Topics, Visit(f, t) PROVE G'
    BY <1>13 DEF Visit
  <1>14. ASSUME NEW f \in Frames, EndVisit(f) PROVE G'
    <2>1. CASE /\ Dies(f, hold[f]) /\ life[hold[f]] = "released"
               /\ \A g \in Frames \ {f} : hold[g] # hold[f]
      BY <1>14, <2>1, DiesFacts DEF EndVisit
    <2>2. CASE hold' = [hold EXCEPT ![f] = Nothing] /\ UNCHANGED <<dtor, life, up>>
      BY <1>14, <2>2 DEF EndVisit
    <2> QED
      BY <1>14, <2>1, <2>2, ReleaseFacts DEF EndVisit
  <1>15. ASSUME NEW f \in Frames, EndLoop(f) PROVE G'
    BY <1>15 DEF EndLoop
  <1>16. ASSUME NEW f \in Frames, Erase(f) PROVE G'
    BY <1>16 DEF Erase
  <1>17. ASSUME NEW f \in Frames, RemoveLock(f) PROVE G'
    BY <1>17 DEF RemoveLock
  <1>18. ASSUME NEW f \in Frames, Removed(f) PROVE G'
    BY <1>18 DEF Removed
  <1>19. ASSUME NEW f \in Frames, JoinReturns(f) PROVE G'
    BY <1>19 DEF JoinReturns
  <1> QED
    BY <1>1, <1>2, <1>3, <1>4, <1>5, <1>6, <1>7, <1>8, <1>9, <1>10, <1>11, <1>12,
       <1>13, <1>14, <1>15, <1>16, <1>17, <1>18, <1>19, Steps

\* What is listed under which topic.
LEMMA ListedNext == IInv /\ [Next]_vars => OneHeld' /\ ListedUnlessLate' /\ DropOK'
  <1> DEFINE G == OneHeld /\ ListedUnlessLate /\ DropOK
  <1> SUFFICES ASSUME IInv, [Next]_vars PROVE G'
    OBVIOUS
  <1>t. TypeOK /\ FrameOK /\ HoldOK /\ JobOK /\ LifeOK /\ OneHeld
         /\ DropOK /\ ListedUnlessLate
    BY DEF IInv
  <1> USE <1>t, SubscribersAssumption
      DEF TypeOK, FrameOK, HoldOK, LifeOK, OneHeld, ListedUnlessLate, DropOK,
          Unlisted, Objects, Frames, Iterating, At, Running, User, Goto,
          Receiver, In, Step, Looping, flags, objects, stacks, request, history
  <1>1. CASE Control
    BY <1>1, ControlFacts DEF Data
  <1>2. ASSUME NEW p \in Publishers, CreatePublisher(p) PROVE G'
    BY <1>2 DEF CreatePublisher
  <1>3. ASSUME NEW p \in Publishers, DropPublisher(p) PROVE G'
    BY <1>3 DEF DropPublisher
  <1>4. ASSUME NEW s \in Subscribers, CreateSubscriber(s) PROVE G'
    BY <1>4 DEF CreateSubscriber, MapChange
  <1>5. ASSUME NEW s \in Subscribers, DropSubscriber(s) PROVE G'
    <2>1. CASE Dies("user", s)
      BY <1>5, <2>1, DiesFacts DEF DropSubscriber
    <2>2. CASE /\ \E f \in Frames : hold[f] = s
               /\ life' = [life EXCEPT ![s] = "released"] /\ UNCHANGED <<up, hold, dtor>>
      BY <1>5, <2>2 DEF DropSubscriber
    <2> QED
      BY <1>5, <2>1, <2>2 DEF DropSubscriber
  <1>6. CASE Send
    BY <1>6 DEF Send
  <1>7. CASE Spin
    BY <1>7 DEF Spin
  <1>8. CASE Find
    BY <1>8 DEF Find
  <1>9. CASE Connected
    <2>1. CASE /\ Dies("receiver", hold["receiver"]) /\ life[hold["receiver"]] = "released"
               /\ \A g \in Frames \ {"receiver"} : hold[g] # hold["receiver"]
      BY <1>9, <2>1, DiesFacts DEF Connected
    <2>2. CASE hold' = [hold EXCEPT !["receiver"] = Nothing] /\ UNCHANGED <<dtor, life, up>>
      BY <1>9, <2>2 DEF Connected
    <2> QED
      BY <1>9, <2>1, <2>2, ReleaseFacts DEF Connected
  <1>10. ASSUME NEW f \in Frames, Mark(f) PROVE G'
    BY <1>10 DEF Mark
  <1>11. ASSUME NEW f \in Frames, LoopPublishers(f) PROVE G'
    BY <1>11 DEF LoopPublishers
  <1>12. ASSUME NEW f \in Frames, Notify(f) PROVE G'
    BY <1>12 DEF Notify, Waken, Return
  <1>13. ASSUME NEW f \in Frames, NEW t \in Topics, Visit(f, t) PROVE G'
    BY <1>13 DEF Visit
  <1>14. ASSUME NEW f \in Frames, EndVisit(f) PROVE G'
    <2>1. CASE /\ Dies(f, hold[f]) /\ life[hold[f]] = "released"
               /\ \A g \in Frames \ {f} : hold[g] # hold[f]
      BY <1>14, <2>1, DiesFacts DEF EndVisit
    <2>2. CASE hold' = [hold EXCEPT ![f] = Nothing] /\ UNCHANGED <<dtor, life, up>>
      BY <1>14, <2>2 DEF EndVisit
    <2> QED
      BY <1>14, <2>1, <2>2, ReleaseFacts DEF EndVisit
  <1>15. ASSUME NEW f \in Frames, EndLoop(f) PROVE G'
    BY <1>15 DEF EndLoop
  <1>16. ASSUME NEW f \in Frames, Erase(f) PROVE G'
    BY <1>16 DEF Erase
  <1>17. ASSUME NEW f \in Frames, RemoveLock(f) PROVE G'
    BY <1>17 DEF RemoveLock
  <1>18. ASSUME NEW f \in Frames, Removed(f) PROVE G'
    BY <1>18 DEF Removed
  <1>19. ASSUME NEW f \in Frames, JoinReturns(f) PROVE G'
    BY <1>19 DEF JoinReturns
  <1> QED
    BY <1>1, <1>2, <1>3, <1>4, <1>5, <1>6, <1>7, <1>8, <1>9, <1>10, <1>11, <1>12,
       <1>13, <1>14, <1>15, <1>16, <1>17, <1>18, <1>19, Steps

\* What a disconnect() has reached.
LEMMA LoopNext == IInv /\ [Next]_vars => LoopOK' /\ NobodyLeftConnected'
  <1> DEFINE G == LoopOK /\ NobodyLeftConnected
  <1> SUFFICES ASSUME IInv, [Next]_vars PROVE G'
    OBVIOUS
  <1>t. TypeOK /\ FrameOK /\ HoldOK /\ JobOK /\ LifeOK /\ OneHeld
         /\ DropOK /\ ListedUnlessLate /\ LoopOK /\ NobodyLeftConnected
    BY DEF IInv
  <1> USE <1>t, SubscribersAssumption
      DEF TypeOK, FrameOK, HoldOK, LifeOK, ListedUnlessLate, LoopOK, Reaching,
          NobodyLeftConnected, Listed, Unlisted, Objects, Frames, Iterating, At,
          Running, User, Goto,
          Receiver, In, Step, Looping, flags, objects, stacks, request, history
  <1>1. CASE Control
    BY <1>1, ControlFacts DEF Data
  <1>2. ASSUME NEW p \in Publishers, CreatePublisher(p) PROVE G'
    BY <1>2 DEF CreatePublisher
  <1>3. ASSUME NEW p \in Publishers, DropPublisher(p) PROVE G'
    BY <1>3 DEF DropPublisher
  <1>4. ASSUME NEW s \in Subscribers, CreateSubscriber(s) PROVE G'
    BY <1>4 DEF CreateSubscriber, MapChange
  <1>5. ASSUME NEW s \in Subscribers, DropSubscriber(s) PROVE G'
    <2>1. CASE Dies("user", s)
      BY <1>5, <2>1, DiesFacts DEF DropSubscriber
    <2>2. CASE /\ \E f \in Frames : hold[f] = s
               /\ life' = [life EXCEPT ![s] = "released"] /\ UNCHANGED <<up, hold, dtor>>
      BY <1>5, <2>2 DEF DropSubscriber
    <2> QED
      BY <1>5, <2>1, <2>2 DEF DropSubscriber
  <1>6. CASE Send
    BY <1>6 DEF Send
  <1>7. CASE Spin
    BY <1>7 DEF Spin
  <1>8. CASE Find
    BY <1>8 DEF Find
  <1>9. CASE Connected
    <2>1. CASE /\ Dies("receiver", hold["receiver"]) /\ life[hold["receiver"]] = "released"
               /\ \A g \in Frames \ {"receiver"} : hold[g] # hold["receiver"]
      BY <1>9, <2>1, DiesFacts DEF Connected
    <2>2. CASE hold' = [hold EXCEPT !["receiver"] = Nothing] /\ UNCHANGED <<dtor, life, up>>
      BY <1>9, <2>2 DEF Connected
    <2> QED
      BY <1>9, <2>1, <2>2, ReleaseFacts DEF Connected
  <1>10. ASSUME NEW f \in Frames, Mark(f) PROVE G'
    BY <1>10 DEF Mark
  <1>11. ASSUME NEW f \in Frames, LoopPublishers(f) PROVE G'
    BY <1>11 DEF LoopPublishers
  <1>12. ASSUME NEW f \in Frames, Notify(f) PROVE G'
    BY <1>12 DEF Notify, Waken, Return
  <1>13. ASSUME NEW f \in Frames, NEW t \in Topics, Visit(f, t) PROVE G'
    BY <1>13 DEF Visit
  <1>14. ASSUME NEW f \in Frames, EndVisit(f) PROVE G'
    <2>1. CASE /\ Dies(f, hold[f]) /\ life[hold[f]] = "released"
               /\ \A g \in Frames \ {f} : hold[g] # hold[f]
      BY <1>14, <2>1, DiesFacts DEF EndVisit
    <2>2. CASE hold' = [hold EXCEPT ![f] = Nothing] /\ UNCHANGED <<dtor, life, up>>
      BY <1>14, <2>2 DEF EndVisit
    <2> QED
      BY <1>14, <2>1, <2>2, ReleaseFacts DEF EndVisit
  <1>15. ASSUME NEW f \in Frames, EndLoop(f) PROVE G'
    BY <1>15 DEF EndLoop
  <1>16. ASSUME NEW f \in Frames, Erase(f) PROVE G'
    <2>1. /\ torn \subseteq torn' /\ late \subseteq late'
          /\ \A g \in Frames : dis[g] = "loops" => g \in torn'
      BY <1>16, MapFacts DEF Erase
    <2>2. UNCHANGED <<main, dis, rx, life, up, hold, todo, before>>
      BY <1>16 DEF Erase
    <2> QED
      BY <2>1, <2>2
  <1>17. ASSUME NEW f \in Frames, RemoveLock(f) PROVE G'
    BY <1>17 DEF RemoveLock
  <1>18. ASSUME NEW f \in Frames, Removed(f) PROVE G'
    BY <1>18 DEF Removed
  <1>19. ASSUME NEW f \in Frames, JoinReturns(f) PROVE G'
    BY <1>19 DEF JoinReturns
  <1> QED
    BY <1>1, <1>2, <1>3, <1>4, <1>5, <1>6, <1>7, <1>8, <1>9, <1>10, <1>11, <1>12,
       <1>13, <1>14, <1>15, <1>16, <1>17, <1>18, <1>19, Steps

\* Which subscriptions the Mediator has been told of.
LEMMA ToldNext == IInv /\ [Next]_vars => MediatorTold'
  <1> SUFFICES ASSUME IInv, [Next]_vars PROVE MediatorTold'
    OBVIOUS
  <1>t. TypeOK /\ FrameOK /\ HoldOK /\ JobOK /\ LifeOK /\ OneHeld
         /\ DropOK /\ MediatorTold
    BY DEF IInv
  <1> USE <1>t, SubscribersAssumption
      DEF TypeOK, FrameOK, HoldOK, JobOK, LifeOK, OneHeld, DropOK, MediatorTold, Told,
          Objects, Frames, Iterating, At, Running, User, Goto,
          Receiver, In, Step, Looping, flags, objects, stacks, request, history
  <1>1. CASE Control
    BY <1>1, ControlFacts DEF Data
  <1>2. ASSUME NEW p \in Publishers, CreatePublisher(p) PROVE MediatorTold'
    BY <1>2 DEF CreatePublisher
  <1>3. ASSUME NEW p \in Publishers, DropPublisher(p) PROVE MediatorTold'
    BY <1>3 DEF DropPublisher
  <1>4. ASSUME NEW s \in Subscribers, CreateSubscriber(s) PROVE MediatorTold'
    BY <1>4 DEF CreateSubscriber, MapChange
  <1>5. ASSUME NEW s \in Subscribers, DropSubscriber(s) PROVE MediatorTold'
    <2>1. CASE Dies("user", s)
      BY <1>5, <2>1, DiesFacts DEF DropSubscriber
    <2>2. CASE /\ \E f \in Frames : hold[f] = s
               /\ life' = [life EXCEPT ![s] = "released"] /\ UNCHANGED <<up, hold, dtor>>
      BY <1>5, <2>2 DEF DropSubscriber
    <2> QED
      BY <1>5, <2>1, <2>2 DEF DropSubscriber
  <1>6. CASE Send
    BY <1>6 DEF Send
  <1>7. CASE Spin
    BY <1>7 DEF Spin
  <1>8. CASE Find
    BY <1>8 DEF Find
  <1>9. CASE Connected
    <2>1. CASE /\ Dies("receiver", hold["receiver"]) /\ life[hold["receiver"]] = "released"
               /\ \A g \in Frames \ {"receiver"} : hold[g] # hold["receiver"]
      BY <1>9, <2>1, DiesFacts DEF Connected
    <2>2. CASE hold' = [hold EXCEPT !["receiver"] = Nothing] /\ UNCHANGED <<dtor, life, up>>
      BY <1>9, <2>2 DEF Connected
    <2> QED
      BY <1>9, <2>1, <2>2, ReleaseFacts DEF Connected
  <1>10. ASSUME NEW f \in Frames, Mark(f) PROVE MediatorTold'
    BY <1>10 DEF Mark
  <1>11. ASSUME NEW f \in Frames, LoopPublishers(f) PROVE MediatorTold'
    BY <1>11 DEF LoopPublishers
  <1>12. ASSUME NEW f \in Frames, Notify(f) PROVE MediatorTold'
    BY <1>12 DEF Notify, Waken, Return
  <1>13. ASSUME NEW f \in Frames, NEW t \in Topics, Visit(f, t) PROVE MediatorTold'
    BY <1>13 DEF Visit
  <1>14. ASSUME NEW f \in Frames, EndVisit(f) PROVE MediatorTold'
    <2>1. CASE /\ Dies(f, hold[f]) /\ life[hold[f]] = "released"
               /\ \A g \in Frames \ {f} : hold[g] # hold[f]
      BY <1>14, <2>1, DiesFacts DEF EndVisit
    <2>2. CASE hold' = [hold EXCEPT ![f] = Nothing] /\ UNCHANGED <<dtor, life, up>>
      BY <1>14, <2>2 DEF EndVisit
    <2> QED
      BY <1>14, <2>1, <2>2, ReleaseFacts DEF EndVisit
  <1>15. ASSUME NEW f \in Frames, EndLoop(f) PROVE MediatorTold'
    BY <1>15 DEF EndLoop
  <1>16. ASSUME NEW f \in Frames, Erase(f) PROVE MediatorTold'
    BY <1>16 DEF Erase
  <1>17. ASSUME NEW f \in Frames, RemoveLock(f) PROVE MediatorTold'
    BY <1>17 DEF RemoveLock
  <1>18. ASSUME NEW f \in Frames, Removed(f) PROVE MediatorTold'
    BY <1>18 DEF Removed
  <1>19. ASSUME NEW f \in Frames, JoinReturns(f) PROVE MediatorTold'
    BY <1>19 DEF JoinReturns
  <1> QED
    BY <1>1, <1>2, <1>3, <1>4, <1>5, <1>6, <1>7, <1>8, <1>9, <1>10, <1>11, <1>12,
       <1>13, <1>14, <1>15, <1>16, <1>17, <1>18, <1>19, Steps

LEMMA IInvNext == IInv /\ [Next]_vars => IInv'
  BY TypeNext, HoldNext, LifeNext, ListedNext, ToldNext, LoopNext DEF IInv

\* The state of a node keeps its type.
THEOREM TypeCorrect == Spec => []TypeOK
  <1>1. IInv => TypeOK
    BY DEF IInv
  <1> QED
    BY <1>1, IInvInit, IInvNext, PTL DEF Spec

\* A subscriber that the user holds is found under its topic, whatever else
\* is created, dropped or connected, unless a lock()ed pointer was the last one
\* to an earlier subscriber of the topic.
THEOREM HeldSubscribersListed == Spec => []ListedUnlessLate
  <1>1. IInv => ListedUnlessLate
    BY DEF IInv
  <1> QED
    BY <1>1, IInvInit, IInvNext, PTL DEF Spec

\* Between the user's calls the Mediator knows the subscribers the user holds.
THEOREM MediatorKnowsSubscribers == Spec => []MediatorAgrees
  <1>1. IInv => MediatorAgrees
    BY SubscribersAssumption DEF IInv, JobOK, MediatorTold, MediatorAgrees
  <1> QED
    BY <1>1, IInvInit, IInvNext, PTL DEF Spec

\* Whichever threads disconnect the node at once, and wherever a subscriber is
\* destroyed meanwhile, a disconnect() whose loops met no change of subscribers_
\* has reached every subscriber that was held and listed when it marked the
\* node; but for the topics of HeldSubscribersListed's exception.
THEOREM DisconnectReachesListed == Spec => []NobodyLeftConnected
  <1>1. IInv => NobodyLeftConnected
    BY DEF IInv
  <1> QED
    BY <1>1, IInvInit, IInvNext, PTL DEF Spec
=============================================================================
