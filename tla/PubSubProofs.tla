---------------------------- MODULE PubSubProofs ----------------------------
(* A Publisher and a Subscriber are what each expects of the other.         *)
EXTENDS PubSub, SequenceTheorems, TLAPS

\* The invariant of the Publisher, whose only peer is the Subscriber.
Inv == INSTANCE PublisherProofs WITH
           Subscribers <- {sub}, connected <- pubConnected, todo <- pubTodo

LEMMA NextIsPub == [Next]_vars => [Pub!Next]_(Pub!publisherVars)
  <1> SUFFICES ASSUME [Next]_vars PROVE Pub!Next \/ UNCHANGED pubVars
    BY DEF Pub!publisherVars, pubVars, Pub!accepting, Pub!sending, Pub!peers
  <1>1. CASE Connect
    BY <1>1 DEF Connect, Pub!Next, Pub!Subscriber
  <1>2. CASE PublisherThread
    BY <1>2 DEF PublisherThread, SendingUsers, Pub!Next
  <1>3. CASE PublisherOther
    BY <1>3 DEF PublisherOther, Pub!Next
  <1>4. CASE Receiving
    BY <1>4 DEF Receiving, CopyConnections, ReadMessage, RemoveDead, Pub!Next,
         Pub!Subscriber, Pub!Reading
  <1>5. CASE Spinning
    BY <1>5 DEF Spinning
  <1>6. CASE Destructor
    BY <1>6 DEF Destructor, JoinReceiver, JoinSpinner, CloseSockets, Pub!Next,
         Pub!Subscriber
  <1>7. CASE SubscriberOther
    BY <1>7 DEF SubscriberOther
  <1>8. CASE UNCHANGED vars
    BY <1>8 DEF vars
  <1> QED
    BY <1>1, <1>2, <1>3, <1>4, <1>5, <1>6, <1>7, <1>8 DEF Next

\* To the Publisher the Subscriber is one of its peers: every step of the two
\* is a step that the module Publisher allows, or leaves the publisher alone.
THEOREM PeerIsSubscriber == Spec => Pub!Spec
  <1>1. Init => Pub!Init
    BY DEF Init
  <1> QED
    BY <1>1, NextIsPub, PTL DEF Spec, Pub!Spec

LEMMA InvAssumption == Inv!PublisherAssumption
  BY PubSubAssumption DEF Inv!PublisherAssumption, Inv!IsFiniteSet, IsFiniteSet

LEMMA SameNext == [Pub!Next]_(Pub!publisherVars) => [Inv!Next]_(Inv!publisherVars)
  BY
     DEF Pub!Next, Inv!Next, Pub!StartPublish, Inv!StartPublish, Pub!Publishing,
         Inv!Publishing, Pub!Release, Inv!Release, Pub!Disconnect, Inv!Disconnect,
         Pub!AcceptingThread, Inv!AcceptingThread, Pub!AcceptFails, Inv!AcceptFails,
         Pub!Subscriber, Inv!Subscriber, Pub!Reading, Inv!Reading,
         Pub!LockConnections, Inv!LockConnections, Pub!Send, Inv!Send, Pub!Erase,
         Inv!Erase, Pub!Unlock, Inv!Unlock, Pub!Join, Inv!Join, Pub!AcceptTest,
         Inv!AcceptTest, Pub!Accept, Inv!Accept, Pub!Add, Inv!Add, Pub!Sleep,
         Inv!Sleep, Pub!CloseServer, Inv!CloseServer, Pub!Clear, Inv!Clear,
         Pub!Connect, Inv!Connect, Pub!Read, Inv!Read, Pub!ReadEnd, Inv!ReadEnd,
         Pub!Stop, Inv!Stop, Pub!Leave, Inv!Leave, Pub!Runs, Inv!Runs, Pub!Linked,
         Inv!Linked, Pub!accepting, Inv!accepting, Pub!sending, Inv!sending,
         Pub!peers, Inv!peers, Pub!publisherVars, Inv!publisherVars, Pub!ToSet,
         Inv!ToSet, Pub!RemoveAt, Inv!RemoveAt, Pub!Cardinality, Inv!Cardinality

LEMMA PubInv == Spec => []Inv!IInv
  <1>1. Init => Inv!IInv
    <2>1. Inv!Init => Inv!IInv
      BY Inv!IInvInit, InvAssumption
    <2> QED
      BY <2>1 DEF Init, Pub!Init, Inv!Init
  <1>2. Inv!IInv /\ [Next]_vars => Inv!IInv'
    <2>1. Inv!IInv /\ [Inv!Next]_(Inv!publisherVars) => Inv!IInv'
      BY Inv!IInvNext, InvAssumption
    <2> QED
      BY <2>1, NextIsPub, SameNext
  <1> QED
    BY <1>1, <1>2, PTL DEF Spec

-----------------------------------------------------------------------------
(* The Publisher is what the Subscriber expects.                            *)

\* The server listens until the accepting thread closes it, and a connection
\* that is not closed is in publisher_connections_.
LinkOK ==
    /\ acceptor \in {"test", "accept", "adding", "sleep", "close"} => listening
    /\ dead \subseteq {pub}
    /\ reader[sub] \in {"reading", "stopped"} => pub \in linked

IInv == Inv!IInv /\ LinkOK

LEMMA LinkInit == Init => LinkOK
  BY DEF Init, LinkOK, Pub!Init, Sub!Init

LEMMA ReaderType == Inv!IInv => reader = [s \in {sub} |-> reader[sub]]
  BY DEF Inv!IInv, Inv!TypeOK

LEMMA LinkNext == IInv /\ [Next]_vars => LinkOK'
  <1> SUFFICES ASSUME IInv, [Next]_vars PROVE LinkOK'
    OBVIOUS
  <1> USE ReaderType DEF LinkOK, IInv, subVars
  <1>1. CASE Connect
    <2>1. acceptor' = acceptor /\ listening' = listening /\ dead' = dead
      BY <1>1 DEF Connect, Pub!Connect, Sub!ConnectToPublisher
    <2>2. CASE Pub!Runs /\ listening
      BY <1>1, <2>1, <2>2 DEF Connect, Sub!ConnectToPublisher
    <2>3. CASE ~(Pub!Runs /\ listening)
      BY <1>1, <2>1, <2>3 DEF Connect, Pub!Connect
    <2> QED
      BY <2>2, <2>3
  <1>2. CASE PublisherThread
    <2>1. reader' = reader /\ dead' = dead /\ linked' = linked
      BY <1>2 DEF PublisherThread, SendingUsers, Pub!Publishing, Pub!LockConnections,
           Pub!Send, Pub!Erase, Pub!Unlock, Pub!Join, Pub!AcceptingThread,
           Pub!AcceptTest, Pub!Accept, Pub!Add, Pub!Sleep, Pub!CloseServer, Pub!Clear,
           Pub!peers
    <2>2. CASE SendingUsers
      BY <2>1, <2>2 DEF SendingUsers, Pub!Publishing, Pub!LockConnections,
           Pub!Send, Pub!Erase, Pub!Unlock, Pub!Join, Pub!accepting
    <2>3. CASE Pub!AcceptingThread
      BY <2>1, <2>3 DEF Pub!AcceptingThread, Pub!AcceptTest, Pub!Accept, Pub!Add,
           Pub!Sleep, Pub!CloseServer, Pub!Clear
    <2> QED
      BY <1>2, <2>2, <2>3 DEF PublisherThread
  <1>3. CASE PublisherOther
    BY <1>3 DEF PublisherOther, Pub!Disconnect, Pub!AcceptFails, Pub!StartPublish,
         Pub!Release, Pub!accepting, Pub!peers
  <1>4. CASE Receiving
    <2>1. CASE CopyConnections
      BY <2>1 DEF CopyConnections, Pub!Stop, Sub!CopyConnections, pubVars,
           Pub!accepting
    <2>2. CASE ReadMessage
      BY <2>2 DEF ReadMessage, Pub!Read, Sub!ReadMessage, Pub!accepting
    <2>3. CASE RemoveDead
      BY <2>3 DEF RemoveDead, Pub!ReadEnd, Sub!RemoveDead, pubVars, Pub!accepting
    <2>4. CASE UNCHANGED pubVars /\ Sub!NextConnection(pub)
      BY <2>4 DEF Sub!NextConnection, pubVars
    <2>5. CASE UNCHANGED pubVars /\ Sub!ReadFailure
      BY <2>5 DEF Sub!ReadFailure, pubVars, Closed
    <2> QED
      BY <1>4, <2>1, <2>2, <2>3, <2>4, <2>5 DEF Receiving
  <1>5. CASE Spinning
    BY <1>5 DEF Spinning, Sub!SpinningThread, Sub!SpinTest, Sub!SpinWait, Sub!SpinTake,
         Sub!SpinCallback, Sub!receiver, pubVars
  <1>6. CASE Destructor
    <2>1. linked' = linked /\ dead' = dead
      BY <1>6 DEF Destructor, JoinReceiver, JoinSpinner, Sub!JoinReceiver, Sub!PushDummy,
           Sub!JoinSpinner, Sub!receiver
    <2>2. /\ acceptor' = acceptor /\ listening' = listening
          /\ (reader' = reader \/ reader' = [reader EXCEPT ![sub] = "gone"])
      BY <1>6 DEF Destructor, JoinReceiver, JoinSpinner, CloseSockets, Pub!Leave,
           Pub!accepting, pubVars
    <2>3. CASE reader' = reader
      BY <2>1, <2>2, <2>3
    <2>4. CASE reader' = [reader EXCEPT ![sub] = "gone"]
      <3>1. reader'[sub] = "gone"
        BY <2>4
      <3> QED
        BY <2>1, <2>2, <3>1
    <2> QED
      BY <2>2, <2>3, <2>4
  <1>7. CASE SubscriberOther
    BY <1>7 DEF SubscriberOther, Sub!Disconnect, Sub!Spin, Sub!SpinOnce, Sub!Destroy,
         Sub!receiver, pubVars
  <1>8. CASE UNCHANGED vars
    BY <1>8 DEF vars, pubVars
  <1> QED
    BY <1>1, <1>2, <1>3, <1>4, <1>5, <1>6, <1>7, <1>8 DEF Next

LEMMA IInvAlways == Spec => []IInv
  <1>1. Init => LinkOK
    BY LinkInit
  <1>2. Inv!IInv /\ LinkOK /\ [Next]_vars => LinkOK'
    BY LinkNext DEF IInv
  <1>3. Inv!IInv /\ LinkOK <=> IInv
    BY DEF IInv
  <1> QED
    BY <1>1, <1>2, <1>3, PubInv, PTL DEF Spec

\* A step of the Publisher that writes nothing is a stutter of the Subscriber,
\* or closes the connection, unless it was closed and is open again.
LEMMA QuietIsSub ==
  ASSUME UNCHANGED subVars, stream' = stream, read' = read,
         Closed = {pub} => Closed' = {pub}
  PROVE  [Sub!Next]_(Sub!vars)
  <1>1. Closed \in {{}, {pub}} /\ Closed' \in {{}, {pub}}
    BY DEF Closed
  <1>2. CASE Closed' = Closed
    BY <1>2 DEF subVars, Sub!vars, Sub!streams, Sub!receiver, Sub!spinning, Sub!history
  <1>3. CASE Closed = {} /\ Closed' = {pub}
    <2>1. Sub!ClosePublisher(pub)
      BY <1>3 DEF subVars, Sub!ClosePublisher, Sub!receiver, Sub!spinning, Sub!history
    <2> QED
      BY <2>1 DEF Sub!Next
  <1> QED
    BY <1>1, <1>2, <1>3

\* Nothing that decides whether the connection is closed changes.
LEMMA ClosedSame ==
  ASSUME UNCHANGED <<acceptor, hand, listening, backlog, connections>>
  PROVE  Closed' = Closed
  BY DEF Closed, Pub!Linked, Pub!Runs, Pub!ToSet

LEMMA TodoFacts ==
  ASSUME Inv!IInv, pubTodo # <<>>
  PROVE  /\ Head(pubTodo) = sub
         /\ Pub!Runs => sub \in Pub!Linked
         /\ reader[sub] # "none" /\ Len(stream[sub]) \in Nat
         /\ Len(stream[sub]) < MaxPublished
  <1>1. pubTodo \in Seq({sub}) /\ Head(pubTodo) \in {sub}
    BY HeadTailProperties DEF Inv!IInv, Inv!TypeOK
  <1>2. Head(pubTodo) \in Inv!ToSet(pubTodo)
    BY <1>1, EmptySeq, HeadTailProperties, LenProperties DEF Inv!ToSet
  <1>3. sub \in Inv!ToSet(connections) /\ sub \in Inv!ToSet(pubTodo)
    BY <1>1, <1>2 DEF Inv!IInv, Inv!PlacesOK
  <1>4. Pub!Runs => sub \in Pub!Linked
    BY <1>3 DEF Pub!Linked, Pub!ToSet, Inv!ToSet
  <1>5. reader[sub] # "none"
    BY <1>3 DEF Inv!IInv, Inv!UnusedOK
  <1>6. Len(stream[sub]) = published - joined[sub] - 1
    BY <1>3 DEF Inv!IInv, Inv!SentOK
  <1>7. published \in 0..MaxPublished /\ joined[sub] \in 0..MaxPublished
        /\ stream[sub] \in Seq(1..MaxPublished)
    BY DEF Inv!IInv, Inv!TypeOK
  <1>8. Len(stream[sub]) \in Nat
    BY <1>7, LenProperties
  <1>9. Len(stream[sub]) < MaxPublished
    BY <1>6, <1>7, <1>8, PubSubAssumption
  <1> QED
    BY <1>1, <1>4, <1>5, <1>8, <1>9

LEMMA NextIsSub == IInv /\ [Next]_vars => [Sub!Next]_(Sub!vars)
  <1> SUFFICES ASSUME IInv, [Next]_vars PROVE [Sub!Next]_(Sub!vars)
    OBVIOUS
  <1> USE DEF IInv
  <1>1. CASE Connect
    <2>1. CASE Pub!Runs /\ listening
      BY <1>1, <2>1 DEF Connect, Sub!Next
    <2>2. CASE ~(Pub!Runs /\ listening)
      <3>1. /\ UNCHANGED subVars /\ stream' = stream /\ read' = read
            /\ UNCHANGED <<acceptor, hand, listening, backlog, connections>>
        BY <1>1, <2>2 DEF Connect, Pub!Connect, Pub!sending
      <3> QED
        BY <3>1, ClosedSame, QuietIsSub
    <2> QED
      BY <2>1, <2>2
  <1>2. ASSUME NEW u \in Users, UNCHANGED subVars, Pub!Publishing(u)
        PROVE  [Sub!Next]_(Sub!vars)
    <2>1. CASE Pub!LockConnections(u) \/ Pub!Unlock(u) \/ Pub!Join(u)
      <3>1. /\ stream' = stream /\ read' = read
            /\ UNCHANGED <<acceptor, hand, listening, backlog, connections>>
        BY <2>1 DEF Pub!LockConnections, Pub!Unlock, Pub!Join, Pub!accepting, Pub!peers
      <3> QED
        BY <1>2, <3>1, ClosedSame, QuietIsSub
    <2>2. CASE Pub!Erase(u)
      <3>1. pubTodo # <<>> /\ Pub!Runs /\ stream' = stream /\ read' = read
        BY <2>2 DEF Pub!Erase, Pub!peers
      <3>2. Closed = {}
        BY <3>1, TodoFacts DEF Closed
      <3> QED
        BY <1>2, <3>1, <3>2, QuietIsSub
    <2>3. CASE Pub!Send(u)
      <3>1. /\ pubTodo # <<>> /\ Pub!Runs /\ reader[Head(pubTodo)] # "gone"
            /\ stream' = [stream EXCEPT ![Head(pubTodo)] = Append(@, published)]
            /\ UNCHANGED <<acceptor, hand, listening, backlog, connections, reader, read>>
        BY <2>3 DEF Pub!Send, Pub!accepting
      <3>2. /\ Head(pubTodo) = sub /\ sub \in Pub!Linked /\ Len(stream[sub]) < MaxPublished
            /\ reader[sub] \in {"reading", "stopped"} /\ stream[sub] \in Seq(1..MaxPublished)
            /\ published \in 1..MaxPublished
        BY <3>1, TodoFacts DEF Inv!IInv, Inv!TypeOK, Inv!PlacesOK
      <3>3. Closed = {} /\ Closed' = {} /\ pub \in linked
        BY <3>1, <3>2, ClosedSame DEF Closed, LinkOK
      <3>4. Len(stream'[sub]) = Len(stream[sub]) + 1
        BY <3>1, <3>2, AppendProperties DEF Inv!IInv, Inv!TypeOK
      <3>5. Sub!Send(pub)
        BY <1>2, <3>1, <3>2, <3>3, <3>4
           DEF subVars, Sub!Send, Sub!receiver, Sub!spinning, Sub!history
      <3> QED
        BY <3>5 DEF Sub!Next
    <2> QED
      BY <1>2, <2>1, <2>2, <2>3 DEF Pub!Publishing
  <1>3. ASSUME UNCHANGED subVars, Pub!AcceptingThread \/ Pub!AcceptFails
        PROVE  [Sub!Next]_(Sub!vars)
    <2>1. stream' = stream /\ read' = read
      BY <1>3 DEF Pub!AcceptFails, Pub!AcceptingThread, Pub!AcceptTest, Pub!Accept,
           Pub!Add, Pub!Sleep, Pub!CloseServer, Pub!Clear, Pub!peers
    <2>2. CASE Pub!Clear
      <3>1. connections' = <<>> /\ acceptor = "clear" /\ acceptor' = "ended"
            /\ UNCHANGED <<hand, listening, backlog>>
        BY <2>2 DEF Pub!Clear
      <3>2. Pub!Linked' \subseteq Pub!Linked
        BY <3>1 DEF Pub!Linked, Pub!Runs, Pub!ToSet
      <3>3. Closed = {pub} => Closed' = {pub}
        BY <3>1, <3>2 DEF Closed, Pub!Runs
      <3> QED
        BY <1>3, <2>1, <3>3, QuietIsSub
    <2>3. CASE ~Pub!Clear
      <3>1. acceptor \in {"test", "accept", "adding", "sleep", "close"}
        BY <1>3, <2>3 DEF Pub!AcceptFails, Pub!AcceptingThread, Pub!AcceptTest,
             Pub!Accept, Pub!Add, Pub!Sleep, Pub!CloseServer
      <3>2. Closed = {}
        BY <3>1 DEF Closed, Pub!Runs, LinkOK
      <3> QED
        BY <1>3, <2>1, <3>2, QuietIsSub
    <2> QED
      BY <2>2, <2>3
  <1>4. CASE PublisherOther
    <2>1. CASE Pub!AcceptFails
      BY <1>3, <1>4, <2>1 DEF PublisherOther
    <2>2. CASE ~Pub!AcceptFails
      <3>1. /\ UNCHANGED subVars /\ stream' = stream /\ read' = read
            /\ UNCHANGED <<acceptor, hand, listening, backlog, connections>>
        BY <1>4, <2>2 DEF PublisherOther, Pub!Disconnect, Pub!StartPublish, Pub!Release,
             Pub!accepting, Pub!sending, Pub!peers
      <3> QED
        BY <3>1, ClosedSame, QuietIsSub
    <2> QED
      BY <2>1, <2>2
  <1>5. CASE Receiving
    BY <1>5 DEF Receiving, CopyConnections, ReadMessage, RemoveDead, Sub!Next,
         Sub!ReceivingThread
  <1>6. CASE Spinning
    BY <1>6 DEF Spinning, Sub!Next
  <1>7. CASE Destructor
    BY <1>7 DEF Destructor, JoinReceiver, JoinSpinner, Sub!Next, Sub!Destructor
  <1>8. CASE SubscriberOther
    BY <1>8 DEF SubscriberOther, Sub!Next
  <1>9. CASE UNCHANGED vars
    <2>1. /\ UNCHANGED subVars /\ stream' = stream /\ read' = read
          /\ UNCHANGED <<acceptor, hand, listening, backlog, connections>>
      BY <1>9 DEF vars, pubVars
    <2> QED
      BY <2>1, ClosedSame, QuietIsSub
  <1> QED
    BY <1>1, <1>2, <1>3, <1>4, <1>5, <1>6, <1>7, <1>8, <1>9
       DEF Next, PublisherThread, SendingUsers

\* For any capacity and any number of users, the Publisher does nothing on the
\* connection that the Subscriber's specification does not allow.
THEOREM PublisherIsAsExpected == Spec => PublishersAreAsExpected
  <1>1. Init => Sub!Init
    BY DEF Init
  <1> QED
    BY <1>1, NextIsSub, IInvAlways, PTL DEF Spec, Sub!Spec, PublishersAreAsExpected
=============================================================================
