--------------------------- MODULE MediatorProofs ---------------------------
(* Theorems about the mediator, for any nodes, topics and objects.          *)
EXTENDS Mediator, TLAPS

\* The object a handler works on is of its kind and belongs to its node.
JobOK ==
    \A n \in Nodes :
        /\ pc[n] \in {"addPublisher", "notify", "removePublisher"} =>
               job[n] \in Publishers /\ NodeOf[job[n]] = n
        /\ pc[n] \in {"addSubscriber", "reply", "removeSubscriber"} =>
               job[n] \in Subscribers /\ NodeOf[job[n]] = n

TypeJob == TypeOK /\ JobOK

\* erase(n) in a topic list removes that node only, from the topics in S only.
LEMMA UnlistedFacts ==
  ASSUME NEW lists \in [Topics -> SUBSET Nodes], NEW n, NEW S
  PROVE  /\ Unlisted(lists, n, S) \in [Topics -> SUBSET Nodes]
         /\ \A t \in Topics : \A m \in Nodes :
                m \in Unlisted(lists, n, S)[t] <=>
                    m \in lists[t] /\ ~(m = n /\ t \in S)
  BY DEF Unlisted

LEMMA TypeJobInit == Init => TypeJob
  BY DEF Init, TypeJob, TypeOK, JobOK, Steps

\* Every action keeps the types and hands each handler an object of its kind.
LEMMA TypeJobNext == TypeJob /\ [Next]_vars => TypeJob'
  <1> SUFFICES ASSUME TypeJob, [Next]_vars PROVE TypeJob'
    OBVIOUS
  <1> USE ObjectsAssumption, DistinctAssumption
      DEF TypeJob, TypeOK, JobOK, Objects, Steps, Goto, Idle, Touched, Listed,
          Unlisted, Forgotten, AddressAt, Resize, Reading
  <1> USE DEF server, threads, locks, tables, history, vars
  <1>1. ASSUME NEW n \in Nodes, Accept(n) PROVE TypeJob'
    BY <1>1 DEF Accept
  <1>2. ASSUME NEW n \in Nodes, CompleteHandshake(n) PROVE TypeJob'
    BY <1>2 DEF CompleteHandshake
  <1>3. ASSUME NEW n \in Nodes, FailHandshake(n) \/ StopReading(n)
        PROVE  TypeJob'
    BY <1>3 DEF FailHandshake, StopReading
  <1>4. CASE Deactivate \/ AcceptFails
    <2>1. CASE Deactivate
      BY <2>1 DEF Deactivate
    <2>2. CASE AcceptFails
      BY <2>2 DEF AcceptFails
    <2> QED
      BY <1>4, <2>1, <2>2
  <1>5. CASE ClearTopics
    BY <1>5 DEF ClearTopics
  <1>6. CASE ClearNodes
    BY <1>6 DEF ClearNodes
  <1>7. CASE Destroy \/ Exit
    BY <1>7 DEF Destroy, Exit
  <1>8. ASSUME NEW p \in Publishers, AddPublisherTopic(p) PROVE TypeJob'
    BY <1>8 DEF AddPublisherTopic, CanCreate
  <1>9. ASSUME NEW n \in Nodes, AddPublisherNode(n) PROVE TypeJob'
    BY <1>9 DEF AddPublisherNode
  <1>10. ASSUME NEW n \in Nodes, NEW m \in Nodes, Notify(n, m) PROVE TypeJob'
    BY <1>10 DEF Notify
  <1>11. ASSUME NEW n \in Nodes, NotifyDone(n) PROVE TypeJob'
    BY <1>11 DEF NotifyDone
  <1>12. ASSUME NEW s \in Subscribers, AddSubscriberTopic(s) PROVE TypeJob'
    <2>1. TypeOK'
      BY <1>12, SMTT(30) DEF AddSubscriberTopic, CanCreate
    <2>2. JobOK'
      BY <1>12, SMTT(30) DEF AddSubscriberTopic, CanCreate
    <2> QED
      BY <2>1, <2>2
  <1>13. ASSUME NEW n \in Nodes, AddSubscriberNode(n) PROVE TypeJob'
    <2> DEFINE t == TopicOf[job[n]]
    <2>1. job[n] \in Subscribers /\ t \in Topics /\ copy[n] \in SUBSET Nodes
      BY <1>13 DEF AddSubscriberNode
    <2>2. \A m \in copy[n] : AddressAt(m, t) \in Publishers \cup {NoAddress}
      BY <2>1
    <2>3. /\ subscribed' = [subscribed EXCEPT ![n] = @ \cup {t}]
          /\ reply' = [reply EXCEPT ![n] = {AddressAt(m, t) : m \in copy[n]}]
          /\ addresses' = [m \in Nodes |->
                              IF m \in copy[n] THEN [addresses[m] EXCEPT ![t] = AddressAt(m, t)]
                                               ELSE addresses[m]]
          /\ connection' = Touched(copy[n] \cup {n})
          /\ copy' = [copy EXCEPT ![n] = {}]
          /\ pc[n] = "addSubscriber" /\ pc' = [pc EXCEPT ![n] = "reply"]
          /\ UNCHANGED <<active, process, deaf, job, topicLock, nodeLock, publishing, subscribing,
                         life, told, goneBefore>>
      BY <1>13 DEF AddSubscriberNode
    <2>4. raced' \in SUBSET Nodes
      BY <1>13 DEF AddSubscriberNode
    <2> HIDE DEF t, AddressAt
    <2>5. addresses' \in [Nodes -> [Topics -> Publishers \cup {NoAddress, Absent}]]
      BY <2>1, <2>2, <2>3
    <2>6. reply' \in [Nodes -> SUBSET (Publishers \cup {NoAddress})]
      BY <2>2, <2>3
    <2>7. /\ subscribed' \in [Nodes -> SUBSET Topics] /\ copy' \in [Nodes -> SUBSET Nodes]
          /\ connection' \in [Nodes -> {"none", "null", "set"}]
      BY <2>1, <2>3
    <2>8. pc' \in [Nodes -> Steps] /\ JobOK'
      BY <2>3
    <2> QED
      BY <2>3, <2>4, <2>5, <2>6, <2>7, <2>8
  <1>14. ASSUME NEW n \in Nodes, AddSubscriberReply(n) PROVE TypeJob'
    BY <1>14 DEF AddSubscriberReply
  <1>15. ASSUME NEW p \in Publishers, RemovePublisherTopic(p) PROVE TypeJob'
    BY <1>15 DEF RemovePublisherTopic, CanDestroy
  <1>16. ASSUME NEW n \in Nodes, RemovePublisherNode(n) PROVE TypeJob'
    BY <1>16 DEF RemovePublisherNode
  <1>17. ASSUME NEW s \in Subscribers, RemoveSubscriberTopic(s) PROVE TypeJob'
    BY <1>17 DEF RemoveSubscriberTopic, CanDestroy
  <1>18. ASSUME NEW n \in Nodes, RemoveSubscriberNode(n) PROVE TypeJob'
    BY <1>18 DEF RemoveSubscriberNode
  <1>19. ASSUME NEW n \in Nodes, Disconnect(n) PROVE TypeJob'
    BY <1>19 DEF Disconnect
  <1>20. ASSUME NEW n \in Nodes, RemoveNodeTopics(n) PROVE TypeJob'
    BY <1>20 DEF RemoveNodeTopics
  <1>21. ASSUME NEW n \in Nodes, RemoveNodeErase(n) PROVE TypeJob'
    <2> HIDE DEF Unlisted
    <2>1. publishing' \in [Topics -> SUBSET Nodes]
      BY <1>21, UnlistedFacts DEF RemoveNodeErase
    <2>2. subscribing' \in [Topics -> SUBSET Nodes]
      BY <1>21, UnlistedFacts DEF RemoveNodeErase
    <2>3. pc' \in [Nodes -> Steps] /\ pc' = [pc EXCEPT ![n] = "erasing"]
      BY <1>21 DEF RemoveNodeErase
    <2>4. topicLock' = NoThread /\ UNCHANGED <<server, job, copy, reply, nodeLock,
              connection, addresses, subscribed, history>>
      BY <1>21 DEF RemoveNodeErase
    <2>5. QED
      BY <2>1, <2>2, <2>3, <2>4
  <1>22. ASSUME NEW n \in Nodes, RemoveNodeEntry(n) PROVE TypeJob'
    BY <1>22 DEF RemoveNodeEntry
  <1>23. ASSUME NEW n \in Nodes, EndReceiveCycle(n) PROVE TypeJob'
    BY <1>23 DEF EndReceiveCycle
  <1>24. ASSUME NEW n \in Nodes, NullConnection(n) \/ TornRead(n) \/ UseDestroyedSocket(n)
         PROVE TypeJob'
    BY <1>24 DEF NullConnection, TornRead, UseDestroyedSocket, Crash
  <1>25. ASSUME NEW n \in Nodes, ConnectionReset(n) PROVE TypeJob'
    BY <1>25 DEF ConnectionReset
  <1>26. CASE UNCHANGED vars
    BY <1>26
  <1>27. QED
    BY <1>1, <1>2, <1>3, <1>4, <1>5, <1>6, <1>7, <1>8, <1>9, <1>10, <1>11, <1>12,
       <1>13, <1>14, <1>15, <1>16, <1>17, <1>18, <1>19, <1>20, <1>21, <1>22,
       <1>23, <1>24, <1>25, <1>26
       DEF Next, AcceptingThread, Handler, Request, Environment, Ended

\* The state of the mediator keeps its type.
THEOREM TypeCorrect == Spec => []TypeOK
  <1>1. TypeJob => TypeOK
    BY DEF TypeJob
  <1>2. QED
    BY <1>1, TypeJobInit, TypeJobNext, PTL DEF Spec

-----------------------------------------------------------------------------
\* Between its two critical sections a handler has changed the topic table
\* only; a node being erased is out of every list, unless its read was torn.
PhaseOK ==
    process = "running" =>
        \A n \in Nodes :
            /\ pc[n] = "addPublisher"     => n \in publishing[TopicOf[job[n]]]
            /\ pc[n] = "removePublisher"  => n \notin publishing[TopicOf[job[n]]]
            /\ pc[n] = "addSubscriber"    => n \in subscribing[TopicOf[job[n]]]
            /\ pc[n] = "removeSubscriber" => n \notin subscribing[TopicOf[job[n]]]
            /\ pc[n] = "erasing" /\ n \notin raced =>
                   \A t \in Topics : n \notin publishing[t] /\ n \notin subscribing[t]

\* The life of the object a handler works on.
LifeOK ==
    \A n \in Nodes :
        /\ pc[n] \in {"addPublisher", "notify", "addSubscriber", "reply"} =>
               life[job[n]] = "adding"
        /\ pc[n] = "removePublisher" => life[job[n]] = "removing"

\* What was gone before is still gone, and what is on its way to a subscriber
\* was not.
ToldOK ==
    /\ \A s \in Subscribers :
           /\ \A p \in goneBefore[s] : life[p] = "gone"
           /\ life[s] = "new" => told[s] = {}
    /\ \A n \in Nodes : \A p \in reply[n] \cap Publishers :
           pc[n] = "reply" => /\ TopicOf[p] = TopicOf[job[n]]
                              /\ p \notin goneBefore[job[n]]

\* Each action keeps the tables in agreement outside its critical sections.
LEMMA TablesNext ==
    TypeJob /\ PhaseOK /\ TablesAgree /\ [Next]_vars => (PhaseOK /\ TablesAgree)'
  <1> SUFFICES ASSUME TypeJob, PhaseOK, TablesAgree, [Next]_vars
               PROVE (PhaseOK /\ TablesAgree)'
    OBVIOUS
  <1> USE ObjectsAssumption, DistinctAssumption
      DEF TypeJob, TypeOK, JobOK, Objects, Steps, Goto, Idle, Touched, Listed,
          Unlisted, Forgotten, AddressAt, Resize, Reading
  <1> USE DEF server, threads, locks, tables, history, vars
  <1> USE DEF PhaseOK, TablesAgree, Between
  <1>1. ASSUME NEW n \in Nodes, Accept(n) PROVE (PhaseOK /\ TablesAgree)'
    BY <1>1 DEF Accept
  <1>2. ASSUME NEW n \in Nodes, CompleteHandshake(n) PROVE (PhaseOK /\ TablesAgree)'
    BY <1>2 DEF CompleteHandshake
  <1>3. ASSUME NEW n \in Nodes, FailHandshake(n) \/ StopReading(n)
        PROVE  (PhaseOK /\ TablesAgree)'
    BY <1>3 DEF FailHandshake, StopReading
  <1>4. CASE Deactivate \/ AcceptFails
    BY <1>4 DEF Deactivate, AcceptFails
  <1>5. CASE ClearTopics
    BY <1>5 DEF ClearTopics
  <1>6. CASE ClearNodes
    BY <1>6 DEF ClearNodes
  <1>7. CASE Destroy \/ Exit
    BY <1>7 DEF Destroy, Exit
  <1>8. ASSUME NEW p \in Publishers, AddPublisherTopic(p) PROVE (PhaseOK /\ TablesAgree)'
    BY <1>8 DEF AddPublisherTopic, CanCreate
  <1>9. ASSUME NEW n \in Nodes, AddPublisherNode(n) PROVE (PhaseOK /\ TablesAgree)'
    BY <1>9 DEF AddPublisherNode
  <1>10. ASSUME NEW n \in Nodes, NEW m \in Nodes, Notify(n, m) PROVE (PhaseOK /\ TablesAgree)'
    BY <1>10 DEF Notify
  <1>11. ASSUME NEW n \in Nodes, NotifyDone(n) PROVE (PhaseOK /\ TablesAgree)'
    BY <1>11 DEF NotifyDone
  <1>12. ASSUME NEW s \in Subscribers, AddSubscriberTopic(s) PROVE (PhaseOK /\ TablesAgree)'
    <2>1. PhaseOK'
      BY <1>12 DEF AddSubscriberTopic, CanCreate
    <2>2. TablesAgree'
      BY <1>12 DEF AddSubscriberTopic, CanCreate
    <2> QED
      BY <2>1, <2>2
  <1>13. ASSUME NEW n \in Nodes, AddSubscriberNode(n) PROVE (PhaseOK /\ TablesAgree)'
    <2> DEFINE t == TopicOf[job[n]]
    <2>1. job[n] \in Subscribers /\ t \in Topics /\ copy[n] \in SUBSET Nodes
      BY <1>13 DEF AddSubscriberNode
    <2>2. /\ subscribed' = [subscribed EXCEPT ![n] = @ \cup {t}]
          /\ addresses' = [m \in Nodes |->
                              IF m \in copy[n] THEN [addresses[m] EXCEPT ![t] = AddressAt(m, t)]
                                               ELSE addresses[m]]
          /\ raced \subseteq raced'
          /\ pc[n] = "addSubscriber" /\ pc' = [pc EXCEPT ![n] = "reply"]
          /\ UNCHANGED <<process, job, publishing, subscribing>>
      BY <1>13 DEF AddSubscriberNode
    <2>3. \A m \in Nodes, u \in Topics :
              (addresses'[m][u] \in Publishers) <=> (addresses[m][u] \in Publishers)
      BY <2>1, <2>2
    <2>4. PhaseOK'
      BY <2>2
    <2>5. ASSUME process = "running", NEW m \in Nodes, NEW u \in Topics
          PROVE  /\ (~Between(m, u, Publishers))' =>
                        (m \in publishing[u] <=> addresses'[m][u] \in Publishers)
                 /\ (~Between(m, u, Subscribers))' =>
                        (m \in subscribing[u] <=> u \in subscribed'[m])
      <3> HIDE DEF AddressAt
      <3>1. CASE m = n
        BY <2>1, <2>2, <2>3, <2>5, <3>1
      <3>2. CASE m # n
        BY <2>1, <2>2, <2>3, <2>5, <3>2
      <3> QED
        BY <3>1, <3>2
    <2> QED
      BY <2>2, <2>4, <2>5
  <1>14. ASSUME NEW n \in Nodes, AddSubscriberReply(n) PROVE (PhaseOK /\ TablesAgree)'
    BY <1>14 DEF AddSubscriberReply
  <1>15. ASSUME NEW p \in Publishers, RemovePublisherTopic(p) PROVE (PhaseOK /\ TablesAgree)'
    BY <1>15 DEF RemovePublisherTopic, CanDestroy
  <1>16. ASSUME NEW n \in Nodes, RemovePublisherNode(n) PROVE (PhaseOK /\ TablesAgree)'
    BY <1>16 DEF RemovePublisherNode
  <1>17. ASSUME NEW s \in Subscribers, RemoveSubscriberTopic(s) PROVE (PhaseOK /\ TablesAgree)'
    BY <1>17 DEF RemoveSubscriberTopic, CanDestroy
  <1>18. ASSUME NEW n \in Nodes, RemoveSubscriberNode(n) PROVE (PhaseOK /\ TablesAgree)'
    BY <1>18 DEF RemoveSubscriberNode
  <1>19. ASSUME NEW n \in Nodes, Disconnect(n) PROVE (PhaseOK /\ TablesAgree)'
    BY <1>19 DEF Disconnect
  <1>20. ASSUME NEW n \in Nodes, RemoveNodeTopics(n) PROVE (PhaseOK /\ TablesAgree)'
    BY <1>20 DEF RemoveNodeTopics
  <1>21. ASSUME NEW n \in Nodes, RemoveNodeErase(n) PROVE (PhaseOK /\ TablesAgree)'
    <2> DEFINE published == {t \in Topics : addresses[n][t] # Absent}
    <2>1. CASE /\ publishing' = Unlisted(publishing, n, published)
               /\ subscribing' = Unlisted(subscribing, n, subscribed[n])
      <3>1. \A t \in Topics : \A m \in Nodes :
                m \in publishing'[t] <=> m \in publishing[t] /\ ~(m = n /\ t \in published)
        BY <2>1
      <3>2. \A t \in Topics : \A m \in Nodes :
                m \in subscribing'[t] <=>
                    m \in subscribing[t] /\ ~(m = n /\ t \in subscribed[n])
        BY <2>1
      <3> HIDE DEF published
      <3>3. \A t \in Topics : \A m \in Nodes \ {n} :
                /\ m \in publishing'[t] <=> m \in publishing[t]
                /\ m \in subscribing'[t] <=> m \in subscribing[t]
        BY <3>1, <3>2
      <3>4. pc[n] = "reading"
        BY <1>21 DEF RemoveNodeErase
      <3>5. process = "running" /\ n \notin raced =>
                \A t \in Topics : n \notin publishing'[t] /\ n \notin subscribing'[t]
        <4> SUFFICES ASSUME process = "running", n \notin raced, NEW t \in Topics
                     PROVE  n \notin publishing'[t] /\ n \notin subscribing'[t]
          OBVIOUS
        <4>1. ~Between(n, t, Publishers) /\ ~Between(n, t, Subscribers)
          BY <3>4
        <4>2. n \in publishing[t] => t \in published
          BY <4>1 DEF published
        <4>3. n \in subscribing[t] => t \in subscribed[n]
          BY <4>1
        <4>4. QED
          BY <3>1, <3>2, <4>2, <4>3
      <3>6. /\ pc' = [pc EXCEPT ![n] = "erasing"]
            /\ UNCHANGED <<process, job, addresses, subscribed, raced>>
        BY <1>21 DEF RemoveNodeErase
      <3>7. PhaseOK'
        BY <3>3, <3>5, <3>6
      <3>8. TablesAgree'
        BY <3>3, <3>6
      <3>9. QED
        BY <3>7, <3>8
    <2>2. CASE n \in raced /\ UNCHANGED <<publishing, subscribing>>
      <3>1. /\ pc[n] = "reading" /\ pc' = [pc EXCEPT ![n] = "erasing"]
            /\ UNCHANGED <<process, job, addresses, subscribed, raced>>
        BY <1>21 DEF RemoveNodeErase
      <3>2. QED
        BY <2>2, <3>1
    <2>3. QED
      BY <1>21, <2>1, <2>2 DEF RemoveNodeErase
  <1>22. ASSUME NEW n \in Nodes, RemoveNodeEntry(n) PROVE (PhaseOK /\ TablesAgree)'
    BY <1>22 DEF RemoveNodeEntry
  <1>23. ASSUME NEW n \in Nodes, EndReceiveCycle(n) PROVE (PhaseOK /\ TablesAgree)'
    BY <1>23 DEF EndReceiveCycle
  <1>24. ASSUME NEW n \in Nodes, NullConnection(n) \/ TornRead(n) \/ UseDestroyedSocket(n)
         PROVE (PhaseOK /\ TablesAgree)'
    BY <1>24 DEF NullConnection, TornRead, UseDestroyedSocket, Crash
  <1>25. ASSUME NEW n \in Nodes, ConnectionReset(n) PROVE (PhaseOK /\ TablesAgree)'
    BY <1>25 DEF ConnectionReset
  <1>26. CASE UNCHANGED vars
    BY <1>26
  <1>27. QED
    BY <1>1, <1>2, <1>3, <1>4, <1>5, <1>6, <1>7, <1>8, <1>9, <1>10, <1>11,
       <1>12, <1>13, <1>14, <1>15, <1>16, <1>17, <1>18, <1>19, <1>20,
       <1>21, <1>22, <1>23, <1>24, <1>25, <1>26
       DEF Next, AcceptingThread, Handler, Request, Environment, Ended

\* The addresses kept, the lives of the objects, and what subscribers are told.
LEMMA ToldNext ==
    TypeJob /\ LifeOK /\ AddressesAreCurrent /\ ToldOK /\ NoStaleIntroduction /\ [Next]_vars
    => (LifeOK /\ AddressesAreCurrent /\ ToldOK /\ NoStaleIntroduction)'
  <1> DEFINE I == LifeOK /\ AddressesAreCurrent /\ ToldOK /\ NoStaleIntroduction
  <1> SUFFICES ASSUME TypeJob, I, [Next]_vars PROVE I'
    OBVIOUS
  <1> USE ObjectsAssumption, DistinctAssumption
      DEF TypeJob, TypeOK, JobOK, Objects, Steps, Goto, Idle, Touched, Listed,
          Unlisted, Forgotten, AddressAt, Resize, Reading
  <1> USE DEF server, threads, locks, tables, history, vars
  <1> USE DEF LifeOK, AddressesAreCurrent, ToldOK, NoStaleIntroduction, Gone
  <1>1. ASSUME NEW n \in Nodes, Accept(n) PROVE I'
    BY <1>1 DEF Accept
  <1>2. ASSUME NEW n \in Nodes, CompleteHandshake(n) PROVE I'
    BY <1>2 DEF CompleteHandshake
  <1>3. ASSUME NEW n \in Nodes, FailHandshake(n) \/ StopReading(n)
        PROVE  I'
    BY <1>3 DEF FailHandshake, StopReading
  <1>4. CASE Deactivate \/ AcceptFails
    BY <1>4 DEF Deactivate, AcceptFails
  <1>5. CASE ClearTopics
    BY <1>5 DEF ClearTopics
  <1>6. CASE ClearNodes
    BY <1>6 DEF ClearNodes
  <1>7. CASE Destroy \/ Exit
    BY <1>7 DEF Destroy, Exit
  <1>8. ASSUME NEW p \in Publishers, AddPublisherTopic(p) PROVE I'
    BY <1>8 DEF AddPublisherTopic, CanCreate
  <1>9. ASSUME NEW n \in Nodes, AddPublisherNode(n) PROVE I'
    BY <1>9 DEF AddPublisherNode
  <1>10. ASSUME NEW n \in Nodes, NEW m \in Nodes, Notify(n, m) PROVE I'
    BY <1>10 DEF Notify
  <1>11. ASSUME NEW n \in Nodes, NotifyDone(n) PROVE I'
    BY <1>11 DEF NotifyDone
  <1>12. ASSUME NEW s \in Subscribers, AddSubscriberTopic(s) PROVE I'
    BY <1>12 DEF AddSubscriberTopic, CanCreate
  <1>13. ASSUME NEW n \in Nodes, AddSubscriberNode(n) PROVE I'
    <2> DEFINE T == TopicOf[job[n]]
    <2>1. pc[n] = "addSubscriber" /\ pc' = [pc EXCEPT ![n] = "reply"]
      BY <1>13 DEF AddSubscriberNode
    <2>2. reply' = [reply EXCEPT ![n] = {AddressAt(m, T) : m \in copy[n]}]
      BY <1>13 DEF AddSubscriberNode
    <2>3. addresses' = [m \in Nodes |-> IF m \in copy[n]
                            THEN [addresses[m] EXCEPT ![T] = AddressAt(m, T)]
                            ELSE addresses[m]]
      BY <1>13 DEF AddSubscriberNode
    <2>4. UNCHANGED <<job, life, told, goneBefore>>
      BY <1>13 DEF AddSubscriberNode
    <2>5. job[n] \in Subscribers /\ T \in Topics
      BY <2>1
    <2>6. \A m \in Nodes, t \in Topics :
              addresses'[m][t] \in Publishers => addresses'[m][t] = addresses[m][t]
      BY <2>3, <2>5
    <2>7. AddressesAreCurrent'
      BY <2>4, <2>6
    <2>8. \A p \in reply'[n] \cap Publishers :
              \E m \in Nodes : addresses[m][T] = p
      BY <2>2
    <2>9. ASSUME NEW p \in reply'[n] \cap Publishers
          PROVE  TopicOf[p] = T /\ life[p] # "gone"
      <3>1. PICK m \in Nodes : addresses[m][T] = p
        BY <2>8
      <3>2. TopicOf[p] = T /\ life[p] \in {"adding", "up", "removing"}
        BY <2>5, <3>1
      <3>3. QED
        BY <3>2
    <2>10. \A m \in Nodes \ {n} : reply'[m] = reply[m] /\ pc'[m] = pc[m]
      BY <2>1, <2>2
    <2>11. ToldOK'
      BY <2>4, <2>5, <2>9, <2>10
    <2>12. LifeOK' /\ NoStaleIntroduction'
      BY <2>1, <2>4
    <2>13. QED
      BY <2>7, <2>11, <2>12
  <1>14. ASSUME NEW n \in Nodes, AddSubscriberReply(n) PROVE I'
    BY <1>14 DEF AddSubscriberReply
  <1>15. ASSUME NEW p \in Publishers, RemovePublisherTopic(p) PROVE I'
    BY <1>15 DEF RemovePublisherTopic, CanDestroy
  <1>16. ASSUME NEW n \in Nodes, RemovePublisherNode(n) PROVE I'
    BY <1>16 DEF RemovePublisherNode
  <1>17. ASSUME NEW s \in Subscribers, RemoveSubscriberTopic(s) PROVE I'
    BY <1>17 DEF RemoveSubscriberTopic, CanDestroy
  <1>18. ASSUME NEW n \in Nodes, RemoveSubscriberNode(n) PROVE I'
    BY <1>18 DEF RemoveSubscriberNode
  <1>19. ASSUME NEW n \in Nodes, Disconnect(n) PROVE I'
    BY <1>19 DEF Disconnect
  <1>20. ASSUME NEW n \in Nodes, RemoveNodeTopics(n) PROVE I'
    BY <1>20 DEF RemoveNodeTopics
  <1>21. ASSUME NEW n \in Nodes, RemoveNodeErase(n) PROVE I'
    <2>1. pc' = [pc EXCEPT ![n] = "erasing"]
      BY <1>21 DEF RemoveNodeErase
    <2>2. UNCHANGED <<job, reply, addresses, life, told, goneBefore>>
      BY <1>21 DEF RemoveNodeErase
    <2>3. QED
      BY <2>1, <2>2
  <1>22. ASSUME NEW n \in Nodes, RemoveNodeEntry(n) PROVE I'
    BY <1>22 DEF RemoveNodeEntry
  <1>23. ASSUME NEW n \in Nodes, EndReceiveCycle(n) PROVE I'
    BY <1>23 DEF EndReceiveCycle
  <1>24. ASSUME NEW n \in Nodes, NullConnection(n) \/ TornRead(n) \/ UseDestroyedSocket(n) PROVE I'
    BY <1>24 DEF NullConnection, TornRead, UseDestroyedSocket, Crash
  <1>25. ASSUME NEW n \in Nodes, ConnectionReset(n) PROVE I'
    BY <1>25 DEF ConnectionReset
  <1>26. CASE UNCHANGED vars
    BY <1>26
  <1>27. QED
    BY <1>1, <1>2, <1>3, <1>4, <1>5, <1>6, <1>7, <1>8, <1>9, <1>10, <1>11,
       <1>12, <1>13, <1>14, <1>15, <1>16, <1>17, <1>18, <1>19, <1>20,
       <1>21, <1>22, <1>23, <1>24, <1>25, <1>26
       DEF Next, AcceptingThread, Handler, Request, Environment, Ended

-----------------------------------------------------------------------------
\* While the accept loop runs and nobody has left, a node that the threads work
\* for or that is in a list, or in a copy of one, has its connection registered.
Registered ==
    process = "running" /\ (\A n \in Nodes : ~Leaving(n)) =>
        /\ \A n \in Nodes : pc[n] # "away" => connection[n] = "set"
        /\ \A t \in Topics : \A n \in publishing[t] \cup subscribing[t] :
               connection[n] = "set"
        /\ \A n \in Nodes : \A m \in copy[n] : connection[m] = "set"

\* A node that has begun to leave stays so: the condition of Registered held
\* before each step after which it holds.
LEMMA LeavingStays ==
  ASSUME TypeOK, Next, NEW n \in Nodes, Leaving(n)
  PROVE  Leaving(n)'
  <1> USE ObjectsAssumption DEF TypeOK, Leaving, Goto, Objects, Idle, CanCreate, CanDestroy
  <1>1. CASE pc' = pc
    BY <1>1
  <1>2. ASSUME NEW m \in Nodes, pc[m] \notin {"closing", "reading", "erasing", "leaving", "ended"},
               NEW step, pc' = [pc EXCEPT ![m] = step]
        PROVE  Leaving(n)'
    BY <1>2
  <1>3. ASSUME NEW m \in Nodes, NEW step \in {"reading", "erasing", "leaving", "ended"},
               pc' = [pc EXCEPT ![m] = step]
        PROVE  Leaving(n)'
    BY <1>3
  <1>4. CASE AcceptingThread \/ Deactivate \/ AcceptFails \/ Ended
    BY <1>1, <1>4 DEF AcceptingThread, ClearTopics, ClearNodes, Destroy, Exit, Deactivate,
       AcceptFails, Ended, vars, threads
  <1>5. CASE Request
    <2>1. ASSUME NEW p \in Publishers, AddPublisherTopic(p) \/ RemovePublisherTopic(p)
          PROVE  Leaving(n)'
      BY <1>2, <2>1 DEF AddPublisherTopic, RemovePublisherTopic
    <2>2. ASSUME NEW s \in Subscribers, AddSubscriberTopic(s) \/ RemoveSubscriberTopic(s)
          PROVE  Leaving(n)'
      BY <1>2, <2>2 DEF AddSubscriberTopic, RemoveSubscriberTopic
    <2> QED
      BY <1>5, <2>1, <2>2 DEF Request
  <1>6. ASSUME NEW m \in Nodes,
               \/ Accept(m) \/ CompleteHandshake(m) \/ Disconnect(m)
               \/ AddPublisherNode(m) \/ NotifyDone(m) \/ AddSubscriberNode(m)
               \/ AddSubscriberReply(m) \/ RemovePublisherNode(m)
               \/ RemoveSubscriberNode(m)
        PROVE  Leaving(n)'
    BY <1>2, <1>6 DEF Accept, CompleteHandshake, Disconnect, AddPublisherNode, NotifyDone,
       AddSubscriberNode, AddSubscriberReply, RemovePublisherNode, RemoveSubscriberNode
  <1>7. ASSUME NEW m \in Nodes,
               \/ RemoveNodeTopics(m) \/ RemoveNodeErase(m) \/ RemoveNodeEntry(m)
               \/ EndReceiveCycle(m)
        PROVE  Leaving(n)'
    BY <1>3, <1>7 DEF RemoveNodeTopics, RemoveNodeErase, RemoveNodeEntry, EndReceiveCycle
  <1>8. ASSUME NEW m \in Nodes, NEW l \in Nodes,
               \/ Notify(m, l) \/ NullConnection(m) \/ FailHandshake(m) \/ TornRead(m)
               \/ UseDestroyedSocket(m) \/ ConnectionReset(m) \/ StopReading(m)
        PROVE  Leaving(n)'
    BY <1>1, <1>8 DEF Notify, NullConnection, FailHandshake, TornRead, UseDestroyedSocket,
       ConnectionReset, StopReading, Crash, threads
  <1> QED
    BY <1>4, <1>5, <1>6, <1>7, <1>8 DEF Next, Handler, Environment

\* Nothing puts the process back into its accept loop.
LEMMA ProcessNeverRestarts == Next => (process' = "running" => process = "running")
  <1> SUFFICES ASSUME Next, process' = "running" PROVE process = "running"
    OBVIOUS
  <1> USE DEF server
  <1>1. ASSUME NEW n \in Nodes, Handler(n) PROVE process = "running"
    BY <1>1 DEF Handler, AddPublisherNode, Notify, NotifyDone, AddSubscriberNode,
       AddSubscriberReply, RemovePublisherNode, RemoveSubscriberNode, RemoveNodeTopics,
       RemoveNodeErase, RemoveNodeEntry, EndReceiveCycle, NullConnection, Crash
  <1>2. Request => process = "running"
    BY DEF Request, AddPublisherTopic, RemovePublisherTopic, AddSubscriberTopic,
       RemoveSubscriberTopic
  <1>3. ASSUME NEW n \in Nodes,
               \/ CompleteHandshake(n) \/ Accept(n) \/ Disconnect(n) \/ StopReading(n)
               \/ FailHandshake(n) \/ TornRead(n) \/ UseDestroyedSocket(n)
               \/ ConnectionReset(n)
        PROVE  process = "running"
    BY <1>3 DEF CompleteHandshake, Accept, Disconnect, StopReading, FailHandshake, TornRead,
       UseDestroyedSocket, ConnectionReset, Crash
  <1>4. AcceptingThread \/ Deactivate \/ AcceptFails \/ Ended => process = "running"
    BY DEF AcceptingThread, ClearTopics, ClearNodes, Destroy, Exit, Deactivate, AcceptFails,
       Ended, vars
  <1> QED
    BY <1>1, <1>2, <1>3, <1>4 DEF Next, Environment

\* The handlers of present nodes find registered connections.
LEMMA RegisteredNext == TypeJob /\ Registered /\ [Next]_vars => Registered'
  <1> SUFFICES ASSUME TypeJob, Registered, Next PROVE Registered'
    BY DEF Registered, vars, server, threads, tables, Leaving
  <1>1. process' = "running" => process = "running"
    BY ProcessNeverRestarts
  <1> SUFFICES ASSUME process' = "running", \A n \in Nodes : ~Leaving(n)'
               PROVE  /\ \A n \in Nodes : pc'[n] # "away" => connection'[n] = "set"
                      /\ \A t \in Topics : \A n \in publishing'[t] \cup subscribing'[t] :
                             connection'[n] = "set"
                      /\ \A n \in Nodes : \A m \in copy'[n] : connection'[m] = "set"
    BY DEF Registered
  <1> DEFINE G == /\ \A n \in Nodes : pc[n] # "away" => connection[n] = "set"
                  /\ \A t \in Topics : \A n \in publishing[t] \cup subscribing[t] :
                         connection[n] = "set"
                  /\ \A n \in Nodes : \A m \in copy[n] : connection[m] = "set"
  <1>3. (\A n \in Nodes : ~Leaving(n)) /\ process = "running"
    BY <1>1, LeavingStays DEF TypeJob
  <1>4. G
    BY <1>3 DEF Registered
  <1>5. /\ pc \in [Nodes -> Steps] /\ connection \in [Nodes -> {"none", "null", "set"}]
        /\ publishing \in [Topics -> SUBSET Nodes]
        /\ subscribing \in [Topics -> SUBSET Nodes]
        /\ copy \in [Nodes -> SUBSET Nodes]
        /\ NodeOf \in [Objects -> Nodes] /\ TopicOf \in [Objects -> Topics]
    BY ObjectsAssumption DEF TypeJob, TypeOK
  <1> USE <1>4, <1>5 DEF Goto, Touched, server, threads, locks, tables, history
  <1>6. CASE AcceptingThread \/ Deactivate \/ AcceptFails \/ Ended
    <2>1. ~ClearTopics /\ ~ClearNodes /\ ~Destroy /\ ~Exit
      BY DEF ClearTopics, ClearNodes, Destroy, Exit
    <2> QED
      BY <1>6, <2>1 DEF AcceptingThread, Deactivate, AcceptFails, Ended, vars
  <1>7. ASSUME NEW n \in Nodes, Accept(n) PROVE G'
    BY <1>7 DEF Accept
  <1>8. ASSUME NEW n \in Nodes,
               \/ CompleteHandshake(n) \/ FailHandshake(n) \/ ConnectionReset(n)
               \/ StopReading(n)
        PROVE  G'
    BY <1>8 DEF CompleteHandshake, FailHandshake, ConnectionReset, StopReading
  <1>9. ASSUME NEW p \in Publishers, AddPublisherTopic(p) PROVE G'
    BY <1>9 DEF AddPublisherTopic, CanCreate, Idle, Listed, Objects
  <1>10. ASSUME NEW p \in Publishers, RemovePublisherTopic(p) PROVE G'
    BY <1>10 DEF RemovePublisherTopic, CanDestroy, Idle, Unlisted, Objects
  <1>11. ASSUME NEW s \in Subscribers, AddSubscriberTopic(s) PROVE G'
    BY <1>11 DEF AddSubscriberTopic, CanCreate, Idle, Listed, Objects
  <1>12. ASSUME NEW s \in Subscribers, RemoveSubscriberTopic(s) PROVE G'
    BY <1>12 DEF RemoveSubscriberTopic, CanDestroy, Idle, Unlisted, Objects
  <1>13. ASSUME NEW n \in Nodes, NEW m \in Nodes,
                AddSubscriberReply(n) \/ Notify(n, m) \/ NotifyDone(n)
         PROVE  G'
    <2>1. /\ UNCHANGED <<process, tables>> /\ pc[n] # "away"
          /\ \A l \in Nodes : copy'[l] \subseteq copy[l]
          /\ \A l \in Nodes : l # n => pc'[l] = pc[l]
      <3>1. CASE AddSubscriberReply(n) \/ NotifyDone(n)
        BY <3>1 DEF AddSubscriberReply, NotifyDone
      <3>2. CASE Notify(n, m)
        BY <3>2 DEF Notify
      <3> QED
        BY <1>13, <3>1, <3>2
    <2> QED
      BY <2>1
  <1>14. ASSUME NEW S, connection' = Touched(S)
         PROVE  \A m \in Nodes : connection[m] = "set" => connection'[m] = "set"
    BY <1>14
  <1>15. ASSUME NEW n \in Nodes,
                \/ AddPublisherNode(n) \/ AddSubscriberNode(n)
                \/ RemovePublisherNode(n) \/ RemoveSubscriberNode(n)
         PROVE  G'
    <2>1. /\ UNCHANGED <<process, publishing, subscribing>> /\ pc[n] # "away"
          /\ \A l \in Nodes : copy'[l] \subseteq copy[l]
          /\ \A l \in Nodes : l # n => pc'[l] = pc[l]
      BY <1>15
         DEF AddPublisherNode, AddSubscriberNode, RemovePublisherNode, RemoveSubscriberNode
    <2>2. \E S : connection' = Touched(S)
      <3> HIDE DEF Touched
      <3> QED BY <1>15
         DEF AddPublisherNode, AddSubscriberNode, RemovePublisherNode, RemoveSubscriberNode
    <2> QED
      BY <2>1, <2>2, <1>14
  <1>16. ASSUME NEW n \in Nodes,
                \/ Disconnect(n) \/ RemoveNodeTopics(n) \/ RemoveNodeErase(n)
                \/ RemoveNodeEntry(n) \/ EndReceiveCycle(n) \/ TornRead(n)
         PROVE  FALSE
    <2>1. Leaving(n) \/ Leaving(n)'
      BY <1>16 DEF Disconnect, RemoveNodeTopics, RemoveNodeErase, RemoveNodeEntry,
         EndReceiveCycle, TornRead, Leaving
    <2> QED
      BY <1>3, <2>1
  <1>17. ASSUME NEW n \in Nodes, NullConnection(n) \/ UseDestroyedSocket(n) PROVE FALSE
    BY <1>17 DEF NullConnection, UseDestroyedSocket, Crash
  <1> QED
    BY <1>6, <1>7, <1>8, <1>9, <1>10, <1>11, <1>12, <1>13, <1>14, <1>15, <1>16, <1>17
       DEF Next, Handler, Request, Environment

-----------------------------------------------------------------------------
\* The inductive invariant: the properties and what they rest on.
IInv == /\ TypeJob /\ PhaseOK /\ LifeOK /\ ToldOK
        /\ TablesAgree /\ AddressesAreCurrent /\ NoStaleIntroduction /\ Registered

LEMMA IInvInit == Init => IInv
  BY TypeJobInit, ObjectsAssumption, DistinctAssumption
     DEF Init, IInv, TypeJob, TypeOK, PhaseOK, LifeOK, ToldOK, TablesAgree, Objects,
         AddressesAreCurrent, NoStaleIntroduction, Between, Registered

LEMMA IInvNext == IInv /\ [Next]_vars => IInv'
  BY TypeJobNext, TablesNext, ToldNext, RegisteredNext DEF IInv

LEMMA Invariance == Spec => []IInv
  BY IInvInit, IInvNext, PTL DEF Spec

\* The topic table and the node table agree about every node that is not
\* between the two critical sections of a handler.
THEOREM TablesAgreeAlways == Spec => []TablesAgree
  BY Invariance, PTL DEF IInv

\* The node table keeps no address of a publisher that is gone, of another
\* node or of another topic.
THEOREM AddressesAlwaysCurrent == Spec => []AddressesAreCurrent
  BY Invariance, PTL DEF IInv

\* No subscriber is sent to a publisher that was gone before it registered.
THEOREM NeverStale == Spec => []NoStaleIntroduction
  BY Invariance, PTL DEF IInv

\* A crash is a step of a receive thread whose node's entry, or that of a node
\* it has to tell, is not there, or of one that runs removeNode.
LEMMA CrashNeedsDeparture ==
    IInv /\ [Next]_vars =>
        [process = "running" /\ process' = "crashed" => \E n \in Nodes : Leaving(n)]_vars
  <1> SUFFICES ASSUME IInv, Next, process = "running", process' = "crashed",
                      \A n \in Nodes : ~Leaving(n)
               PROVE  FALSE
    OBVIOUS
  <1>1. /\ \A n \in Nodes : pc[n] # "away" => connection[n] = "set"
        /\ \A n \in Nodes : \A m \in copy[n] : connection[m] = "set"
        /\ copy \in [Nodes -> SUBSET Nodes]
    BY DEF IInv, Registered, TypeJob, TypeOK
  <1> USE DEF server
  <1>2. ASSUME NEW n \in Nodes, NullConnection(n) \/ TornRead(n) \/ UseDestroyedSocket(n)
        PROVE  FALSE
    BY <1>1, <1>2 DEF NullConnection, TornRead, UseDestroyedSocket, Leaving
  <1>3. ASSUME NEW n \in Nodes, Handler(n) PROVE FALSE
    BY <1>2, <1>3 DEF Handler, AddPublisherNode, Notify, NotifyDone, AddSubscriberNode,
       AddSubscriberReply, RemovePublisherNode, RemoveSubscriberNode, RemoveNodeTopics,
       RemoveNodeErase, RemoveNodeEntry, EndReceiveCycle
  <1>4. ~Request
    BY DEF Request, AddPublisherTopic, RemovePublisherTopic, AddSubscriberTopic,
       RemoveSubscriberTopic
  <1>5. ASSUME NEW n \in Nodes,
               \/ CompleteHandshake(n) \/ Accept(n) \/ Disconnect(n) \/ StopReading(n)
               \/ FailHandshake(n) \/ ConnectionReset(n)
        PROVE  FALSE
    BY <1>5 DEF CompleteHandshake, Accept, Disconnect, StopReading, FailHandshake,
       ConnectionReset
  <1>6. ~AcceptingThread /\ ~Deactivate /\ ~AcceptFails /\ ~Ended
    BY DEF AcceptingThread, ClearTopics, ClearNodes, Destroy, Exit, Deactivate, AcceptFails,
       Ended, vars
  <1> QED
    BY <1>2, <1>3, <1>4, <1>5, <1>6 DEF Next, Environment

\* While the accept loop runs and no node has begun to leave, no thread of the
\* mediator dereferences a connection that is not registered.
THEOREM NoCrashBeforeDeparture == Spec => CrashOnlyOnDeparture
  BY CrashNeedsDeparture, Invariance, PTL DEF Spec, CrashOnlyOnDeparture
=============================================================================
