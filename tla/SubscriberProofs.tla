-------------------------- MODULE SubscriberProofs --------------------------
(* Theorems about a Subscriber, for any publishers, queue size and streams. *)
EXTENDS Subscriber, SequenceTheorems, TLAPS

LEMMA SmallMod ==
  ASSUME NEW x \in Nat, NEW y \in Nat, x < y
  PROVE  x % y = x
  BY SMTT(30)

LEMMA LimitNat == Limit \in Nat
  BY SizesAssumption DEF Limit

\* The loop before the push: what is left is the end of the queue, at most
\* Limit long; nothing is dropped from a queue that is no longer than that.
LEMMA TrimFacts ==
  ASSUME NEW S, NEW q \in Seq(S)
  PROVE  /\ Trim(q) \in Seq(S)
         /\ Len(Trim(q)) = IF Len(q) <= Limit THEN Len(q) ELSE Limit
         /\ \A i \in 1..Len(Trim(q)) : Trim(q)[i] = q[Len(q) - Len(Trim(q)) + i]
  <1>1. CASE Len(q) <= Limit
    BY <1>1 DEF Trim
  <1>2. CASE ~(Len(q) <= Limit)
    <2> DEFINE first == Len(q) - Limit + 1
    <2>1. Limit \in Nat /\ Len(q) \in Nat /\ first \in 1..(Len(q) + 1)
      BY <1>2, LimitNat
    <2>2. \A i \in first..Len(q) : q[i] \in S
      BY <2>1, ElementOfSeq
    <2>3. Trim(q) = SubSeq(q, first, Len(q))
      BY <1>2 DEF Trim
    <2>4. /\ SubSeq(q, first, Len(q)) \in Seq(S)
          /\ Len(SubSeq(q, first, Len(q)))
                 = IF first <= Len(q) THEN Len(q) - first + 1 ELSE 0
          /\ \A i \in 1..(Len(q) - first + 1) :
                 SubSeq(q, first, Len(q))[i] = q[first + i - 1]
      <3> HIDE DEF first
      <3> QED BY <2>1, <2>2, SubSeqProperties
    <2>5. Len(Trim(q)) = Limit
      BY <2>1, <2>3, <2>4
    <2> QED
      BY <1>2, <2>1, <2>3, <2>4, <2>5
  <1> QED
    BY <1>1, <1>2

-----------------------------------------------------------------------------
\* The connection that is read is one; the dummy message comes last, when
\* connected_ is FALSE and nothing more is received.
DtorOK ==
    /\ rx = "blocked" => current \in Publishers
    /\ dtor # "no" => ~connected
    /\ dtor \notin {"no", "joinReceiver"} => rx \in {"none", "ended"}
    /\ dtor \notin {"joinSpinner", "done"} => queue \in Seq(Messages)
    /\ spinner = "callback" /\ inHand = Dummy => dtor \in {"joinSpinner", "done"}

IInv == TypeOK /\ DtorOK /\ NoLostWakeup /\ QueueBounded /\ DummyNotCalled

LEMMA IInvInit == Init => IInv
  BY LimitNat, SizesAssumption
     DEF Init, IInv, TypeOK, DtorOK, NoLostWakeup, QueueBounded, DummyNotCalled

LEMMA MessageNotDummy == \A m \in Messages : m # Dummy /\ m # Default
  BY DummyAssumption DEF Messages

LEMMA IInvNext == IInv /\ [Next]_vars => IInv'
  <1> SUFFICES ASSUME IInv, [Next]_vars PROVE IInv'
    OBVIOUS
  <1> USE DEF IInv, TypeOK, DtorOK, NoLostWakeup, QueueBounded, DummyNotCalled,
          receiver, spinning, streams, history
  <1> DEFINE M == Messages \cup {Dummy}
  <1>0. Limit \in Nat /\ Len(queue) \in Nat /\ \A m \in Messages : m # Dummy /\ m # Default
    BY LimitNat, MessageNotDummy
  <1>1. ASSUME NEW p \in Publishers, Send(p) PROVE IInv'
    <2>1. sent' \in [Publishers -> 0..MaxSent]
      BY <1>1, SizesAssumption DEF Send
    <2> QED
      BY <1>1, <2>1 DEF Send
  <1>2. ASSUME NEW p \in Publishers, ClosePublisher(p) PROVE IInv'
    BY <1>2 DEF ClosePublisher
  <1>3. ASSUME NEW p \in Publishers, ConnectToPublisher(p) PROVE IInv'
    BY <1>3 DEF ConnectToPublisher
  <1>4. CASE Disconnect
    BY <1>4 DEF Disconnect
  <1>5. CASE Spin
    BY <1>5 DEF Spin
  <1>6. CASE SpinOnce
    <2>1. CASE queue = <<>>
      BY <1>6, <2>1, SizesAssumption, DummyAssumption DEF SpinOnce
    <2>2. CASE queue # <<>>
      <3>1. queue \in Seq(Messages)
        BY <1>6 DEF SpinOnce
      <3>2. /\ Head(queue) \in Messages /\ Tail(queue) \in Seq(Messages)
            /\ Len(Tail(queue)) = Len(queue) - 1
        BY <2>2, <3>1, HeadTailProperties
      <3>3. Tail(queue) \in Seq(M) /\ Append(taken, Head(queue)) \in Seq(M)
        BY <2>2, <3>2, HeadTailProperties, AppendProperties
      <3>4. /\ queue' = Tail(queue) /\ taken' = Append(taken, Head(queue))
            /\ called' = called \cup {Head(queue)} /\ dtor = "no" /\ once' = once + 1
            /\ UNCHANGED <<connected, linked, streams, receiver, spinning, dtor, arrived>>
        BY <1>6, <2>2 DEF SpinOnce
      <3>5. once' \in 0..MaxOnce
        BY <1>6, SizesAssumption DEF SpinOnce
      <3>6. TypeOK' /\ DtorOK'
        BY <3>1, <3>2, <3>3, <3>4, <3>5
      <3>7. NoLostWakeup' /\ QueueBounded' /\ DummyNotCalled'
        BY <1>0, <2>2, <3>2, <3>4
      <3> QED
        BY <3>6, <3>7
    <2> QED
      BY <2>1, <2>2
  <1>7. CASE CopyConnections
    BY <1>7 DEF CopyConnections
  <1>8. ASSUME NEW p \in Publishers, NextConnection(p) PROVE IInv'
    BY <1>8 DEF NextConnection
  <1>9. CASE ReadMessage
    <2> DEFINE m == <<current, got[current] + 1>>
               q == Append(Trim(queue), m)
    <2>1. current \in Publishers /\ got[current] + 1 \in 1..MaxSent /\ m \in Messages
      <3>1. current \in Publishers /\ got[current] < sent[current]
        BY <1>9 DEF ReadMessage
      <3>2. got[current] \in 0..MaxSent /\ sent[current] \in 0..MaxSent
        BY <3>1
      <3>3. got[current] + 1 \in 1..MaxSent
        BY <3>1, <3>2, SizesAssumption
      <3> QED
        BY <3>1, <3>3 DEF Messages
    <2>2. queue \in Seq(Messages) /\ dtor \in {"no", "joinReceiver"}
      BY <1>9 DEF ReadMessage
    <2>3. Trim(queue) \in Seq(Messages) /\ Len(Trim(queue)) <= Limit
          /\ (queue = <<>> => Len(Trim(queue)) = 0)
      BY <1>0, <2>2, TrimFacts
    <2>4. q \in Seq(Messages) /\ q \in Seq(M) /\ Len(q) = Len(Trim(queue)) + 1
          /\ Append(arrived, m) \in Seq(Messages)
      <3>1. q \in Seq(Messages) /\ Len(q) = Len(Trim(queue)) + 1
            /\ Append(arrived, m) \in Seq(Messages)
        BY <2>1, <2>3, AppendProperties
      <3> QED
        BY <3>1, SeqMonotonic
    <2>5. /\ queue' = q /\ arrived' = Append(arrived, m) /\ rx' = "read"
          /\ got' = [got EXCEPT ![current] = @ + 1]
          /\ spinner' = IF Len(q) = 1 /\ spinner = "asleep" THEN "take" ELSE spinner
          /\ UNCHANGED <<connected, linked, sent, closed, todo, dead, current, inHand,
                         dtor, taken, called, once>>
      BY <1>9 DEF ReadMessage, Wake
    <2>6. TypeOK' /\ DtorOK'
      BY <2>1, <2>2, <2>4, <2>5, <1>9 DEF ReadMessage
    <2>7. NoLostWakeup' /\ DummyNotCalled'
      BY <2>3, <2>4, <2>5
    <2>8. QueueBounded'
      BY <1>0, <2>2, <2>3, <2>4, <2>5
    <2> QED
      BY <2>6, <2>7, <2>8
  <1>10. CASE ReadFailure
    BY <1>10 DEF ReadFailure
  <1>11. CASE RemoveDead
    BY <1>11 DEF RemoveDead
  <1>12. CASE SpinTest
    BY <1>12 DEF SpinTest
  <1>13. CASE SpinWait
    BY <1>13 DEF SpinWait
  <1>14. CASE SpinTake
    <2>1. /\ Head(queue) \in M /\ Tail(queue) \in Seq(M)
          /\ Len(Tail(queue)) = Len(queue) - 1 /\ Append(taken, Head(queue)) \in Seq(M)
      BY <1>14, HeadTailProperties, AppendProperties DEF SpinTake
    <2>2. dtor \notin {"joinSpinner", "done"} =>
             Head(queue) \in Messages /\ Tail(queue) \in Seq(Messages)
      BY <1>14, HeadTailProperties DEF SpinTake
    <2> QED
      BY <1>0, <1>14, <2>1, <2>2 DEF SpinTake
  <1>15. CASE SpinCallback
    BY <1>15 DEF SpinCallback
  <1>16. CASE Destroy
    BY <1>16 DEF Destroy
  <1>17. CASE JoinReceiver
    BY <1>0, <1>17 DEF JoinReceiver
  <1>18. CASE PushDummy
    <2>1. Append(queue, Dummy) \in Seq(M) /\ Len(Append(queue, Dummy)) = Len(queue) + 1
      BY AppendProperties
    <2> QED
      BY <1>0, <1>18, <2>1 DEF PushDummy
  <1>19. CASE JoinSpinner
    BY <1>19 DEF JoinSpinner
  <1>20. CASE UNCHANGED vars
    BY <1>20 DEF vars
  <1> QED
    BY <1>1, <1>2, <1>3, <1>4, <1>5, <1>6, <1>7, <1>8, <1>9, <1>10, <1>11, <1>12,
       <1>13, <1>14, <1>15, <1>16, <1>17, <1>18, <1>19, <1>20
       DEF Next, ReceivingThread, SpinningThread, Destructor, Destroyed

\* The state of a subscriber keeps its type.
THEOREM TypeCorrect == Spec => []TypeOK
  <1>1. IInv => TypeOK
    BY DEF IInv
  <1> QED
    BY <1>1, IInvInit, IInvNext, PTL DEF Spec

\* The spinning thread never sleeps while the queue holds a message.
THEOREM WakeupNeverLost == Spec => []NoLostWakeup
  <1>1. IInv => NoLostWakeup
    BY DEF IInv
  <1> QED
    BY <1>1, IInvInit, IInvNext, PTL DEF Spec

\* The queue stays bounded, whatever the publishers send.
THEOREM QueueAlwaysBounded == Spec => []QueueBounded
  <1>1. IInv => QueueBounded
    BY DEF IInv
  <1> QED
    BY <1>1, IInvInit, IInvNext, PTL DEF Spec

\* The destructor's dummy message never reaches the callback.
THEOREM DummyNeverCalled == Spec => []DummyNotCalled
  <1>1. IInv => DummyNotCalled
    BY DEF IInv
  <1> QED
    BY <1>1, IInvInit, IInvNext, PTL DEF Spec

-----------------------------------------------------------------------------
(* The order of the messages.  The queue is always the last part of what    *)
(* has arrived, with the dummy message perhaps behind it; what was taken    *)
(* arrived before that part.                                                *)

Queued == Seq(Messages \cup {Dummy})

\* How many messages that have arrived are in a queue.
Waiting(q) == IF q # <<>> /\ q[Len(q)] = Dummy THEN Len(q) - 1 ELSE Len(q)

Distinct(a) == \A i, j \in 1..Len(a) : a[i] = a[j] => i = j

LastPart(q, a) ==
    /\ Waiting(q) <= Len(a)
    /\ \A i \in 1..Waiting(q) : q[i] = a[Len(a) - Waiting(q) + i]

TakenBefore(q, a, t) ==
    \A i \in 1..Len(t) : t[i] # Dummy =>
        \E k \in 1..(Len(a) - Waiting(q)) : t[i] = a[k]

Increasing(a, t) ==
    \A i, j \in 1..Len(t) : \A k, l \in 1..Len(a) :
        i < j /\ t[i] = a[k] /\ t[j] = a[l] => k < l

\* Messages before the queue were taken, or dropped for newer ones.
Accounted(q, a, t) ==
    queue_size_ + 1 < Modulus =>
        \A i \in 1..(Len(a) - Waiting(q)) :
            \/ \E k \in 1..Len(t) : t[k] = a[i]
            \/ Len(a) - i >= queue_size_ + 2

Ordered(q, a, t) ==
    /\ Distinct(a) /\ LastPart(q, a) /\ TakenBefore(q, a, t)
    /\ Increasing(a, t) /\ Accounted(q, a, t)

LEMMA WaitingNat ==
  ASSUME NEW q \in Queued
  PROVE  /\ Waiting(q) \in Nat /\ Len(q) \in Nat
         /\ Waiting(q) <= Len(q)
         /\ q \in Seq(Messages) => Waiting(q) = Len(q)
  <1>1. Len(q) \in Nat /\ (q # <<>> => Len(q) >= 1)
    BY EmptySeq DEF Queued
  <1>2. q \in Seq(Messages) /\ q # <<>> => q[Len(q)] # Dummy
    BY <1>1, ElementOfSeq, MessageNotDummy
  <1> QED
    BY <1>1, <1>2 DEF Waiting

\* A consumer takes the oldest message, or the dummy message when it is alone.
LEMMA TakeOrdered ==
  ASSUME NEW q \in Queued, q # <<>>, NEW a \in Seq(Messages), NEW t \in Queued,
         Ordered(q, a, t)
  PROVE  Ordered(Tail(q), a, Append(t, Head(q)))
  <1> DEFINE h == Head(q)
             r == Tail(q)
             t2 == Append(t, h)
             n == Len(a) - Waiting(q)
  <1>1. /\ h = q[1] /\ h \in Messages \cup {Dummy} /\ r \in Queued /\ Len(r) = Len(q) - 1
        /\ \A i \in 1..Len(r) : r[i] = q[i + 1]
    BY HeadTailProperties DEF Queued
  <1>2. Len(q) \in Nat /\ Len(q) >= 1 /\ Len(a) \in Nat /\ Len(t) \in Nat
    BY EmptySeq DEF Queued
  <1>3. /\ Len(t2) = Len(t) + 1 /\ t2[Len(t) + 1] = h
        /\ \A i \in 1..Len(t) : t2[i] = t[i]
    BY <1>1, AppendProperties DEF Queued
  <1>4. Waiting(q) \in Nat /\ Waiting(q) <= Len(a) /\ n \in Nat
    BY <1>2, WaitingNat DEF Ordered, LastPart
  <1> HIDE DEF h, r, t2
  <1>5. \A i \in 1..Len(a) : a[i] \in Messages /\ a[i] # Dummy
    BY ElementOfSeq, MessageNotDummy
  <1>6. CASE h = Dummy
    <2>1. Waiting(q) = 0 /\ Len(q) = 1
      <3>1. ~(1 \in 1..Waiting(q))
        <4> SUFFICES ASSUME 1 \in 1..Waiting(q) PROVE FALSE
          OBVIOUS
        <4>1. q[1] = a[n + 1] /\ n + 1 \in 1..Len(a)
          BY <1>2, <1>4 DEF Ordered, LastPart
        <4> QED
          BY <4>1, <1>1, <1>5, <1>6
      <3> QED
        <4>1. Waiting(q) = Len(q) \/ Waiting(q) = Len(q) - 1
          BY DEF Waiting
        <4>2. Waiting(q) = 0
          BY <3>1, <1>4
        <4> QED
          BY <4>1, <4>2, <1>2
    <2>2. r = <<>> /\ Waiting(r) = 0
      BY <1>1, <2>1, EmptySeq DEF Waiting, Queued
    <2>3. LastPart(r, a)
      BY <2>1, <2>2, <1>2 DEF LastPart
    <2>6. Accounted(r, a, t2)
      <3>1. Waiting(r) = Waiting(q)
        BY <2>1, <2>2
      <3>2. \A k \in 1..Len(t) : k \in 1..Len(t2) /\ t2[k] = t[k]
        BY <1>2, <1>3
      <3> QED
        BY <3>1, <3>2 DEF Ordered, Accounted
    <2>4. TakenBefore(r, a, t2)
      BY <2>1, <2>2, <1>2, <1>3, <1>6 DEF Ordered, TakenBefore
    <2>5. Increasing(a, t2)
      <3> SUFFICES ASSUME NEW i \in 1..Len(t2), NEW j \in 1..Len(t2),
                          NEW k \in 1..Len(a), NEW l \in 1..Len(a),
                          i < j, t2[i] = a[k], t2[j] = a[l]
                   PROVE  k < l
        BY DEF Increasing
      <3>1. i # Len(t) + 1 /\ j # Len(t) + 1
        BY <1>3, <1>5, <1>6
      <3>2. i \in 1..Len(t) /\ j \in 1..Len(t)
        BY <3>1, <1>2, <1>3
      <3> QED
        BY <3>2, <1>3 DEF Ordered, Increasing
    <2> QED
      BY <2>3, <2>4, <2>5, <2>6 DEF Ordered, h, r, t2
  <1>7. CASE h # Dummy
    <2>1. Waiting(q) >= 1 /\ Waiting(r) = Waiting(q) - 1
      <3>1. CASE Len(q) = 1
        <4>1. r = <<>>
          BY <1>1, <3>1, EmptySeq DEF Queued
        <4> QED
          BY <4>1, <1>1, <1>7, <3>1 DEF Waiting
      <3>2. CASE Len(q) # 1
        <4>1. r # <<>> /\ r[Len(r)] = q[Len(q)]
          BY <1>1, <1>2, <3>2
        <4> QED
          BY <4>1, <1>1, <1>2, <3>2 DEF Waiting
      <3> QED
        BY <3>1, <3>2
    <2>2. h = a[n + 1] /\ n + 1 \in 1..Len(a) /\ Len(a) - Waiting(r) = n + 1
      BY <1>1, <1>2, <1>4, <2>1 DEF Ordered, LastPart
    <2>3. LastPart(r, a)
      <3> SUFFICES ASSUME NEW i \in 1..Waiting(r) PROVE r[i] = a[n + 1 + i]
        BY <1>2, <1>4, <2>1, <2>2 DEF LastPart
      <3>1. i + 1 \in 1..Waiting(q) /\ i \in 1..Len(r)
        BY <1>1, <1>2, <1>4, <2>1, WaitingNat
      <3>2. q[i + 1] = a[n + (i + 1)]
        BY <3>1 DEF Ordered, LastPart
      <3>3. r[i] = q[i + 1]
        BY <3>1, <1>1
      <3>4. n + (i + 1) = n + 1 + i
        BY <3>1, <1>4
      <3> QED
        BY <3>2, <3>3, <3>4
    <2>4. TakenBefore(r, a, t2)
      <3> SUFFICES ASSUME NEW i \in 1..Len(t2), t2[i] # Dummy
                   PROVE  \E k \in 1..(n + 1) : t2[i] = a[k]
        BY <2>2 DEF TakenBefore
      <3>1. CASE i = Len(t) + 1
        <4>1. n + 1 \in 1..(n + 1)
          BY <1>4
        <4> QED
          BY <3>1, <4>1, <1>3, <2>2
      <3>2. CASE i \in 1..Len(t)
        <4>1. PICK k \in 1..n : t[i] = a[k]
          BY <3>2, <1>3 DEF Ordered, TakenBefore
        <4>2. k \in 1..(n + 1)
          BY <1>4
        <4> QED
          BY <3>2, <4>1, <4>2, <1>3
      <3> QED
        BY <3>1, <3>2, <1>2, <1>3
    <2>5. Increasing(a, t2)
      <3> SUFFICES ASSUME NEW i \in 1..Len(t2), NEW j \in 1..Len(t2),
                          NEW k \in 1..Len(a), NEW l \in 1..Len(a),
                          i < j, t2[i] = a[k], t2[j] = a[l]
                   PROVE  k < l
        BY DEF Increasing
      <3>1. i \in 1..Len(t) /\ t2[i] = t[i] /\ t[i] # Dummy
        BY <1>2, <1>3, <1>5
      <3>2. PICK o \in 1..n : t[i] = a[o]
        BY <3>1 DEF Ordered, TakenBefore
      <3>3. k = o
        <4>1. o \in 1..Len(a) /\ a[k] = a[o]
          BY <3>1, <3>2, <1>4, <1>2
        <4> QED
          BY <4>1 DEF Ordered, Distinct
      <3>4. CASE j = Len(t) + 1
        <4>1. l = n + 1
          BY <3>4, <1>3, <2>2 DEF Ordered, Distinct
        <4> QED
          BY <4>1, <3>2, <3>3, <1>4
      <3>5. CASE j \in 1..Len(t)
        BY <3>1, <3>5, <1>3 DEF Ordered, Increasing
      <3> QED
        BY <3>4, <3>5, <1>2, <1>3
    <2>6. Accounted(r, a, t2)
      <3> SUFFICES ASSUME queue_size_ + 1 < Modulus, NEW i \in 1..(n + 1)
                   PROVE  \/ \E k \in 1..Len(t2) : t2[k] = a[i]
                          \/ Len(a) - i >= queue_size_ + 2
        BY <2>2 DEF Accounted
      <3>1. CASE i = n + 1
        BY <3>1, <2>2, <1>2, <1>3
      <3>2. CASE i \in 1..n
        <4>1. \/ \E k \in 1..Len(t) : t[k] = a[i]
              \/ Len(a) - i >= queue_size_ + 2
          BY <3>2 DEF Ordered, Accounted
        <4> QED
          BY <4>1, <1>2, <1>3
      <3> QED
        BY <3>1, <3>2, <1>4
    <2> QED
      BY <2>3, <2>4, <2>5, <2>6 DEF Ordered, h, r, t2
  <1> QED
    BY <1>6, <1>7

\* The receiving thread trims the queue and adds a new message.
LEMMA PushOrdered ==
  ASSUME NEW q \in Seq(Messages), NEW a \in Seq(Messages), NEW t \in Queued,
         NEW m \in Messages, \A i \in 1..Len(a) : a[i] # m,
         Ordered(q, a, t)
  PROVE  Ordered(Append(Trim(q), m), Append(a, m), t)
  <1> DEFINE s == Trim(q)
             r == Append(s, m)
             b == Append(a, m)
  <1>1. /\ s \in Seq(Messages) /\ Len(s) = IF Len(q) <= Limit THEN Len(q) ELSE Limit
        /\ \A i \in 1..Len(s) : s[i] = q[Len(q) - Len(s) + i]
    BY TrimFacts
  <1>2. /\ r \in Seq(Messages) /\ Len(r) = Len(s) + 1 /\ r[Len(s) + 1] = m
        /\ \A i \in 1..Len(s) : r[i] = s[i]
    <2> HIDE DEF s
    <2> QED BY <1>1, AppendProperties
  <1>3. /\ b \in Seq(Messages) /\ Len(b) = Len(a) + 1 /\ b[Len(a) + 1] = m
        /\ \A i \in 1..Len(a) : b[i] = a[i]
    BY AppendProperties
  <1>4. Len(q) \in Nat /\ Len(s) \in Nat /\ Len(a) \in Nat /\ Len(s) <= Len(q)
        /\ Limit \in Nat /\ Len(t) \in Nat
    BY <1>1, LimitNat DEF Queued
  <1>5. Waiting(q) = Len(q) /\ Waiting(r) = Len(s) + 1
    <2>1. q \in Queued /\ r \in Queued
      BY <1>2, SeqMonotonic DEF Queued
    <2> QED
      BY <2>1, <1>2, WaitingNat
  <1>6. Len(q) <= Len(a) /\ \A i \in 1..Len(q) : q[i] = a[Len(a) - Len(q) + i]
    BY <1>5 DEF Ordered, LastPart
  <1> HIDE DEF s, r, b
  <1>12. Len(b) - Waiting(r) = Len(a) - Len(s) /\ Len(a) - Len(s) \in Nat
         /\ Len(a) - Len(q) <= Len(a) - Len(s) /\ Len(a) - Waiting(q) = Len(a) - Len(q)
    <2>1. Len(b) = Len(a) + 1 /\ Len(q) <= Len(a)
      BY <1>3, <1>6
    <2> QED
      BY <2>1, <1>4, <1>5
  <1>7. Distinct(b)
    BY <1>3, <1>4 DEF Ordered, Distinct
  <1>8. LastPart(r, b)
    <2> SUFFICES ASSUME NEW i \in 1..(Len(s) + 1)
                 PROVE  r[i] = b[Len(a) - Len(s) + i]
      BY <1>3, <1>4, <1>5, <1>6 DEF LastPart
    <2>1. CASE i = Len(s) + 1
      BY <2>1, <1>2, <1>3, <1>4
    <2>2. CASE i \in 1..Len(s)
      <3>1. r[i] = q[Len(q) - Len(s) + i] /\ Len(q) - Len(s) + i \in 1..Len(q)
        <4>1. r[i] = s[i] /\ s[i] = q[Len(q) - Len(s) + i]
          BY <2>2, <1>1, <1>2
        <4> QED
          BY <4>1, <2>2, <1>4
      <3>2. r[i] = a[Len(a) - Len(q) + (Len(q) - Len(s) + i)]
        BY <3>1, <1>6
      <3>3. Len(a) - Len(s) + i \in 1..Len(a)
        BY <2>2, <1>4, <1>6
      <3>4. Len(a) - Len(q) + (Len(q) - Len(s) + i) = Len(a) - Len(s) + i
        BY <2>2, <1>4
      <3> QED
        BY <3>2, <3>3, <3>4, <1>3
    <2> QED
      BY <2>1, <2>2, <1>4
  <1>9. TakenBefore(r, b, t)
    <2> SUFFICES ASSUME NEW i \in 1..Len(t), t[i] # Dummy
                 PROVE  \E k \in 1..(Len(a) - Len(s)) : t[i] = b[k]
      BY <1>12 DEF TakenBefore
    <2>1. PICK k \in 1..(Len(a) - Len(q)) : t[i] = a[k]
      BY <1>12 DEF Ordered, TakenBefore
    <2>2. k \in 1..(Len(a) - Len(s)) /\ k \in 1..Len(a)
      <3>1. Len(q) <= Len(a)
        BY <1>6
      <3> QED
        BY <1>4, <3>1
    <2>3. b[k] = a[k]
      BY <2>2, <1>3
    <2> QED
      BY <2>1, <2>2, <2>3
  <1>10. Increasing(b, t)
    <2> SUFFICES ASSUME NEW i \in 1..Len(t), NEW j \in 1..Len(t),
                        NEW k \in 1..Len(b), NEW l \in 1..Len(b),
                        i < j, t[i] = b[k], t[j] = b[l]
                 PROVE  k < l
      BY DEF Increasing
    <2>1. b[k] # Dummy /\ b[l] # Dummy
      BY <1>3, ElementOfSeq, MessageNotDummy
    <2>0. ASSUME NEW z \in 1..Len(t), t[z] # Dummy
          PROVE  \E x \in 1..Len(a) : t[z] = a[x]
      <3>1. PICK x \in 1..(Len(a) - Waiting(q)) : t[z] = a[x]
        BY <2>0 DEF Ordered, TakenBefore
      <3>2. Len(a) - Waiting(q) = Len(a) - Len(q) /\ Len(q) <= Len(a)
        BY <1>6, <1>12
      <3>3. x \in 1..Len(a)
        BY <1>4, <3>2
      <3> QED
        BY <3>1, <3>3
    <2>2. PICK x \in 1..Len(a) : t[i] = a[x]
      BY <2>0, <2>1
    <2>3. PICK y \in 1..Len(a) : t[j] = a[y]
      BY <2>0, <2>1
    <2>4. k = x /\ l = y
      <3>1. x \in 1..Len(b) /\ y \in 1..Len(b) /\ b[x] = a[x] /\ b[y] = a[y]
        BY <1>3, <1>4
      <3> QED
        BY <3>1, <2>2, <2>3, <1>7 DEF Distinct
    <2> QED
      BY <2>2, <2>3, <2>4 DEF Ordered, Increasing
  <1>11. Accounted(r, b, t)
    <2> SUFFICES ASSUME queue_size_ + 1 < Modulus, NEW i \in 1..(Len(a) - Len(s))
                 PROVE  \/ \E k \in 1..Len(t) : t[k] = b[i]
                        \/ Len(a) + 1 - i >= queue_size_ + 2
      BY <1>3, <1>12 DEF Accounted
    <2>1. i \in 1..Len(a) /\ b[i] = a[i] /\ queue_size_ \in Nat
      BY <1>3, <1>4, <1>6, SizesAssumption
    <2>2. CASE i \in 1..(Len(a) - Len(q))
      BY <2>1, <2>2, <1>4, <1>5 DEF Ordered, Accounted
    <2>3. CASE i > Len(a) - Len(q)
      <3>1. Limit = queue_size_ + 1
        <4>1. queue_size_ + 1 \in Nat /\ Modulus \in Nat
          BY SizesAssumption
        <4> QED
          BY <4>1, SmallMod, Zenon DEF Limit
      <3>2. Len(s) = Limit
        BY <2>3, <1>1, <1>4, <1>6
      <3> QED
        BY <3>1, <3>2, <2>1, <1>4, <1>6
    <2> QED
      BY <2>2, <2>3, <1>4, <1>6
  <1> QED
    BY <1>7, <1>8, <1>9, <1>10, <1>11 DEF Ordered, r, b, s

\* The destructor adds the dummy message.
LEMMA DummyOrdered ==
  ASSUME NEW q \in Seq(Messages), NEW a \in Seq(Messages), NEW t \in Queued,
         Ordered(q, a, t)
  PROVE  Ordered(Append(q, Dummy), a, t)
  <1> DEFINE r == Append(q, Dummy)
  <1>1. q \in Queued
    BY SeqMonotonic DEF Queued
  <1>2. /\ r \in Queued /\ Len(r) = Len(q) + 1 /\ r # <<>> /\ r[Len(q) + 1] = Dummy
        /\ \A i \in 1..Len(q) : r[i] = q[i]
    BY <1>1, AppendProperties DEF Queued
  <1> HIDE DEF r
  <1>3. Waiting(r) = Waiting(q) /\ Waiting(q) = Len(q) /\ Len(q) \in Nat
    BY <1>1, <1>2, WaitingNat DEF Waiting
  <1> QED
    BY <1>2, <1>3 DEF Ordered, LastPart, TakenBefore, Accounted, r

OrderInv ==
    /\ \A i \in 1..Len(arrived) : arrived[i][2] <= got[arrived[i][1]]
    /\ Ordered(queue, arrived, taken)

LEMMA OrderInit == Init => OrderInv
  BY DEF Init, OrderInv, Ordered, Distinct, LastPart, TakenBefore, Increasing,
         Accounted, Waiting

LEMMA OrderNext == IInv /\ OrderInv /\ [Next]_vars => OrderInv'
  <1> SUFFICES ASSUME IInv, OrderInv, [Next]_vars PROVE OrderInv'
    OBVIOUS
  <1> USE DEF OrderInv
  <1>0. queue \in Queued /\ taken \in Queued /\ arrived \in Seq(Messages)
    BY DEF IInv, TypeOK, Queued
  <1>1. CASE ReadMessage
    <2> DEFINE m == <<current, got[current] + 1>>
    <2>1. /\ queue' = Append(Trim(queue), m) /\ arrived' = Append(arrived, m)
          /\ got' = [got EXCEPT ![current] = @ + 1] /\ taken' = taken
          /\ dtor \in {"no", "joinReceiver"} /\ current \in Publishers
      BY <1>1 DEF ReadMessage, IInv, DtorOK, TypeOK
    <2>2. /\ got \in [Publishers -> Nat] /\ queue \in Seq(Messages)
          /\ got[current] + 1 \in 1..MaxSent
      <3>1. got[current] < sent[current] /\ got[current] \in 0..MaxSent
            /\ sent[current] \in 0..MaxSent
        BY <1>1, <2>1 DEF ReadMessage, IInv, TypeOK
      <3>2. got[current] + 1 \in 1..MaxSent
        BY <3>1, SizesAssumption
      <3>3. got \in [Publishers -> Nat] /\ queue \in Seq(Messages)
        BY <2>1 DEF IInv, TypeOK, DtorOK
      <3> QED
        BY <3>2, <3>3
    <2>3. m \in Messages
      BY <2>1, <2>2 DEF Messages
    <2>4. \A i \in 1..Len(arrived) : arrived[i] # m
      BY <2>2, <2>1
    <2>5. Ordered(queue', arrived', taken')
      BY <2>1, <2>2, <2>3, <2>4, <1>0, PushOrdered
    <2>6. /\ Len(arrived') = Len(arrived) + 1 /\ arrived'[Len(arrived) + 1] = m
          /\ \A i \in 1..Len(arrived) : arrived'[i] = arrived[i] /\ arrived[i] \in Messages
          /\ Len(arrived) \in Nat
      BY <2>1, <2>3, <1>0, AppendProperties, ElementOfSeq
    <2>7. ASSUME NEW i \in 1..Len(arrived')
          PROVE  arrived'[i][2] <= got'[arrived'[i][1]]
      <3>1. CASE i = Len(arrived) + 1
        BY <3>1, <2>6, <2>1, <2>2
      <3>2. CASE i \in 1..Len(arrived)
        <4>1. arrived[i][1] \in Publishers /\ arrived[i][2] \in Nat
              /\ arrived[i][2] <= got[arrived[i][1]]
          BY <3>2, <2>6 DEF Messages
        <4>2. got'[arrived[i][1]] >= got[arrived[i][1]]
          BY <4>1, <2>1, <2>2
        <4> QED
          BY <4>1, <4>2, <3>2, <2>6, <2>2, <2>1
      <3> QED
        BY <3>1, <3>2, <2>6
    <2> QED
      BY <2>5, <2>7
  <1>2. CASE SpinOnce
    BY <1>0, <1>2, TakeOrdered DEF SpinOnce, streams
  <1>3. CASE SpinTake
    BY <1>0, <1>3, TakeOrdered DEF SpinTake, streams
  <1>4. CASE PushDummy
    <2>1. queue \in Seq(Messages)
      BY <1>4 DEF PushDummy, IInv, DtorOK
    <2> QED
      BY <1>0, <1>4, <2>1, DummyOrdered DEF PushDummy, streams, history
  <1>5. CASE UNCHANGED <<queue, got, arrived, taken>>
    BY <1>5
  <1>6. ASSUME ~ReadMessage, ~SpinOnce, ~SpinTake, ~PushDummy
        PROVE  UNCHANGED <<queue, got, arrived, taken>>
    BY <1>6 DEF Next, vars, streams, history, ReceivingThread, SpinningThread,
         Destructor, Destroyed, Send, ClosePublisher, ConnectToPublisher, Disconnect,
         Spin, Destroy, CopyConnections, NextConnection, ReadFailure, RemoveDead,
         SpinTest, SpinWait, SpinCallback, JoinReceiver, JoinSpinner
  <1> QED
    BY <1>1, <1>2, <1>3, <1>4, <1>5, <1>6

LEMMA OrderedMeans == IInv /\ OrderInv => NewestInOrder
  <1> SUFFICES ASSUME IInv, OrderInv PROVE NewestInOrder
    OBVIOUS
  <1> DEFINE At(m) == CHOOSE i \in DOMAIN arrived : arrived[i] = m
  <1>0. /\ DOMAIN arrived = 1..Len(arrived) /\ DOMAIN taken = 1..Len(taken)
        /\ DOMAIN queue = 1..Len(queue)
        /\ Len(arrived) \in Nat /\ Len(taken) \in Nat
        /\ queue \in Queued
    BY DEF IInv, TypeOK, Queued
  <1>1. Distinct(arrived) /\ LastPart(queue, arrived) /\ Increasing(arrived, taken)
        /\ TakenBefore(queue, arrived, taken) /\ Accounted(queue, arrived, taken)
    BY DEF OrderInv, Ordered
  <1>2. Waiting(queue) \in Nat /\ Len(queue) \in Nat /\ Waiting(queue) <= Len(queue)
        /\ Waiting(queue) <= Len(arrived)
    BY <1>0, <1>1, WaitingNat DEF LastPart
  <1>5. \A i \in 1..Len(taken) : taken[i] # Dummy =>
            \E k \in 1..Len(arrived) : taken[i] = arrived[k]
    <2>1. 1..(Len(arrived) - Waiting(queue)) \subseteq 1..Len(arrived)
      BY <1>0, <1>2
    <2> QED
      BY <2>1, <1>1 DEF TakenBefore
  <1>3. ASSUME NEW i \in DOMAIN taken, NEW j \in DOMAIN taken,
               i < j, Dummy \notin {taken[i], taken[j]}
        PROVE  At(taken[i]) < At(taken[j])
    <2>1. PICK k \in 1..Len(arrived) : taken[i] = arrived[k]
      BY <1>0, <1>2, <1>3, <1>5
    <2>2. PICK l \in 1..Len(arrived) : taken[j] = arrived[l]
      BY <1>0, <1>2, <1>3, <1>5
    <2>3. At(taken[i]) = k
      BY <2>1, <1>0, <1>1 DEF Distinct
    <2>4. At(taken[j]) = l
      BY <2>2, <1>0, <1>1 DEF Distinct
    <2>5. k < l
      BY <2>1, <2>2, <1>0, <1>1, <1>3 DEF Increasing
    <2> QED
      BY <2>3, <2>4, <2>5
  <1>4. ASSUME queue_size_ + 1 < Modulus, NEW i \in DOMAIN arrived
        PROVE  \/ arrived[i] \in ToSet(taken) \cup ToSet(queue)
               \/ Len(arrived) - i >= queue_size_ + 2
    <2>1. CASE i \in 1..(Len(arrived) - Waiting(queue))
      BY <2>1, <1>0, <1>1, <1>4 DEF Accounted, ToSet
    <2>2. CASE i > Len(arrived) - Waiting(queue)
      <3> DEFINE k == i - (Len(arrived) - Waiting(queue))
      <3>1. k \in 1..Waiting(queue) /\ k \in 1..Len(queue)
            /\ Len(arrived) - Waiting(queue) + k = i
        BY <2>2, <1>0, <1>2
      <3>2. queue[k] = arrived[i]
        <4> HIDE DEF k
        <4> QED BY <3>1, <1>1 DEF LastPart
      <3> QED
        BY <3>1, <3>2, <1>0 DEF ToSet
    <2> QED
      BY <2>1, <2>2, <1>0, <1>2
  <1> QED
    BY <1>3, <1>4 DEF NewestInOrder

\* What the consumers take is what arrived, in its order; a message is passed
\* over only when queue_size_ + 2 newer ones have arrived.
THEOREM TakenInOrder == Spec => []NewestInOrder
  <1>1. Init => IInv /\ OrderInv
    BY IInvInit, OrderInit
  <1>2. IInv /\ OrderInv /\ [Next]_vars => IInv' /\ OrderInv'
    BY IInvNext, OrderNext
  <1> QED
    BY <1>1, <1>2, OrderedMeans, PTL DEF Spec

-----------------------------------------------------------------------------
(* What the destructor guarantees to its caller.                             *)

\* Once the destructor has returned neither thread uses the members that it
\* leaves to be destroyed, nor calls the user's callback (subscriber.hpp:97-121).
NoUseAfterDestroy ==
    [][dtor = "done" => UNCHANGED <<connected, queue, linked, got, receiver,
                                    spinning, dtor, history>>]_vars

\* Both threads have been joined, or were never started.
Joined ==
    /\ dtor \notin {"no", "joinReceiver"} => rx \in {"none", "ended"}
    /\ dtor = "done" => spinner \in {"none", "ended"}

LEMMA JoinedNext == Joined /\ [Next]_vars => Joined'
  <1> SUFFICES ASSUME Joined, [Next]_vars PROVE Joined'
    OBVIOUS
  <1> USE DEF Joined, receiver, spinning
  <1>1. CASE \E p \in Publishers : Send(p) \/ ClosePublisher(p) \/ ConnectToPublisher(p)
    BY <1>1 DEF Send, ClosePublisher, ConnectToPublisher
  <1>2. CASE Disconnect \/ Spin \/ SpinOnce \/ Destroy
    BY <1>2 DEF Disconnect, Spin, SpinOnce, Destroy
  <1>3. CASE ReceivingThread
    BY <1>3 DEF ReceivingThread, CopyConnections, NextConnection, ReadMessage, ReadFailure, RemoveDead
  <1>4. CASE SpinningThread
    BY <1>4 DEF SpinningThread, SpinTest, SpinWait, SpinTake, SpinCallback
  <1>5. CASE Destructor
    BY <1>5 DEF Destructor, JoinReceiver, PushDummy, JoinSpinner
  <1>6. CASE Destroyed \/ UNCHANGED vars
    BY <1>6 DEF Destroyed, vars
  <1> QED
    BY <1>1, <1>2, <1>3, <1>4, <1>5, <1>6 DEF Next

\* No step of a thread of the Subscriber follows its destruction.
THEOREM QuietOnceDestroyed == Spec => NoUseAfterDestroy
  <1>1. Init => Joined
    BY DEF Init, Joined
  <1>2. ASSUME IInv, Joined, [Next]_vars
        PROVE  dtor = "done" => UNCHANGED <<connected, queue, linked, got, receiver,
                                            spinning, dtor, history>>
    <2> USE DEF receiver, spinning, streams, history
    <2>1. /\ dtor # "no" => ~connected
          /\ dtor = "done" => rx \in {"none", "ended"} /\ spinner \in {"none", "ended"}
      BY <1>2 DEF IInv, DtorOK, Joined
    <2>2. CASE \E p \in Publishers : Send(p) \/ ClosePublisher(p) \/ ConnectToPublisher(p)
      BY <2>1, <2>2 DEF Send, ClosePublisher, ConnectToPublisher
    <2>3. CASE Disconnect \/ Spin \/ SpinOnce \/ Destroy
      BY <2>1, <2>3 DEF Disconnect, Spin, SpinOnce, Destroy
    <2>4. CASE ReceivingThread
      BY <2>1, <2>4 DEF ReceivingThread, CopyConnections, NextConnection, ReadMessage, ReadFailure, RemoveDead
    <2>5. CASE SpinningThread
      BY <2>1, <2>5 DEF SpinningThread, SpinTest, SpinWait, SpinTake, SpinCallback
    <2>6. CASE Destructor
      BY <2>1, <2>6 DEF Destructor, JoinReceiver, PushDummy, JoinSpinner
    <2>7. CASE Destroyed \/ UNCHANGED vars
      BY <2>7 DEF Destroyed, vars
    <2> QED
      BY <1>2, <2>2, <2>3, <2>4, <2>5, <2>6, <2>7 DEF Next
  <1> QED
    BY <1>1, <1>2, IInvInit, IInvNext, JoinedNext, PTL DEF Spec, NoUseAfterDestroy
=============================================================================
