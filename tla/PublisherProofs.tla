--------------------------- MODULE PublisherProofs ---------------------------
(* Theorems about a Publisher, for any subscribers and users.               *)
EXTENDS Publisher, SequenceTheorems, FiniteSetTheorems, TLAPS

Distinct(q) == \A i, j \in 1..Len(q) : q[i] = q[j] => i = j

LEMMA EmptyFacts == ToSet(<<>>) = {} /\ Distinct(<<>>) /\ \A S : <<>> \in Seq(S)
  BY DEF ToSet, Distinct

LEMMA AppendFacts ==
  ASSUME NEW S, NEW q \in Seq(S), NEW x \in S
  PROVE  /\ Append(q, x) \in Seq(S) /\ ToSet(Append(q, x)) = ToSet(q) \cup {x}
         /\ Distinct(q) /\ x \notin ToSet(q) => Distinct(Append(q, x))
  <1>1. /\ Append(q, x) \in Seq(S) /\ Len(Append(q, x)) = Len(q) + 1
        /\ \A i \in 1..Len(q) : Append(q, x)[i] = q[i]
        /\ Append(q, x)[Len(q) + 1] = x /\ Len(q) \in Nat
        /\ DOMAIN q = 1..Len(q) /\ DOMAIN Append(q, x) = 1..(Len(q) + 1)
    BY AppendProperties, LenProperties
  <1> QED
    BY <1>1 DEF ToSet, Distinct

LEMMA TailFacts ==
  ASSUME NEW S, NEW q \in Seq(S), q # <<>>
  PROVE  /\ Head(q) \in S /\ Tail(q) \in Seq(S)
         /\ ToSet(q) = ToSet(Tail(q)) \cup {Head(q)}
         /\ Distinct(q) => Distinct(Tail(q)) /\ Head(q) \notin ToSet(Tail(q))
  <1>1. /\ Head(q) = q[1] /\ Head(q) \in S /\ Tail(q) \in Seq(S)
        /\ Len(Tail(q)) = Len(q) - 1 /\ Len(q) \in Nat /\ Len(q) # 0
        /\ \A i \in 1..(Len(q) - 1) : Tail(q)[i] = q[i + 1]
        /\ DOMAIN q = 1..Len(q) /\ DOMAIN Tail(q) = 1..(Len(q) - 1)
    BY HeadTailProperties, EmptySeq, LenProperties
  <1> DEFINE t == Tail(q)
  <1> HIDE DEF t
  <1>2. ASSUME NEW i \in 2..Len(q) PROVE q[i] \in ToSet(t)
    <2>1. i - 1 \in 1..(Len(q) - 1) /\ q[(i - 1) + 1] = q[i]
      BY <1>1
    <2>2. t[i - 1] = q[i] /\ i - 1 \in DOMAIN t
      BY <1>1, <2>1 DEF t
    <2> QED
      BY <2>2 DEF ToSet
  <1>3. ToSet(q) = ToSet(t) \cup {Head(q)}
    <2>1. ToSet(t) \subseteq ToSet(q)
      BY <1>1 DEF ToSet, t
    <2>2. ToSet(q) \subseteq ToSet(t) \cup {Head(q)}
      <3> SUFFICES ASSUME NEW i \in 1..Len(q), i # 1 PROVE q[i] \in ToSet(t)
        BY <1>1 DEF ToSet
      <3>1. i \in 2..Len(q)
        BY <1>1
      <3> QED
        BY <3>1, <1>2
    <2>3. Head(q) \in ToSet(q)
      BY <1>1 DEF ToSet
    <2> QED
      BY <2>1, <2>2, <2>3
  <1>4. Distinct(q) => Distinct(t) /\ Head(q) \notin ToSet(t)
    BY <1>1 DEF Distinct, ToSet, t
  <1> QED
    BY <1>1, <1>3, <1>4 DEF t

LEMMA RemoveFacts ==
  ASSUME NEW S, NEW q \in Seq(S), NEW i \in DOMAIN q, Distinct(q)
  PROVE  /\ RemoveAt(q, i) \in Seq(S) /\ Distinct(RemoveAt(q, i))
         /\ ToSet(RemoveAt(q, i)) = ToSet(q) \ {q[i]}
  <1> DEFINE a == SubSeq(q, 1, i - 1)
             b == SubSeq(q, i + 1, Len(q))
             r == a \o b
             n == Len(q)
  <1>1. n \in Nat /\ i \in 1..n /\ DOMAIN q = 1..n /\ \A k \in 1..n : q[k] \in S
    BY LenProperties, ElementOfSeq
  <1>2. /\ a \in Seq(S) /\ Len(a) = i - 1
        /\ \A k \in 1..(i - 1) : a[k] = q[k]
    <2>1. \A k \in 1..(i - 1) : q[k] \in S
      BY <1>1
    <2>2. /\ a \in Seq(S) /\ Len(a) = IF 1 <= i - 1 THEN (i - 1) - 1 + 1 ELSE 0
          /\ \A k \in 1..((i - 1) - 1 + 1) : a[k] = q[1 + k - 1]
      BY <1>1, <2>1, SubSeqProperties
    <2> HIDE DEF a
    <2>3. Len(a) = i - 1
      BY <1>1, <2>2
    <2>4. \A k \in 1..(i - 1) : a[k] = q[k]
      BY <1>1, <2>2
    <2> QED
      BY <2>2, <2>3, <2>4
  <1>3. /\ b \in Seq(S) /\ Len(b) = n - i
        /\ \A k \in 1..(n - i) : b[k] = q[i + k]
    <2>1. \A k \in (i + 1)..n : q[k] \in S
      BY <1>1
    <2>2. /\ b \in Seq(S) /\ Len(b) = IF i + 1 <= n THEN n - (i + 1) + 1 ELSE 0
          /\ \A k \in 1..(n - (i + 1) + 1) : b[k] = q[(i + 1) + k - 1]
      BY <1>1, <2>1, SubSeqProperties
    <2> HIDE DEF b
    <2>3. Len(b) = n - i
      BY <1>1, <2>2
    <2>4. ASSUME NEW k \in 1..(n - i) PROVE b[k] = q[i + k]
      <3>1. k \in 1..(n - (i + 1) + 1) /\ (i + 1) + k - 1 = i + k
        BY <1>1
      <3> QED
        BY <2>2, <3>1
    <2> QED
      BY <2>2, <2>3, <2>4
  <1> HIDE DEF a, b
  <1>4. /\ r \in Seq(S) /\ Len(r) = n - 1 /\ DOMAIN r = 1..(n - 1)
        /\ \A k \in 1..(n - 1) : r[k] = IF k < i THEN q[k] ELSE q[k + 1]
    <2>1. /\ r \in Seq(S) /\ Len(r) = Len(a) + Len(b)
          /\ \A k \in 1..(Len(a) + Len(b)) : r[k] = IF k <= Len(a) THEN a[k] ELSE b[k - Len(a)]
      BY <1>2, <1>3, ConcatProperties
    <2> HIDE DEF r
    <2>2. Len(r) = n - 1 /\ DOMAIN r = 1..(n - 1)
      <3>1. Len(r) = n - 1
        BY <1>1, <1>2, <1>3, <2>1
      <3> QED
        BY <3>1, <2>1, LenProperties
    <2>3. ASSUME NEW k \in 1..(n - 1) PROVE r[k] = IF k < i THEN q[k] ELSE q[k + 1]
      <3>1. CASE k < i
        BY <3>1, <1>1, <1>2, <1>3, <2>1
      <3>2. CASE ~(k < i)
        <4>1. r[k] = b[k - (i - 1)] /\ k - (i - 1) \in 1..(n - i)
          BY <3>2, <1>1, <1>2, <1>3, <2>1
        <4>2. b[k - (i - 1)] = q[i + (k - (i - 1))] /\ i + (k - (i - 1)) = k + 1
          BY <4>1, <1>1, <1>3
        <4> QED
          BY <3>2, <4>1, <4>2
      <3> QED
        BY <3>1, <3>2
    <2> QED
      BY <2>1, <2>2, <2>3
  <1>5. r = RemoveAt(q, i)
    BY DEF RemoveAt, a, b
  <1> HIDE DEF r
  <1>6. ASSUME NEW k \in 1..(n - 1)
        PROVE  \E l \in 1..n : l # i /\ r[k] = q[l] /\ l = IF k < i THEN k ELSE k + 1
    BY <1>1, <1>4
  <1>7. Distinct(r)
    <2> SUFFICES ASSUME NEW k \in 1..(n - 1), NEW l \in 1..(n - 1), r[k] = r[l] PROVE k = l
      BY <1>4 DEF Distinct
    <2>1. PICK x \in 1..n : r[k] = q[x] /\ x = IF k < i THEN k ELSE k + 1
      BY <1>6
    <2>2. PICK y \in 1..n : r[l] = q[y] /\ y = IF l < i THEN l ELSE l + 1
      BY <1>6
    <2>3. x = y
      BY <2>1, <2>2 DEF Distinct
    <2> QED
      BY <2>1, <2>2, <2>3, <1>1
  <1>8. ToSet(r) \subseteq ToSet(q) \ {q[i]}
    BY <1>1, <1>4, <1>6 DEF ToSet, Distinct
  <1>9. ToSet(q) \ {q[i]} \subseteq ToSet(r)
    <2> SUFFICES ASSUME NEW k \in 1..n, k # i PROVE q[k] \in ToSet(r)
      BY <1>1 DEF ToSet
    <2>1. CASE k < i
      BY <2>1, <1>1, <1>4 DEF ToSet
    <2>2. CASE ~(k < i)
      <3>1. k - 1 \in 1..(n - 1) /\ ~(k - 1 < i) /\ (k - 1) + 1 = k
        BY <2>2, <1>1
      <3> QED
        BY <3>1, <1>4 DEF ToSet
    <2> QED
      BY <2>1, <2>2
  <1> QED
    BY <1>4, <1>5, <1>7, <1>8, <1>9

-----------------------------------------------------------------------------
Locking == {v \in Users : user[v] = "locking"}

\* The bound on the calls of publish() counts those that wait for the mutex.
Bounded == published + Cardinality(Locking) <= MaxPublished

\* Every connection is in one place: the backlog, the accepting thread's hand,
\* or the vector; publish() serves each connection of the vector once.
PlacesOK ==
    /\ Distinct(backlog) /\ Distinct(connections) /\ Distinct(todo)
    /\ ToSet(backlog) \cap ToSet(connections) = {}
    /\ acceptor = "adding" =>
           hand \in Subscribers /\ hand \notin ToSet(backlog) \cup ToSet(connections)
    /\ ToSet(todo) \subseteq ToSet(connections)
    /\ mutex = Nobody => todo = <<>>
    /\ mutex # Nobody => published >= 1

\* Nothing is sent on a connection before it is in the vector.
UnusedOK ==
    \A s \in Subscribers :
        /\ reader[s] = "none" => s \notin ToSet(backlog) \cup ToSet(connections) \cup {hand}
        /\ \/ reader[s] = "none" \/ s \in ToSet(backlog)
           \/ acceptor = "adding" /\ s = hand
           => stream[s] = <<>>

SentOK ==
    \A s \in Subscribers :
        /\ \A i \in 1..Len(stream[s]) : stream[s][i] = joined[s] + i
        /\ s \in ToSet(connections) =>
               Len(stream[s]) = published - joined[s] - (IF s \in ToSet(todo) THEN 1 ELSE 0)

IInv == TypeOK /\ Bounded /\ PlacesOK /\ UnusedOK /\ SentOK

LEMMA LockingFacts ==
  /\ Cardinality(Locking) \in Nat
  /\ \A u \in Users : Cardinality(Locking \cup {u}) =
         IF user[u] = "locking" THEN Cardinality(Locking) ELSE Cardinality(Locking) + 1
  /\ \A u \in Users : user[u] = "locking" =>
         /\ Cardinality(Locking \ {u}) \in Nat
         /\ Cardinality(Locking \ {u}) = Cardinality(Locking) - 1
  <1>1. IsFiniteSet(Users) /\ Locking \subseteq Users
    BY PublisherAssumption DEF Locking
  <1>2. IsFiniteSet(Locking) /\ Cardinality(Locking) \in Nat
    BY <1>1, FS_Subset, FS_CardinalityType
  <1>3. \A u \in Users : u \in Locking <=> user[u] = "locking"
    BY DEF Locking
  <1> QED
    BY <1>2, <1>3, FS_AddElement, FS_RemoveElement, FS_CardinalityType

LEMMA IInvInit == Init => IInv
  <1> SUFFICES ASSUME Init PROVE IInv
    OBVIOUS
  <1>1. Locking = {}
    BY DEF Init, Locking
  <1>2. Bounded
    BY <1>1, FS_EmptySet, PublisherAssumption DEF Init, Bounded
  <1>3. TypeOK
    BY EmptyFacts, PublisherAssumption DEF Init, TypeOK
  <1>4. PlacesOK /\ UnusedOK
    BY EmptyFacts, PublisherAssumption DEF Init, PlacesOK, UnusedOK
  <1>5. SentOK
    BY EmptyFacts DEF Init, SentOK
  <1> QED
    BY <1>2, <1>3, <1>4, <1>5 DEF IInv

\* The threads that wait for the mutex are the same after most steps.
LEMMA BoundedSame ==
  ASSUME Bounded, published' = published,
         \A v \in Users : user'[v] = "locking" <=> user[v] = "locking"
  PROVE  Bounded'
  <1>1. Locking' = Locking
    BY DEF Locking
  <1> QED
    BY <1>1 DEF Bounded

LEMMA IInvNext == IInv /\ [Next]_publisherVars => IInv'
  <1> SUFFICES ASSUME IInv, [Next]_publisherVars PROVE IInv'
    OBVIOUS
  <1> USE PublisherAssumption DEF IInv, accepting, sending, peers
  <1>0. \A q : q \in Seq(Subscribers) /\ q # <<>> =>
            /\ Head(q) \in Subscribers /\ Tail(q) \in Seq(Subscribers)
            /\ ToSet(q) = ToSet(Tail(q)) \cup {Head(q)}
            /\ Distinct(q) => Distinct(Tail(q)) /\ Head(q) \notin ToSet(Tail(q))
    BY TailFacts
  <1>1. ASSUME NEW u \in Users, StartPublish(u) PROVE IInv'
    <2>1. /\ user[u] = "idle" /\ user' = [user EXCEPT ![u] = "locking"]
          /\ published + Cardinality(Locking) < MaxPublished
          /\ UNCHANGED <<accepting, mutex, connections, todo, published, peers>>
      BY <1>1 DEF StartPublish, Locking
    <2>2. TypeOK'
      BY <2>1 DEF TypeOK
    <2>3. Bounded'
      <3>1. Locking' = Locking \cup {u}
        BY <2>1 DEF Locking, TypeOK
      <3>2. Cardinality(Locking)' = Cardinality(Locking) + 1 /\ Cardinality(Locking) \in Nat
        <4>1. Cardinality(Locking)' = Cardinality(Locking \cup {u})
          BY <3>1
        <4> QED
          BY <2>1, <4>1, LockingFacts
      <3> QED
        BY <2>1, <3>2 DEF Bounded, TypeOK
    <2>4. PlacesOK' /\ UnusedOK' /\ SentOK'
      BY <2>1 DEF PlacesOK, UnusedOK, SentOK
    <2> QED
      BY <2>2, <2>3, <2>4
  <1>2. ASSUME NEW u \in Users, LockConnections(u) PROVE IInv'
    <2>1. /\ user[u] = "locking" /\ mutex = Nobody /\ mutex' = u
          /\ published' = published + 1 /\ todo' = connections
          /\ user' = [user EXCEPT ![u] = "sending"]
          /\ UNCHANGED <<accepting, connections, peers>>
      BY <1>2 DEF LockConnections
    <2>2. Cardinality(Locking)' = Cardinality(Locking) - 1 /\ Cardinality(Locking) \in Nat
          /\ Cardinality(Locking)' \in Nat
      <3>1. Locking' = Locking \ {u}
        BY <2>1 DEF Locking, TypeOK
      <3>2. Cardinality(Locking)' = Cardinality(Locking \ {u})
        BY <3>1
      <3> QED
        BY <2>1, <3>2, LockingFacts
    <2>3. Bounded' /\ published' \in 1..MaxPublished
      BY <2>1, <2>2 DEF Bounded, TypeOK
    <2>4. TypeOK'
      BY <2>1, <2>3 DEF TypeOK
    <2>5. PlacesOK' /\ UnusedOK'
      BY <2>1, <2>3 DEF PlacesOK, UnusedOK
    <2>6. SentOK'
      <3> SUFFICES ASSUME NEW s \in Subscribers, s \in ToSet(connections)
                   PROVE  Len(stream[s]) = published' - joined[s] - 1
        BY <2>1 DEF SentOK
      <3>1. s \notin ToSet(todo)
        BY <2>1, EmptyFacts DEF PlacesOK
      <3>2. Len(stream[s]) = published - joined[s] /\ published \in Nat /\ joined[s] \in Nat
        BY <3>1 DEF SentOK, TypeOK
      <3> QED
        BY <2>1, <3>2
    <2> QED
      BY <2>3, <2>4, <2>5, <2>6
  <1>3. ASSUME NEW u \in Users, Send(u) PROVE IInv'
    <2> DEFINE s == Head(todo)
    <2>1. /\ user[u] = "sending" /\ mutex = u /\ todo # <<>>
          /\ stream' = [stream EXCEPT ![s] = Append(stream[s], published)]
          /\ todo' = Tail(todo)
          /\ UNCHANGED <<accepting, mutex, connections, user, published, reader, read, joined>>
      BY <1>3 DEF Send, TypeOK
    <2>2. /\ s \in Subscribers /\ s \in ToSet(connections) /\ s \in ToSet(todo)
          /\ Tail(todo) \in Seq(Subscribers) /\ Distinct(Tail(todo))
          /\ ToSet(todo) = ToSet(Tail(todo)) \cup {s} /\ s \notin ToSet(Tail(todo))
      BY <1>0, <2>1 DEF TypeOK, PlacesOK
    <2>3. published \in 1..MaxPublished
      BY <2>1 DEF PlacesOK, TypeOK
    <2> DEFINE q == stream[s]
    <2>4. /\ Append(q, published) \in Seq(1..MaxPublished) /\ Len(q) \in Nat
          /\ Len(Append(q, published)) = Len(q) + 1
          /\ Append(q, published)[Len(q) + 1] = published
          /\ \A i \in 1..Len(q) : Append(q, published)[i] = q[i]
      BY <2>2, <2>3, AppendProperties, LenProperties DEF TypeOK
    <2>5. Len(q) = published - joined[s] - 1 /\ joined[s] \in 0..MaxPublished
      BY <2>2 DEF SentOK, TypeOK
    <2> HIDE DEF q
    <2>6. stream' = [stream EXCEPT ![s] = Append(q, published)]
      BY <2>1 DEF q
    <2> HIDE DEF s
    <2>7. TypeOK'
      <3>1. stream' \in [Subscribers -> Seq(1..MaxPublished)]
        BY <2>4, <2>6 DEF TypeOK
      <3> QED
        BY <2>1, <2>2, <3>1 DEF TypeOK
    <2>8. Bounded'
      BY <2>1, BoundedSame
    <2>9. PlacesOK' /\ UnusedOK'
      <3>1. s \notin ToSet(backlog) /\ reader[s] # "none" /\ ~(acceptor = "adding" /\ s = hand)
        BY <2>2 DEF PlacesOK, UnusedOK
      <3>2. \A x \in Subscribers : x # s => stream'[x] = stream[x]
        BY <2>6 DEF TypeOK
      <3>3. PlacesOK'
        BY <2>1, <2>2 DEF PlacesOK
      <3> QED
        BY <2>1, <3>1, <3>2, <3>3 DEF UnusedOK
    <2>10. SentOK'
      <3> SUFFICES ASSUME NEW x \in Subscribers
                   PROVE  /\ \A i \in 1..Len(stream'[x]) : stream'[x][i] = joined[x] + i
                          /\ x \in ToSet(connections) =>
                                 Len(stream'[x]) = published - joined[x]
                                     - (IF x \in ToSet(Tail(todo)) THEN 1 ELSE 0)
        BY <2>1 DEF SentOK
      <3>1. CASE x = s
        <4>1. stream'[x] = Append(q, published)
          BY <3>1, <2>2, <2>6 DEF TypeOK
        <4>2. ASSUME NEW i \in 1..(Len(q) + 1)
              PROVE  Append(q, published)[i] = joined[s] + i
          <5>1. CASE i = Len(q) + 1
            BY <5>1, <2>3, <2>4, <2>5
          <5>2. CASE i \in 1..Len(q)
            BY <5>2, <2>2, <2>4 DEF SentOK, q
          <5> QED
            BY <5>1, <5>2, <2>4
        <4>3. \A i \in 1..Len(stream'[x]) : stream'[x][i] = joined[x] + i
          BY <3>1, <4>1, <4>2, <2>4
        <4>4. Len(stream'[x]) = published - joined[x] /\ x \notin ToSet(Tail(todo))
          BY <3>1, <4>1, <2>2, <2>3, <2>4, <2>5
        <4>5. published - joined[x] = published - joined[x] - 0
          BY <3>1, <2>3, <2>5
        <4> QED
          BY <4>3, <4>4, <4>5
      <3>2. CASE x # s
        <4>1. stream'[x] = stream[x] /\ (x \in ToSet(Tail(todo)) <=> x \in ToSet(todo))
          BY <3>2, <2>2, <2>6 DEF TypeOK
        <4> QED
          BY <4>1 DEF SentOK
      <3> QED
        BY <3>1, <3>2
    <2> QED
      BY <2>7, <2>8, <2>9, <2>10
  <1>4. ASSUME NEW u \in Users, Erase(u) PROVE IInv'
    <2> DEFINE s == Head(todo)
    <2>1. PICK i \in DOMAIN connections :
              connections[i] = s /\ connections' = RemoveAt(connections, i)
      BY <1>4 DEF Erase
    <2>2. /\ todo # <<>> /\ todo' = Tail(todo)
          /\ UNCHANGED <<accepting, mutex, user, published, peers>>
      BY <1>4 DEF Erase
    <2>3. /\ s \in Subscribers /\ Tail(todo) \in Seq(Subscribers) /\ Distinct(Tail(todo))
          /\ ToSet(todo) = ToSet(Tail(todo)) \cup {s} /\ s \notin ToSet(Tail(todo))
      BY <1>0, <2>2 DEF TypeOK, PlacesOK
    <2>4. /\ connections' \in Seq(Subscribers) /\ Distinct(connections')
          /\ ToSet(connections') = ToSet(connections) \ {s}
      <3>1. connections \in Seq(Subscribers) /\ Distinct(connections)
        BY DEF TypeOK, PlacesOK
      <3>2. /\ RemoveAt(connections, i) \in Seq(Subscribers)
            /\ Distinct(RemoveAt(connections, i))
            /\ ToSet(RemoveAt(connections, i)) = ToSet(connections) \ {connections[i]}
        BY <3>1, RemoveFacts
      <3> QED
        BY <2>1, <3>2
    <2> HIDE DEF s
    <2>5. TypeOK'
      BY <2>2, <2>3, <2>4 DEF TypeOK
    <2>6. Bounded'
      BY <2>2, BoundedSame
    <2>7. PlacesOK' /\ UnusedOK'
      BY <2>2, <2>3, <2>4 DEF PlacesOK, UnusedOK
    <2>8. SentOK'
      BY <2>2, <2>3, <2>4 DEF SentOK
    <2> QED
      BY <2>5, <2>6, <2>7, <2>8
  <1>5. ASSUME NEW u \in Users, Unlock(u) PROVE IInv'
    <2>1. /\ user[u] = "sending" /\ todo = <<>> /\ mutex' = Nobody
          /\ user' = [user EXCEPT ![u] = "idle"]
          /\ UNCHANGED <<accepting, connections, todo, published, peers>>
      BY <1>5 DEF Unlock
    <2>2. TypeOK'
      BY <2>1 DEF TypeOK
    <2>3. Bounded'
      BY <2>1, BoundedSame DEF TypeOK
    <2>4. PlacesOK' /\ UnusedOK' /\ SentOK'
      BY <2>1 DEF PlacesOK, UnusedOK, SentOK
    <2> QED
      BY <2>2, <2>3, <2>4
  <1>6. CASE Disconnect
    <2>1. connected' = FALSE
          /\ UNCHANGED <<acceptor, hand, listening, backlog, sending, peers>>
      BY <1>6 DEF Disconnect
    <2> QED
      BY <2>1, BoundedSame DEF TypeOK, PlacesOK, UnusedOK, SentOK
  <1>7. ASSUME NEW u \in Users, Release(u) PROVE IInv'
    <2>1. /\ user[u] = "idle" /\ connected' \in BOOLEAN
          /\ user' = [user EXCEPT ![u] = "joining"] \/ user' = [user EXCEPT ![u] = "released"]
          /\ UNCHANGED <<acceptor, hand, listening, backlog, mutex, connections, todo,
                         published, peers>>
      BY <1>7 DEF Release, TypeOK
    <2>2. TypeOK'
      <3>1. CASE user' = [user EXCEPT ![u] = "joining"]
        BY <2>1, <3>1 DEF TypeOK
      <3>2. CASE user' = [user EXCEPT ![u] = "released"]
        BY <2>1, <3>2 DEF TypeOK
      <3> QED
        BY <2>1, <3>1, <3>2
    <2>3. Bounded'
      BY <2>1, BoundedSame DEF TypeOK
    <2>4. PlacesOK' /\ UnusedOK' /\ SentOK'
      BY <2>1 DEF PlacesOK, UnusedOK, SentOK
    <2> QED
      BY <2>2, <2>3, <2>4
  <1>8. ASSUME NEW u \in Users, Join(u) PROVE IInv'
    <2>1. /\ user[u] = "joining" /\ user' = [user EXCEPT ![u] = "gone"]
          /\ UNCHANGED <<accepting, mutex, connections, todo, published, peers>>
      BY <1>8 DEF Join
    <2>2. TypeOK'
      BY <2>1 DEF TypeOK
    <2>3. Bounded'
      BY <2>1, BoundedSame DEF TypeOK
    <2>4. PlacesOK' /\ UnusedOK' /\ SentOK'
      BY <2>1 DEF PlacesOK, UnusedOK, SentOK
    <2> QED
      BY <2>2, <2>3, <2>4
  <1>9. CASE AcceptTest
    <2>1. acceptor' \in {"accept", "close"}
          /\ UNCHANGED <<connected, hand, listening, backlog, sending, peers>>
      BY <1>9 DEF AcceptTest
    <2> QED
      BY <2>1, BoundedSame DEF TypeOK, PlacesOK, UnusedOK, SentOK
  <1>10. CASE Accept
    <2>1. UNCHANGED <<connected, listening, sending, peers>>
      BY <1>10 DEF Accept
    <2>2. Bounded'
      BY <2>1, BoundedSame
    <2>3. CASE backlog = <<>>
      BY <1>10, <2>1, <2>2, <2>3 DEF Accept, TypeOK, PlacesOK, UnusedOK, SentOK
    <2>4. CASE backlog # <<>>
      <3>1. acceptor' = "adding" /\ hand' = Head(backlog) /\ backlog' = Tail(backlog)
        BY <1>10, <2>4 DEF Accept
      <3>2. /\ Head(backlog) \in Subscribers /\ Tail(backlog) \in Seq(Subscribers)
            /\ ToSet(backlog) = ToSet(Tail(backlog)) \cup {Head(backlog)}
            /\ Distinct(Tail(backlog)) /\ Head(backlog) \notin ToSet(Tail(backlog))
        BY <1>0, <2>4 DEF TypeOK, PlacesOK
      <3>3. TypeOK' /\ PlacesOK'
        BY <2>1, <3>1, <3>2 DEF TypeOK, PlacesOK
      <3>4. UnusedOK' /\ SentOK'
        BY <2>1, <3>1, <3>2 DEF UnusedOK, SentOK
      <3> QED
        BY <2>2, <3>3, <3>4
    <2> QED
      BY <2>3, <2>4
  <1>11. CASE AcceptFails
    <2>1. acceptor' = "aborted"
          /\ UNCHANGED <<connected, hand, listening, backlog, sending, peers>>
      BY <1>11 DEF AcceptFails
    <2> QED
      BY <2>1, BoundedSame DEF TypeOK, PlacesOK, UnusedOK, SentOK
  <1>12. CASE Add
    <2>1. /\ acceptor = "adding" /\ mutex = Nobody /\ acceptor' = "sleep"
          /\ connections' = Append(connections, hand)
          /\ joined' = [joined EXCEPT ![hand] = published]
          /\ UNCHANGED <<connected, hand, listening, backlog, mutex, user, todo, published,
                         reader, stream, read>>
      BY <1>12 DEF Add
    <2>2. /\ hand \in Subscribers /\ hand \notin ToSet(backlog) \cup ToSet(connections)
          /\ stream[hand] = <<>> /\ todo = <<>> /\ reader[hand] # "none"
      BY <2>1 DEF PlacesOK, UnusedOK
    <2>3. /\ connections' \in Seq(Subscribers) /\ Distinct(connections')
          /\ ToSet(connections') = ToSet(connections) \cup {hand}
      BY <2>1, <2>2, AppendFacts DEF TypeOK, PlacesOK
    <2>4. TypeOK'
      BY <2>1, <2>3 DEF TypeOK
    <2>5. Bounded'
      BY <2>1, BoundedSame
    <2>6. PlacesOK' /\ UnusedOK'
      BY <2>1, <2>2, <2>3 DEF PlacesOK, UnusedOK
    <2>7. SentOK'
      <3> SUFFICES ASSUME NEW x \in Subscribers
                   PROVE  /\ \A i \in 1..Len(stream[x]) : stream[x][i] = joined'[x] + i
                          /\ x \in ToSet(connections') =>
                                 Len(stream[x]) = published - joined'[x]
                                     - (IF x \in ToSet(todo) THEN 1 ELSE 0)
        BY <2>1 DEF SentOK
      <3>1. CASE x = hand
        <4>1. joined'[x] = published /\ Len(stream[x]) = 0 /\ x \notin ToSet(todo)
              /\ published \in Nat
          BY <3>1, <2>1, <2>2, EmptyFacts DEF TypeOK
        <4>2. \A i \in 1..Len(stream[x]) : stream[x][i] = joined'[x] + i
          BY <4>1
        <4>3. published - published - 0 = 0
          BY <4>1
        <4> QED
          BY <4>1, <4>2, <4>3
      <3>2. CASE x # hand
        BY <3>2, <2>1, <2>3 DEF SentOK, TypeOK
      <3> QED
        BY <3>1, <3>2
    <2> QED
      BY <2>4, <2>5, <2>6, <2>7
  <1>13. CASE Sleep
    <2>1. acceptor' = "test" /\ hand' = Nobody
          /\ UNCHANGED <<connected, listening, backlog, sending, peers>> /\ acceptor = "sleep"
      BY <1>13 DEF Sleep
    <2> QED
      BY <2>1, BoundedSame DEF TypeOK, PlacesOK, UnusedOK, SentOK
  <1>14. CASE CloseServer
    <2>1. listening' = FALSE /\ backlog' = <<>> /\ acceptor' = "clear"
          /\ UNCHANGED <<connected, hand, sending, peers>>
      BY <1>14 DEF CloseServer
    <2> QED
      BY <2>1, BoundedSame, EmptyFacts DEF TypeOK, PlacesOK, UnusedOK, SentOK
  <1>15. CASE Clear
    <2>1. /\ mutex = Nobody /\ connections' = <<>> /\ acceptor' = "ended"
          /\ UNCHANGED <<connected, hand, listening, backlog, mutex, user, todo, published,
                         peers>>
      BY <1>15 DEF Clear
    <2> QED
      BY <2>1, BoundedSame, EmptyFacts DEF TypeOK, PlacesOK, UnusedOK, SentOK
  <1>16. ASSUME NEW s \in Subscribers, Connect(s) PROVE IInv'
    <2>1. /\ reader[s] = "none"
          /\ UNCHANGED <<connected, acceptor, hand, listening, sending, stream, read, joined>>
      BY <1>16 DEF Connect
    <2>2. s \notin ToSet(backlog) \cup ToSet(connections) \cup {hand} /\ stream[s] = <<>>
      BY <2>1 DEF UnusedOK
    <2>3. Bounded'
      BY <2>1, BoundedSame
    <2>4. CASE Runs /\ listening
      <3>1. reader' = [reader EXCEPT ![s] = "reading"] /\ backlog' = Append(backlog, s)
        BY <1>16, <2>4 DEF Connect
      <3>2. /\ backlog' \in Seq(Subscribers) /\ Distinct(backlog')
            /\ ToSet(backlog') = ToSet(backlog) \cup {s}
        BY <2>2, <3>1, AppendFacts DEF TypeOK, PlacesOK
      <3>3. TypeOK' /\ PlacesOK'
        BY <2>1, <2>2, <3>1, <3>2 DEF TypeOK, PlacesOK
      <3>4. UnusedOK' /\ SentOK'
        BY <2>1, <2>2, <3>1, <3>2 DEF UnusedOK, SentOK, TypeOK
      <3> QED
        BY <2>3, <3>3, <3>4
    <2>5. CASE ~(Runs /\ listening)
      <3>1. reader' = [reader EXCEPT ![s] = "gone"] /\ backlog' = backlog
        BY <1>16, <2>5 DEF Connect
      <3> QED
        BY <2>1, <2>3, <3>1 DEF TypeOK, PlacesOK, UnusedOK, SentOK
    <2> QED
      BY <2>4, <2>5
  <1>17. ASSUME NEW s \in Subscribers, Read(s) PROVE IInv'
    <2>1. /\ read[s] < Len(stream[s]) /\ read' = [read EXCEPT ![s] = @ + 1]
          /\ UNCHANGED <<accepting, sending, reader, stream, joined>>
      BY <1>17 DEF Read
    <2>2. read[s] + 1 \in 0..MaxPublished
      <3> DEFINE q == stream[s]
                 n == Len(q)
      <3>1. q \in Seq(1..MaxPublished) /\ n \in Nat /\ read[s] \in Nat
            /\ joined[s] \in Nat
        BY DEF TypeOK
      <3>2. n \in 1..n
        BY <2>1, <3>1
      <3>3. q[n] \in 1..MaxPublished /\ q[n] = joined[s] + n
        BY <3>1, <3>2, ElementOfSeq DEF SentOK
      <3> HIDE DEF n, q
      <3>4. read[s] < n
        BY <2>1 DEF n, q
      <3> QED
        BY <3>1, <3>3, <3>4
    <2>3. TypeOK'
      BY <2>1, <2>2 DEF TypeOK
    <2> QED
      BY <2>1, <2>3, BoundedSame DEF PlacesOK, UnusedOK, SentOK
  <1>18. ASSUME NEW s \in Subscribers, ReadEnd(s) \/ Stop(s) \/ Leave(s) PROVE IInv'
    <2>1. PICK r \in {"gone", "stopped"} : reader' = [reader EXCEPT ![s] = r]
      BY <1>18 DEF ReadEnd, Stop, Leave
    <2>2. UNCHANGED <<accepting, sending, stream, read, joined>>
      BY <1>18 DEF ReadEnd, Stop, Leave
    <2>3. TypeOK' /\ PlacesOK' /\ SentOK'
      BY <2>1, <2>2 DEF TypeOK, PlacesOK, SentOK
    <2>4. UnusedOK'
      BY <2>1, <2>2 DEF UnusedOK, TypeOK
    <2> QED
      BY <2>2, <2>3, <2>4, BoundedSame
  <1>19. CASE UNCHANGED publisherVars
    BY <1>19, BoundedSame DEF publisherVars, TypeOK, PlacesOK, UnusedOK, SentOK
  <1> QED
    BY <1>1, <1>2, <1>3, <1>4, <1>5, <1>6, <1>7, <1>8, <1>9, <1>10, <1>11, <1>12,
       <1>13, <1>14, <1>15, <1>16, <1>17, <1>18, <1>19
       DEF Next, Publishing, AcceptingThread, Subscriber, Reading

\* The state keeps its type; publish() is in one thread at a time, the one that
\* holds the mutex.
THEOREM TypeCorrect == Spec => []TypeOK
  <1>1. IInv => TypeOK
    BY DEF IInv
  <1> QED
    BY <1>1, IInvInit, IInvNext, PTL DEF Spec

\* Whoever is in the vector has been sent every message since it was added, in
\* order and once, whoever else connects, fails or leaves meanwhile.
THEOREM NoGapsEver == Spec => []NoGaps
  <1>1. IInv => NoGaps
    <2> SUFFICES ASSUME IInv PROVE NoGaps
      OBVIOUS
    <2>1. mutex = Nobody => ToSet(todo) = {}
      BY EmptyFacts DEF IInv, PlacesOK
    <2>2. \A s \in Subscribers : DOMAIN stream[s] = 1..Len(stream[s])
      BY LenProperties DEF IInv, TypeOK
    <2> QED
      BY <2>1, <2>2 DEF IInv, SentOK, NoGaps
  <1> QED
    BY <1>1, IInvInit, IInvNext, PTL DEF Spec

-----------------------------------------------------------------------------
(* What the destructor guarantees to its caller.                             *)

\* Once the destructor has returned, nobody uses the members it leaves to be
\* destroyed: the accepting thread has ended, no publish() is under way and no
\* subscriber can connect any more (publisher.hpp:80-91).
NoUseAfterDestroy ==
    [][(\E u \in Users : user[u] = "gone") => UNCHANGED <<accepting, sending, stream>>]_publisherVars

\* Who runs the destructor is alone, and the server socket is closed before the
\* accepting thread ends.
Alone ==
    /\ acceptor \in {"clear", "ended"} => ~listening
    /\ \A u \in Users : user[u] \in {"joining", "gone"} =>
           \A v \in Users \ {u} : user[v] = "released"
    /\ \A u \in Users : user[u] = "gone" => acceptor = "ended"

LEMMA AloneNext == TypeOK /\ Alone /\ [Next]_publisherVars => Alone'
  <1> SUFFICES ASSUME TypeOK, Alone, [Next]_publisherVars PROVE Alone'
    OBVIOUS
  <1> USE DEF Alone, accepting, sending, peers
  <1>0. user \in [Users -> {"idle", "locking", "sending", "released", "joining", "gone"}]
    BY DEF TypeOK
  <1>1. ASSUME NEW u \in Users, StartPublish(u) \/ Publishing(u) PROVE Alone'
    <2>1. CASE StartPublish(u)
      BY <1>0, <2>1 DEF StartPublish
    <2>2. CASE LockConnections(u)
      BY <1>0, <2>2 DEF LockConnections
    <2>3. CASE Send(u) \/ Erase(u)
      BY <2>3 DEF Send, Erase
    <2>4. CASE Unlock(u)
      BY <1>0, <2>4 DEF Unlock
    <2>5. CASE Join(u)
      BY <1>0, <2>5 DEF Join
    <2> QED
      BY <1>1, <2>1, <2>2, <2>3, <2>4, <2>5 DEF Publishing
  <1>2. ASSUME NEW u \in Users, Release(u) PROVE Alone'
    <2>1. CASE \A v \in Users \ {u} : user[v] = "released"
      BY <1>0, <1>2, <2>1 DEF Release
    <2>2. CASE ~ \A v \in Users \ {u} : user[v] = "released"
      BY <1>0, <1>2, <2>2 DEF Release
    <2> QED
      BY <2>1, <2>2
  <1>3. CASE AcceptingThread \/ AcceptFails
    <2>1. CASE AcceptTest
      BY <2>1 DEF AcceptTest
    <2>2. CASE Accept \/ Add \/ AcceptFails
      BY <2>2 DEF Accept, Add, AcceptFails
    <2>3. CASE Sleep \/ CloseServer \/ Clear
      BY <2>3 DEF Sleep, CloseServer, Clear
    <2> QED
      BY <1>3, <2>1, <2>2, <2>3 DEF AcceptingThread
  <1>4. ASSUME NEW s \in Subscribers, Subscriber(s) PROVE Alone'
    BY <1>4 DEF Subscriber, Connect, Reading, Read, ReadEnd, Stop, Leave
  <1>5. CASE Disconnect \/ UNCHANGED publisherVars
    BY <1>5 DEF Disconnect, publisherVars
  <1> QED
    BY <1>1, <1>2, <1>3, <1>4, <1>5 DEF Next

\* No step of the accepting thread, of a user or of a peer touches a Publisher
\* that has been destroyed.
THEOREM QuietOnceDestroyed == Spec => NoUseAfterDestroy
  <1>1. Init => Alone
    BY DEF Init, Alone
  <1>2. ASSUME TypeOK, Alone, [Next]_publisherVars, NEW g \in Users, user[g] = "gone"
        PROVE  UNCHANGED <<accepting, sending, stream>>
    <2> USE DEF accepting, sending, peers
    <2>1. /\ acceptor = "ended" /\ ~listening
          /\ \A v \in Users : user[v] \in {"gone", "released"}
      BY <1>2 DEF Alone
    <2>2. ASSUME NEW u \in Users, StartPublish(u) \/ Publishing(u) \/ Release(u) PROVE FALSE
      BY <2>1, <2>2 DEF StartPublish, Publishing, LockConnections, Send, Erase, Unlock,
                        Join, Release
    <2>3. CASE AcceptingThread \/ AcceptFails \/ Disconnect
      BY <2>1, <2>3 DEF AcceptingThread, AcceptTest, Accept, Add, Sleep, CloseServer, Clear,
                        AcceptFails, Disconnect
    <2>4. ASSUME NEW s \in Subscribers, Subscriber(s)
          PROVE  UNCHANGED <<accepting, sending, stream>>
      BY <2>1, <2>4 DEF Subscriber, Connect, Reading, Read, ReadEnd, Stop, Leave
    <2>5. CASE UNCHANGED publisherVars
      BY <2>5 DEF publisherVars
    <2> QED
      BY <1>2, <2>2, <2>3, <2>4, <2>5 DEF Next
  <1>3. TypeOK /\ Alone /\ [Next]_publisherVars =>
            ((\E u \in Users : user[u] = "gone") => UNCHANGED <<accepting, sending, stream>>)
    BY <1>2
  <1> QED
    BY <1>1, <1>3, AloneNext, TypeCorrect, PTL DEF Spec, NoUseAfterDestroy
=============================================================================
