--------------------------- MODULE RpcSocketProofs ---------------------------
(* Theorems about a connection, for any requests, threads and buffer size.  *)
EXTENDS RpcSocket, SequenceTheorems, TLAPS

\* sending_lock_ is held by exactly the thread that the code is in; the socket
\* is closed by its receive thread only, after the last read.
LockOK ==
    /\ \A r \in Requests : user[r] = "sending" =>
           lock[EndOf[r]] = r /\ open[EndOf[r]]
    /\ \A c \in Closers : user[c] = "sending" => lock[EndOf[c]] = c
    /\ \A e \in Ends :
           /\ lock[e] = e <=> rx[e] \in {"sending", "replying", "shutting"}
           /\ open[e] <=> rx[e] \notin {"callback", "signal", "ended"}

\* What the receive thread has in hand is of the kind its place says.
HandOK ==
    \A e \in Ends :
        /\ rx[e] = "handling" => hand[e] # Closing
        /\ rx[e] \in {"responding", "sending"} =>
               hand[e].kind = "request" /\ hand[e].id \in Calls

IInv == TypeOK /\ LockOK /\ HandOK

LEMMA MessageFacts ==
  /\ Closing \in Message
  /\ \A m \in Message :
         /\ m.kind \in {"request", "response", "close"}
         /\ m.kind = "close" <=> m = Closing
         /\ m.kind # "close" => m.id \in Requests
  /\ \A r \in Requests : [kind |-> "request", id |-> r] \in Message
                         /\ [kind |-> "response", id |-> r] \in Message
  BY DEF Message, Closing

LEMMA EndFacts ==
  \A e \in Ends : Peer(e) \in Ends /\ Peer(e) # e /\ Peer(Peer(e)) = e
  BY EndsAssumption DEF Ends, Peer

\* A write adds a message to what is on its way to the peer, or nothing.
LEMMA WriteType ==
  ASSUME NEW e \in Ends, NEW m \in Message, wire \in [Ends -> Seq(Message)],
         Write(e, m)
  PROVE  wire' \in [Ends -> Seq(Message)]
  BY EndFacts, AppendProperties DEF Write

LEMMA IInvInit == Init => IInv
  BY MessageFacts, ThreadsAssumption
     DEF Init, IInv, TypeOK, LockOK, HandOK, Threads

LEMMA IInvNext == IInv /\ [Next]_vars => IInv'
  <1> SUFFICES ASSUME IInv, [Next]_vars PROVE IInv'
    OBVIOUS
  <1> USE EndsAssumption, ThreadsAssumption
      DEF IInv, TypeOK, LockOK, HandOK, Threads, Up, Acquire, Release,
          ends, channel, rxState, history
  <1>1. ASSUME NEW r \in Requests, Issue(r) PROVE IInv'
    BY <1>1 DEF Issue
  <1>2. ASSUME NEW r \in Requests, IssueOnClosed(r) PROVE IInv'
    BY <1>2 DEF IssueOnClosed
  <1>3. ASSUME NEW r \in Requests, WriteRequest(r) PROVE IInv'
    <2> DEFINE e == EndOf[r]
    <2>1. e \in Ends /\ lock[e] = r /\ r \in Threads
      BY <1>3 DEF WriteRequest
    <2>2. wire' \in [Ends -> Seq(Message)]
      <3>1. Write(e, [kind |-> "request", id |-> r])
        BY <1>3 DEF WriteRequest
      <3>2. [kind |-> "request", id |-> r] \in Message
        BY MessageFacts
      <3> QED
        BY <2>1, <3>1, <3>2, WriteType
    <2>3. written' \in [Ends -> Seq(Requests)]
      BY <1>3, <2>1, AppendProperties DEF WriteRequest
    <2>4. /\ lock' = [lock EXCEPT ![e] = NoThread]
          /\ \E s \in {"dropped", "returned"} : user' = [user EXCEPT ![r] = s]
          /\ UNCHANGED <<process, connected, open, reset, rx, hand, received, handled,
                         answered>>
      BY <1>3 DEF WriteRequest
    <2>5. TypeOK'
      BY <2>1, <2>2, <2>3, <2>4
    <2>6. LockOK' /\ HandOK'
      BY <2>1, <2>4
    <2> QED
      BY <2>5, <2>6
  <1>4. ASSUME NEW c \in Closers, CloseTest(c) PROVE IInv'
    BY <1>4 DEF CloseTest
  <1>5. ASSUME NEW c \in Closers, CloseLock(c) PROVE IInv'
    BY <1>5 DEF CloseLock
  <1>6. ASSUME NEW c \in Closers, CloseSend(c) PROVE IInv'
    <2> DEFINE e == EndOf[c]
    <2>1. e \in Ends /\ lock[e] = c /\ c \in Threads
      BY <1>6 DEF CloseSend
    <2>2. wire' \in [Ends -> Seq(Message)]
      BY <1>6, <2>1, WriteType, MessageFacts DEF CloseSend
    <2>3. /\ lock' = [lock EXCEPT ![e] = NoThread]
          /\ user' = [user EXCEPT ![c] = "waiting"]
          /\ UNCHANGED <<process, connected, open, reset, rx, hand, received, written,
                         handled, answered>>
      BY <1>6 DEF CloseSend
    <2>4. TypeOK'
      BY <2>1, <2>2, <2>3
    <2>5. LockOK' /\ HandOK'
      BY <2>1, <2>3
    <2> QED
      BY <2>4, <2>5
  <1>7. ASSUME NEW c \in Closers, CloseWait(c) PROVE IInv'
    BY <1>7 DEF CloseWait
  <1>8. ASSUME NEW e \in Ends, Receive(e) PROVE IInv'
    <2>1. /\ Head(wire[e]) \in Message
          /\ Tail(wire[e]) \in Seq(Message)
      BY <1>8, HeadTailProperties DEF Receive
    <2>2. /\ hand' = [hand EXCEPT ![e] = Head(wire[e])]
          /\ wire' = [wire EXCEPT ![e] = Tail(wire[e])]
          /\ rx[e] = "receiving"
          /\ rx' = [rx EXCEPT ![e] = IF Head(wire[e]).kind = "close" THEN "closing"
                                     ELSE "handling"]
          /\ UNCHANGED <<process, connected, open, lock, reset, user, received, written,
                         handled, answered>>
      BY <1>8 DEF Receive
    <2>3. TypeOK' /\ LockOK'
      BY <2>1, <2>2
    <2>4. HandOK'
      BY <2>1, <2>2, MessageFacts
    <2> QED
      BY <2>3, <2>4
  <1>9. ASSUME NEW e \in Ends, ReceiveEnd(e) PROVE IInv'
    BY <1>9 DEF ReceiveEnd
  <1>10. ASSUME NEW e \in Ends, Handle(e) PROVE IInv'
    <2>1. rx[e] = "handling" /\ hand[e] \in Message /\ hand[e] # Closing
      BY <1>10 DEF Handle
    <2>2. hand[e].id \in Requests
      BY <2>1, MessageFacts
    <2>3. handled' \in [Ends -> Seq(Requests)] /\ answered' \in SUBSET Requests
      <3>1. Append(handled[e], hand[e].id) \in Seq(Requests)
        BY <2>2, AppendProperties
      <3>2. /\ handled' = [handled EXCEPT ![e] = Append(handled[e], hand[e].id)]
                \/ handled' = handled
            /\ answered' = answered \cup {hand[e].id} \/ answered' = answered
        BY <1>10 DEF Handle
      <3>3. handled' \in [Ends -> Seq(Requests)]
        <4>1. CASE handled' = handled
          BY <4>1
        <4>2. CASE handled' = [handled EXCEPT ![e] = Append(handled[e], hand[e].id)]
          BY <3>1, <4>2
        <4> QED
          BY <3>2, <4>1, <4>2
      <3>4. answered' \in SUBSET Requests
        BY <2>2, <3>2
      <3> QED
        BY <3>3, <3>4
    <2>4. /\ rx' = [rx EXCEPT ![e] = IF hand[e].kind = "request" /\ hand[e].id \in Calls
                                     THEN "responding" ELSE "receiving"]
          /\ UNCHANGED <<process, connected, open, lock, wire, reset, hand, user,
                         received, written>>
      BY <1>10 DEF Handle
    <2> QED
      BY <2>1, <2>3, <2>4
  <1>11. ASSUME NEW e \in Ends, RespondLock(e) PROVE IInv'
    BY <1>11 DEF RespondLock
  <1>12. ASSUME NEW e \in Ends, RespondWrite(e) PROVE IInv'
    <2>1. rx[e] = "sending" /\ lock[e] = e /\ hand[e].id \in Requests
      BY <1>12 DEF RespondWrite
    <2>2. wire' \in [Ends -> Seq(Message)]
      <3>1. Write(e, [kind |-> "response", id |-> hand[e].id])
        BY <1>12 DEF RespondWrite
      <3>2. [kind |-> "response", id |-> hand[e].id] \in Message
        BY <2>1, MessageFacts
      <3> QED
        BY <3>1, <3>2, WriteType
    <2>3. /\ lock' = [lock EXCEPT ![e] = NoThread]
          /\ rx' = [rx EXCEPT ![e] = "receiving"]
          /\ UNCHANGED <<process, connected, open, reset, hand, user, received, written,
                         handled, answered>>
      BY <1>12 DEF RespondWrite
    <2>4. TypeOK'
      BY <2>2, <2>3
    <2>5. LockOK'
      BY <2>1, <2>3
    <2>6. HandOK'
      BY <2>3
    <2> QED
      BY <2>4, <2>5, <2>6
  <1>13. ASSUME NEW e \in Ends, ClosingLock(e) PROVE IInv'
    BY <1>13 DEF ClosingLock
  <1>14. ASSUME NEW e \in Ends, ClosingReply(e) PROVE IInv'
    <2>1. wire' \in [Ends -> Seq(Message)]
      BY <1>14, WriteType, MessageFacts DEF ClosingReply
    <2>2. /\ rx[e] = "replying" /\ rx' = [rx EXCEPT ![e] = "shutting"]
          /\ UNCHANGED <<process, connected, open, lock, reset, hand, user, received,
                         written, handled, answered>>
      BY <1>14 DEF ClosingReply
    <2> QED
      BY <2>1, <2>2
  <1>15. ASSUME NEW e \in Ends, ClosingShut(e) PROVE IInv'
    <2>1. /\ rx[e] = "shutting" /\ lock[e] = e
          /\ open' = [open EXCEPT ![e] = FALSE]
          /\ lock' = [lock EXCEPT ![e] = NoThread]
          /\ rx' = [rx EXCEPT ![e] = "callback"]
          /\ UNCHANGED <<process, connected, hand, user, received, written, handled,
                         answered>>
      BY <1>15 DEF ClosingShut
    <2>2. wire' \in [Ends -> Seq(Message)] /\ reset' \in [Ends -> BOOLEAN]
      BY <1>15, EmptySeq DEF ClosingShut
    <2>3. TypeOK'
      BY <2>1, <2>2
    <2>4. HandOK'
      BY <2>1
    <2>5. LockOK'
      BY <2>1
    <2> QED
      BY <2>3, <2>4, <2>5
  <1>16. ASSUME NEW e \in Ends, ClosingCallback(e) PROVE IInv'
    BY <1>16 DEF ClosingCallback
  <1>17. ASSUME NEW e \in Ends, Signal(e) PROVE IInv'
    <2>1. /\ rx[e] = "signal" /\ rx' = [rx EXCEPT ![e] = "ended"]
          /\ received' = [received EXCEPT ![e] = TRUE]
          /\ UNCHANGED <<process, connected, open, lock, wire, reset, hand, written,
                         handled, answered>>
      BY <1>17 DEF Signal
    <2>2. user' = user \/ \E c \in Closers : user' = [user EXCEPT ![c] = "waiting"]
      BY <1>17 DEF Signal
    <2>3. TypeOK'
      <3>1. user' \in [Requests \cup Closers -> {"idle", "sending", "locking", "waiting",
                                             "asleep", "returned", "dropped"}]
        <4>1. CASE user' = user
          BY <4>1
        <4>2. CASE \E c \in Closers : user' = [user EXCEPT ![c] = "waiting"]
          BY <4>2
        <4> QED
          BY <2>2, <4>1, <4>2
      <3> QED
        BY <2>1, <3>1
    <2>4. LockOK' /\ HandOK'
      BY <2>1, <2>2
    <2> QED
      BY <2>3, <2>4
  <1>18. ASSUME NEW e \in Ends, ReceiveReset(e) PROVE IInv'
    BY <1>18 DEF ReceiveReset
  <1>19. ASSUME NEW e \in Ends, Kill(e) PROVE IInv'
    <2>1. process' \in [Ends -> {"up", "killed", "aborted"}]
          /\ reset' \in [Ends -> BOOLEAN]
      BY <1>19 DEF Kill
    <2>2. UNCHANGED <<connected, open, lock, wire, rx, hand, user, received, written,
                      handled, answered>>
      BY <1>19 DEF Kill
    <2> QED
      BY <2>1, <2>2
  <1>20. CASE UNCHANGED vars
    BY <1>20 DEF vars
  <1> QED
    BY <1>1, <1>2, <1>3, <1>4, <1>5, <1>6, <1>7, <1>8, <1>9, <1>10, <1>11, <1>12,
       <1>13, <1>14, <1>15, <1>16, <1>17, <1>18, <1>19, <1>20
       DEF Next, UserSend, UserClose, ReceiveCycle, Idle, Stuck

\* The state keeps its type.
THEOREM TypeCorrect == Spec => []TypeOK
  <1>1. IInv => TypeOK
    BY DEF IInv
  <1> QED
    BY <1>1, IInvInit, IInvNext, PTL DEF Spec

\* No thread writes without the lock, or on a socket that has been closed.
THEOREM WritersAlwaysOwn == Spec => []WritersOwnOpenSocket
  <1>1. IInv => WritersOwnOpenSocket
    BY DEF IInv, LockOK, TypeOK, WritersOwnOpenSocket
  <1> QED
    BY <1>1, IInvInit, IInvNext, PTL DEF Spec

-----------------------------------------------------------------------------
(* What is on its way to an end.  The requests that an end wrote before it   *)
(* began to close, w, are those that its peer has taken, the first n, and    *)
(* the ones in front of the first closing message in the buffers, q, in this *)
(* order.                                                                    *)

Req(r)  == [kind |-> "request", id |-> r]
Resp(r) == [kind |-> "response", id |-> r]

HasClose(q)   == \E i \in 1..Len(q) : q[i] = Closing
Ahead(q, i)   == \A j \in 1..i : q[j] # Closing

Flow(w, n, q) ==
    /\ n <= Len(w)
    /\ \A k, l \in 1..Len(w) : w[k] = w[l] => k = l
    /\ \A k \in (n + 1)..Len(w) : \E i \in 1..Len(q) : q[i] = Req(w[k]) /\ Ahead(q, i)
    /\ \A i \in 1..Len(q) : q[i].kind = "request" /\ Ahead(q, i) =>
           \E k \in (n + 1)..Len(w) : q[i].id = w[k]
    /\ \A i, j \in 1..Len(q) : \A k, l \in (n + 1)..Len(w) :
           i < j /\ Ahead(q, j) /\ q[i] = Req(w[k]) /\ q[j] = Req(w[l]) => k < l

\* The receive thread is not yet on its way out.
Reading == {"receiving", "handling", "responding", "sending"}

\* How many requests an end has taken from its buffer.
Taken(e) == IF rx[e] = "handling" /\ hand[e].kind = "request"
            THEN Len(handled[e]) + 1 ELSE Len(handled[e])

\* The requests to end e: what its callbacks saw is the beginning of what was
\* written, and all of it once e stops reading, when nothing more is written.
DirectionOK(e) ==
    LET w == written[Peer(e)]  h == handled[e] IN
    /\ Len(h) <= Len(w) /\ \A k \in 1..Len(h) : h[k] = w[k]
    /\ Taken(e) = Len(h) + 1 => Len(h) < Len(w) /\ hand[e].id = w[Len(h) + 1]
    /\ rx[e] \in Reading => Flow(w, Taken(e), wire[e])
    /\ rx[e] \notin Reading => h = w /\ (~connected[Peer(e)] \/ Gone(Peer(e)))
    /\ \A k \in 1..Len(w) : EndOf[w[k]] = Peer(e) /\ user[w[k]] = "returned"

\* A closing message is on its way, or being written, when the peer of an end
\* that reads has closed but not shut its socket.
ClosingOK(e) ==
    /\ HasClose(wire[e]) => ~connected[Peer(e)]
    /\ ~connected[Peer(e)] /\ open[Peer(e)] /\ rx[e] \in Reading /\ Up(e) =>
           \/ HasClose(wire[e]) \/ rx[Peer(e)] = "replying"
           \/ \E c \in Closers : EndOf[c] = Peer(e) /\ user[c] = "sending"
    /\ rx[e] \in {"shutting", "replying"} => ~connected[e]
    /\ \A c \in Closers : EndOf[c] = e /\ user[c] = "sending" => ~connected[e]

FlowInv == \A e \in Ends : DirectionOK(e) /\ ClosingOK(e)

\* Only the caller's end closes: no thread of its peer has found it connected.
CallerCloses(e) ==
    /\ \A x \in Ends : Up(x)
    /\ \A c \in Closers : EndOf[c] = Peer(e) => user[c] \in {"idle", "dropped"}

\* The receive thread writes no more, nor lets anybody write.
Past == {"shutting", "callback", "signal", "ended"}

NothingBehind(q) == \A i \in 1..Len(q) : q[i] = Closing => i = Len(q)

Handled(e, r) == \E k \in 1..Len(handled[e]) : handled[e][k] = r

\* The call r, handled at the other end, is answered, or its response is on the way.
Answering(e, r) ==
    \/ rx[Peer(e)] \in {"responding", "sending"} /\ hand[Peer(e)].id = r
    \/ \E i \in 1..Len(wire[e]) : wire[e][i] = Resp(r)
    \/ rx[e] = "handling" /\ hand[e] = Resp(r)
    \/ r \in answered

\* The closing message is the last thing that the answering end writes, and the
\* caller reads to it.
AnswerOK(e) ==
    CallerCloses(e) =>
        /\ HasClose(wire[e]) => rx[Peer(e)] \in Past /\ NothingBehind(wire[e])
        /\ rx[e] \notin Reading => rx[Peer(e)] \in Past /\ wire[e] = <<>>
        /\ \A r \in Calls : Handled(Peer(e), r) => Answering(e, r)

AnswerInv == \A e \in Ends : AnswerOK(e)

-----------------------------------------------------------------------------
LEMMA AppendFacts ==
  ASSUME NEW S, NEW q \in Seq(S), NEW m \in S
  PROVE  /\ Append(q, m) \in Seq(S) /\ Len(q) \in Nat /\ Len(Append(q, m)) = Len(q) + 1
         /\ Append(q, m)[Len(q) + 1] = m
         /\ \A i \in 1..Len(q) : Append(q, m)[i] = q[i]
  BY AppendProperties

LEMMA TailFacts ==
  ASSUME NEW S, NEW q \in Seq(S), q # <<>>
  PROVE  /\ Head(q) = q[1] /\ q[1] \in S /\ Tail(q) \in Seq(S)
         /\ Len(q) \in Nat /\ Len(q) >= 1 /\ Len(Tail(q)) = Len(q) - 1
         /\ \A i \in 1..Len(Tail(q)) : Tail(q)[i] = q[i + 1]
  BY HeadTailProperties, EmptySeq

\* What is ahead of the first closing message when one message is added or taken.
LEMMA AheadAppend ==
  ASSUME NEW q \in Seq(Message), NEW m \in Message
  PROVE  /\ \A i \in 1..Len(q) : Ahead(Append(q, m), i) <=> Ahead(q, i)
         /\ Ahead(Append(q, m), Len(q) + 1) <=> ~HasClose(q) /\ m # Closing
  BY AppendFacts DEF Ahead, HasClose

LEMMA AheadTail ==
  ASSUME NEW q \in Seq(Message), q # <<>>, Head(q) # Closing
  PROVE  \A i \in 1..Len(Tail(q)) : Ahead(Tail(q), i) <=> Ahead(q, i + 1)
  <1> DEFINE t == Tail(q)
  <1>1. /\ Len(q) \in Nat /\ Len(t) = Len(q) - 1 /\ q[1] # Closing
        /\ \A i \in 1..Len(t) : t[i] = q[i + 1]
    BY TailFacts
  <1> HIDE DEF t
  <1>2. ASSUME NEW i \in 1..Len(t), Ahead(t, i), NEW j \in 1..(i + 1)
        PROVE  q[j] # Closing
    <2>1. CASE j = 1
      BY <2>1, <1>1
    <2>2. CASE j # 1
      <3>1. j - 1 \in 1..i /\ j - 1 \in 1..Len(t) /\ (j - 1) + 1 = j
        BY <1>1, <2>2
      <3>2. t[j - 1] = q[j] /\ t[j - 1] # Closing
        BY <1>1, <1>2, <3>1 DEF Ahead
      <3> QED
        BY <3>2
    <2> QED
      BY <2>1, <2>2
  <1>3. ASSUME NEW i \in 1..Len(t), Ahead(q, i + 1), NEW j \in 1..i
        PROVE  t[j] # Closing
    <2>1. j + 1 \in 1..(i + 1) /\ j \in 1..Len(t)
      BY <1>1
    <2> QED
      BY <1>1, <1>3, <2>1 DEF Ahead
  <1> QED
    BY <1>2, <1>3 DEF Ahead, t

LEMMA ReqFacts ==
  /\ \A r \in Requests : Req(r) \in Message /\ Req(r) # Closing /\ Resp(r) \in Message
                         /\ Resp(r) # Closing /\ Req(r).kind = "request" /\ Req(r).id = r
                         /\ Resp(r).kind = "response" /\ Resp(r).id = r
  /\ \A m \in Message : m.kind = "request" => m = Req(m.id) /\ m.id \in Requests
  /\ Closing \in Message /\ Closing.kind = "close"
  BY DEF Req, Resp, Message, Closing

\* A request is written while the end is connected.
LEMMA FlowRequest ==
  ASSUME NEW w \in Seq(Requests), NEW n \in Nat, NEW q \in Seq(Message),
         NEW r \in Requests, Flow(w, n, q), ~HasClose(q),
         \A k \in 1..Len(w) : w[k] # r
  PROVE  Flow(Append(w, r), n, Append(q, Req(r)))
  <1> DEFINE v == Append(w, r)
             p == Append(q, Req(r))
  <1>1. /\ Len(w) \in Nat /\ Len(v) = Len(w) + 1 /\ v[Len(w) + 1] = r
        /\ \A k \in 1..Len(w) : v[k] = w[k] /\ w[k] \in Requests
    BY AppendFacts, ElementOfSeq
  <1>2. /\ Len(q) \in Nat /\ Len(p) = Len(q) + 1 /\ p[Len(q) + 1] = Req(r)
        /\ \A i \in 1..Len(q) : p[i] = q[i] /\ q[i] \in Message
    BY AppendFacts, ReqFacts, ElementOfSeq
  <1>3. /\ \A i \in 1..Len(q) : Ahead(p, i) <=> Ahead(q, i)
        /\ Ahead(p, Len(q) + 1)
    BY AheadAppend, ReqFacts
  <1>4. n <= Len(w)
    BY DEF Flow
  <1> HIDE DEF v, p
  <1>5. \A k, l \in 1..Len(v) : v[k] = v[l] => k = l
    BY <1>1 DEF Flow
  <1>6. ASSUME NEW k \in (n + 1)..Len(v)
        PROVE  \E i \in 1..Len(p) : p[i] = Req(v[k]) /\ Ahead(p, i)
    <2>1. CASE k = Len(w) + 1
      BY <2>1, <1>1, <1>2, <1>3
    <2>2. CASE k \in (n + 1)..Len(w)
      <3>1. PICK i \in 1..Len(q) : q[i] = Req(w[k]) /\ Ahead(q, i)
        BY <2>2 DEF Flow
      <3> QED
        BY <3>1, <2>2, <1>1, <1>2, <1>3
    <2> QED
      BY <2>1, <2>2, <1>1, <1>4
  <1>7. ASSUME NEW i \in 1..Len(p), p[i].kind = "request", Ahead(p, i)
        PROVE  \E k \in (n + 1)..Len(v) : p[i].id = v[k]
    <2>1. CASE i = Len(q) + 1
      BY <2>1, <1>1, <1>2, <1>4, ReqFacts
    <2>2. CASE i \in 1..Len(q)
      <3>1. PICK k \in (n + 1)..Len(w) : q[i].id = w[k]
        BY <1>2, <1>3, <1>7, <2>2 DEF Flow
      <3> QED
        BY <3>1, <2>2, <1>1, <1>2
    <2> QED
      BY <2>1, <2>2, <1>2
  <1>8. ASSUME NEW i \in 1..Len(p), NEW j \in 1..Len(p),
               NEW k \in (n + 1)..Len(v), NEW l \in (n + 1)..Len(v),
               i < j, Ahead(p, j), p[i] = Req(v[k]), p[j] = Req(v[l])
        PROVE  k < l
    <2>1. i \in 1..Len(q) /\ p[i] = q[i] /\ Ahead(p, i)
      BY <1>2, <1>8 DEF Ahead
    <2>2. v[k] \in Requests /\ v[l] \in Requests
      BY <1>1
    <2>3. PICK o \in (n + 1)..Len(w) : q[i].id = w[o]
      <3>1. q[i].kind = "request" /\ Ahead(q, i)
        BY <2>1, <2>2, <1>3, <1>8, ReqFacts
      <3> QED
        BY <2>1, <3>1 DEF Flow
    <2>4. k = o
      <3>1. v[k] = v[o] /\ k \in 1..Len(v) /\ o \in 1..Len(v)
        BY <2>1, <2>2, <2>3, <1>1, <1>4, <1>8, ReqFacts
      <3> QED
        BY <3>1, <1>5
    <2>5. CASE l = Len(w) + 1
      BY <2>3, <2>4, <2>5, <1>1
    <2>6. CASE l \in (n + 1)..Len(w)
      <3>1. v[l] # r /\ v[l] = w[l]
        BY <2>6, <1>1, <1>4
      <3>2. j \in 1..Len(q) /\ p[j] = q[j]
        <4>1. Req(v[l]) # Req(r)
          <5>1. Req(v[l]).id = v[l] /\ Req(r).id = r
            BY <2>2, ReqFacts
          <5> QED
            BY <5>1, <3>1
        <4> QED
          <5>1. j # Len(q) + 1
            BY <4>1, <1>2, <1>8
          <5> QED
            BY <5>1, <1>2
      <3>3. Ahead(q, j) /\ q[j] = Req(w[l])
        BY <3>1, <3>2, <1>3, <1>8
      <3>4. k \in (n + 1)..Len(w) /\ q[i] = Req(w[k])
        <4>1. k \in (n + 1)..Len(w) /\ k \in 1..Len(w)
          BY <2>3, <2>4, <1>1, <1>4
        <4> QED
          BY <4>1, <2>1, <1>1, <1>8
      <3>5. i \in 1..Len(q) /\ j \in 1..Len(q) /\ i < j /\ l \in (n + 1)..Len(w)
        BY <2>1, <2>6, <3>2, <1>8
      <3> QED
        BY <3>3, <3>4, <3>5 DEF Flow
    <2> QED
      <3>1. Len(w) \in Nat /\ l \in (n + 1)..(Len(w) + 1)
        BY <1>1, <1>8
      <3>2. l = Len(w) + 1 \/ l \in (n + 1)..Len(w)
        BY <3>1
      <3> QED
        BY <2>5, <2>6, <3>2
  <1> QED
    <2>1. n <= Len(v)
      BY <1>1, <1>4
    <2> QED
      BY <2>1, <1>5, <1>6, <1>7, <1>8 DEF Flow, v, p

\* Another message, or anything behind a closing message, does not matter.
LEMMA FlowOther ==
  ASSUME NEW w \in Seq(Requests), NEW n \in Nat, NEW q \in Seq(Message),
         NEW m \in Message, Flow(w, n, q), m.kind # "request" \/ HasClose(q)
  PROVE  Flow(w, n, Append(q, m))
  <1> DEFINE p == Append(q, m)
  <1>1. /\ Len(q) \in Nat /\ Len(p) = Len(q) + 1 /\ p[Len(q) + 1] = m
        /\ \A i \in 1..Len(q) : p[i] = q[i]
        /\ Len(w) \in Nat /\ \A k \in 1..Len(w) : w[k] \in Requests
    BY AppendFacts, ElementOfSeq
  <1>2. /\ \A i \in 1..Len(q) : Ahead(p, i) <=> Ahead(q, i)
        /\ Ahead(p, Len(q) + 1) => m.kind # "request"
    BY AheadAppend
  <1> HIDE DEF p
  <1>3. \A k \in (n + 1)..Len(w) : \E i \in 1..Len(p) : p[i] = Req(w[k]) /\ Ahead(p, i)
    BY <1>1, <1>2 DEF Flow
  <1>4. \A i \in 1..Len(p) : p[i].kind = "request" /\ Ahead(p, i) =>
            \E k \in (n + 1)..Len(w) : p[i].id = w[k]
    <2> SUFFICES ASSUME NEW i \in 1..Len(p), p[i].kind = "request", Ahead(p, i)
                 PROVE  \E k \in (n + 1)..Len(w) : p[i].id = w[k]
      OBVIOUS
    <2>1. i # Len(q) + 1
      BY <1>1, <1>2
    <2>2. i \in 1..Len(q) /\ p[i] = q[i] /\ Ahead(q, i)
      BY <2>1, <1>1, <1>2
    <2> QED
      BY <2>2 DEF Flow
  <1>5. ASSUME NEW i \in 1..Len(p), NEW j \in 1..Len(p),
               NEW k \in (n + 1)..Len(w), NEW l \in (n + 1)..Len(w),
               i < j, Ahead(p, j), p[i] = Req(w[k]), p[j] = Req(w[l])
        PROVE  k < l
    <2>1. j # Len(q) + 1
      BY <1>1, <1>2, <1>5, ReqFacts
    <2>2. i \in 1..Len(q) /\ j \in 1..Len(q)
      BY <2>1, <1>1, <1>5
    <2> QED
      BY <2>2, <1>1, <1>2, <1>5 DEF Flow
  <1> QED
    BY <1>3, <1>4, <1>5 DEF Flow, p

\* The next message is a request: it is the next one that was written.
LEMMA FlowTakeRequest ==
  ASSUME NEW w \in Seq(Requests), NEW n \in Nat, NEW q \in Seq(Message),
         Flow(w, n, q), q # <<>>, Head(q).kind = "request"
  PROVE  /\ n < Len(w) /\ Head(q).id = w[n + 1]
         /\ Flow(w, n + 1, Tail(q))
  <1> DEFINE t == Tail(q)
  <1>1. /\ Head(q) = q[1] /\ q[1] \in Message /\ Len(q) \in Nat /\ Len(q) >= 1
        /\ Len(t) = Len(q) - 1
        /\ \A i \in 1..Len(t) : t[i] = q[i + 1]
        /\ Len(w) \in Nat /\ \A k \in 1..Len(w) : w[k] \in Requests
    BY TailFacts, ElementOfSeq
  <1>2. q[1] # Closing /\ \A i \in 1..Len(t) : Ahead(t, i) <=> Ahead(q, i + 1)
    BY <1>1, AheadTail, ReqFacts
  <1> HIDE DEF t
  <1>3. Ahead(q, 1) /\ q[1] = Req(q[1].id)
    BY <1>1, <1>2, ReqFacts DEF Ahead
  <1>4. PICK k \in (n + 1)..Len(w) : q[1].id = w[k]
    BY <1>1, <1>3 DEF Flow
  <1>5. PICK i \in 1..Len(q) : q[i] = Req(w[n + 1]) /\ Ahead(q, i)
    BY <1>1, <1>4 DEF Flow
  <1>6. k = n + 1
    <2>1. CASE i = 1
      <3>1. w[n + 1] = w[k] /\ n + 1 \in 1..Len(w) /\ k \in 1..Len(w)
        BY <2>1, <1>1, <1>3, <1>4, <1>5, ReqFacts
      <3> QED
        BY <3>1 DEF Flow
    <2>2. CASE i # 1
      <3>1. 1 < i /\ 1 \in 1..Len(q) /\ n + 1 \in (n + 1)..Len(w) /\ q[1] = Req(w[k])
        BY <2>2, <1>1, <1>3, <1>4
      <3>2. k < n + 1
        BY <3>1, <1>5 DEF Flow
      <3> QED
        BY <3>2, <1>4
    <2> QED
      BY <2>1, <2>2
  <1>7. n < Len(w) /\ q[1] = Req(w[n + 1])
    BY <1>1, <1>3, <1>4, <1>6
  <1>8. ASSUME NEW l \in (n + 2)..Len(w)
        PROVE  \E j \in 1..Len(t) : t[j] = Req(w[l]) /\ Ahead(t, j)
    <2>1. l \in (n + 1)..Len(w) /\ l \in 1..Len(w) /\ n + 1 \in 1..Len(w) /\ l # n + 1
      BY <1>1, <1>7
    <2>2. PICK j \in 1..Len(q) : q[j] = Req(w[l]) /\ Ahead(q, j)
      BY <2>1 DEF Flow
    <2>3. j # 1
      <3>1. w[l] # w[n + 1]
        BY <2>1 DEF Flow
      <3> QED
        BY <3>1, <2>1, <2>2, <1>1, <1>7, ReqFacts
    <2>4. j - 1 \in 1..Len(t) /\ (j - 1) + 1 = j
      BY <2>3, <1>1
    <2> QED
      BY <2>2, <2>4, <1>1, <1>2
  <1>9. ASSUME NEW j \in 1..Len(t), t[j].kind = "request", Ahead(t, j)
        PROVE  \E l \in (n + 2)..Len(w) : t[j].id = w[l]
    <2>1. j + 1 \in 1..Len(q) /\ t[j] = q[j + 1] /\ Ahead(q, j + 1)
      BY <1>1, <1>2, <1>9
    <2>2. PICK l \in (n + 1)..Len(w) : q[j + 1].id = w[l]
      BY <2>1, <1>9 DEF Flow
    <2>3. q[j + 1] = Req(w[l])
      <3>1. q[j + 1] \in Message
        BY <2>1, ElementOfSeq
      <3> QED
        BY <3>1, <2>1, <2>2, <1>9, ReqFacts
    <2>4. n + 1 < l
      <3>1. 1 < j + 1 /\ 1 \in 1..Len(q) /\ n + 1 \in (n + 1)..Len(w)
        BY <1>1, <1>7
      <3> QED
        BY <3>1, <2>1, <2>2, <2>3, <1>7 DEF Flow
    <2> QED
      BY <2>1, <2>2, <2>4
  <1>10. ASSUME NEW i2 \in 1..Len(t), NEW j2 \in 1..Len(t),
                NEW k2 \in (n + 2)..Len(w), NEW l2 \in (n + 2)..Len(w),
                i2 < j2, Ahead(t, j2), t[i2] = Req(w[k2]), t[j2] = Req(w[l2])
         PROVE  k2 < l2
    <2>1. /\ i2 + 1 \in 1..Len(q) /\ j2 + 1 \in 1..Len(q) /\ i2 + 1 < j2 + 1
          /\ k2 \in (n + 1)..Len(w) /\ l2 \in (n + 1)..Len(w)
      BY <1>1, <1>10
    <2>2. Ahead(q, j2 + 1) /\ q[i2 + 1] = Req(w[k2]) /\ q[j2 + 1] = Req(w[l2])
      BY <1>1, <1>2, <1>10
    <2> QED
      BY <2>1, <2>2 DEF Flow
  <1>11. Flow(w, n + 1, t)
    <2>1. n + 1 <= Len(w) /\ (n + 1) + 1 = n + 2
      BY <1>1, <1>7
    <2> QED
      BY <2>1, <1>8, <1>9, <1>10 DEF Flow
  <1> QED
    BY <1>1, <1>4, <1>6, <1>7, <1>11 DEF t

\* The next message is a response.
LEMMA FlowTakeResponse ==
  ASSUME NEW w \in Seq(Requests), NEW n \in Nat, NEW q \in Seq(Message),
         Flow(w, n, q), q # <<>>, Head(q).kind = "response"
  PROVE  Flow(w, n, Tail(q))
  <1> DEFINE t == Tail(q)
  <1>1. /\ Head(q) = q[1] /\ q[1] \in Message /\ Len(q) \in Nat /\ Len(q) >= 1
        /\ Len(t) = Len(q) - 1
        /\ \A i \in 1..Len(t) : t[i] = q[i + 1]
        /\ Len(w) \in Nat /\ \A k \in 1..Len(w) : w[k] \in Requests
    BY TailFacts, ElementOfSeq
  <1>2. /\ \A i \in 1..Len(t) : Ahead(t, i) <=> Ahead(q, i + 1)
        /\ \A r \in Requests : q[1] # Req(r)
    BY <1>1, AheadTail, ReqFacts
  <1> HIDE DEF t
  <1>3. ASSUME NEW k \in (n + 1)..Len(w)
        PROVE  \E j \in 1..Len(t) : t[j] = Req(w[k]) /\ Ahead(t, j)
    <2>1. PICK j \in 1..Len(q) : q[j] = Req(w[k]) /\ Ahead(q, j)
      BY DEF Flow
    <2>2. j - 1 \in 1..Len(t) /\ (j - 1) + 1 = j
      <3>1. w[k] \in Requests
        BY <1>1
      <3> QED
        BY <3>1, <2>1, <1>1, <1>2
    <2> QED
      BY <2>1, <2>2, <1>1, <1>2
  <1>4. ASSUME NEW j \in 1..Len(t), t[j].kind = "request", Ahead(t, j)
        PROVE  \E k \in (n + 1)..Len(w) : t[j].id = w[k]
    <2>1. j + 1 \in 1..Len(q) /\ t[j] = q[j + 1] /\ Ahead(q, j + 1)
      BY <1>1, <1>2, <1>4
    <2> QED
      BY <2>1, <1>4 DEF Flow
  <1>5. ASSUME NEW i \in 1..Len(t), NEW j \in 1..Len(t),
               NEW k \in (n + 1)..Len(w), NEW l \in (n + 1)..Len(w),
               i < j, Ahead(t, j), t[i] = Req(w[k]), t[j] = Req(w[l])
        PROVE  k < l
    <2>1. i + 1 \in 1..Len(q) /\ j + 1 \in 1..Len(q) /\ i + 1 < j + 1
      BY <1>1, <1>5
    <2>2. Ahead(q, j + 1) /\ q[i + 1] = Req(w[k]) /\ q[j + 1] = Req(w[l])
      BY <1>1, <1>2, <1>5
    <2> QED
      BY <2>1, <2>2 DEF Flow
  <1> QED
    BY <1>3, <1>4, <1>5 DEF Flow, t

\* Nothing is left in front of a closing message that comes next, or in a
\* buffer that is empty.
LEMMA FlowEnd ==
  ASSUME NEW w \in Seq(Requests), NEW n \in Nat, NEW q \in Seq(Message),
         Flow(w, n, q), q = <<>> \/ Head(q) = Closing
  PROVE  n = Len(w)
  <1>1. Len(w) \in Nat /\ n <= Len(w)
    BY DEF Flow
  <1>2. \A i \in 1..Len(q) : ~Ahead(q, i)
    <2>1. CASE q = <<>>
      BY <2>1
    <2>2. CASE q # <<>>
      BY <2>2, TailFacts DEF Ahead
    <2> QED
      BY <2>1, <2>2
  <1>3. \A k \in (n + 1)..Len(w) : FALSE
    BY <1>2 DEF Flow
  <1> QED
    BY <1>1, <1>3

-----------------------------------------------------------------------------
LEMMA FlowInit == Init => FlowInv
  <1> SUFFICES ASSUME Init, NEW e \in Ends PROVE DirectionOK(e) /\ ClosingOK(e)
    BY DEF FlowInv
  <1>1. /\ written[Peer(e)] = <<>> /\ handled[e] = <<>> /\ wire[e] = <<>>
        /\ rx[e] = "receiving" /\ connected[Peer(e)]
        /\ \A c \in Closers : user[c] # "sending"
    BY EndFacts DEF Init
  <1>2. Flow(<<>>, 0, <<>>) /\ ~HasClose(<<>>) /\ Len(<<>>) = 0
    BY DEF Flow, HasClose
  <1>3. Taken(e) = 0
    BY <1>1, <1>2 DEF Taken
  <1> QED
    BY <1>1, <1>2, <1>3 DEF DirectionOK, ClosingOK, Reading

\* An end that is closed, dead or no longer connected stays so; a request that
\* has returned to its user is not sent again.
Onward ==
    /\ \A f \in Ends : /\ connected'[f] => connected[f]
                       /\ Gone(f) => Gone(f)'
                       /\ Up(f)' => Up(f)
                       /\ open'[f] => open[f]
    /\ \A r \in Requests : user[r] = "returned" => user'[r] = "returned"

LEMMA OnwardNext == IInv /\ Next => Onward
  <1> SUFFICES ASSUME TypeOK, Next PROVE Onward
    BY DEF IInv
  <1> USE ThreadsAssumption DEF TypeOK, Onward, Gone, Up, ends
  <1>1. ASSUME NEW r \in Requests, Issue(r) PROVE Onward
    BY <1>1 DEF Issue
  <1>2. ASSUME NEW r \in Requests, IssueOnClosed(r) PROVE Onward
    BY <1>2 DEF IssueOnClosed
  <1>3. ASSUME NEW r \in Requests, WriteRequest(r) PROVE Onward
    BY <1>3 DEF WriteRequest
  <1>4. ASSUME NEW c \in Closers, CloseTest(c) PROVE Onward
    BY <1>4 DEF CloseTest
  <1>5. ASSUME NEW c \in Closers, CloseLock(c) PROVE Onward
    BY <1>5 DEF CloseLock
  <1>6. ASSUME NEW c \in Closers, CloseSend(c) PROVE Onward
    BY <1>6 DEF CloseSend
  <1>7. ASSUME NEW c \in Closers, CloseWait(c) PROVE Onward
    BY <1>7 DEF CloseWait
  <1>8. ASSUME NEW e \in Ends,
               \/ Receive(e) \/ ReceiveEnd(e) \/ Handle(e) \/ RespondLock(e)
               \/ RespondWrite(e) \/ ClosingReply(e) \/ ClosingCallback(e)
        PROVE  Onward
    <2>1. UNCHANGED <<process, connected, open, user>>
      BY <1>8 DEF Receive, ReceiveEnd, Handle, RespondLock, RespondWrite, ClosingReply,
         ClosingCallback
    <2> QED
      BY <2>1
  <1>9. ASSUME NEW e \in Ends, ClosingLock(e) PROVE Onward
    BY <1>9 DEF ClosingLock
  <1>10. ASSUME NEW e \in Ends, ClosingShut(e) PROVE Onward
    BY <1>10 DEF ClosingShut
  <1>11. ASSUME NEW e \in Ends, Signal(e) PROVE Onward
    <2>1. \A r \in Requests : user'[r] = user[r]
      BY <1>11 DEF Signal
    <2> QED
      BY <1>11, <2>1 DEF Signal
  <1>12. ASSUME NEW e \in Ends, ReceiveReset(e) PROVE Onward
    BY <1>12 DEF ReceiveReset
  <1>13. ASSUME NEW e \in Ends, Kill(e) PROVE Onward
    BY <1>13 DEF Kill
  <1>14. CASE UNCHANGED vars
    BY <1>14 DEF vars
  <1> QED
    BY <1>1, <1>2, <1>3, <1>4, <1>5, <1>6, <1>7, <1>8, <1>9, <1>10, <1>11, <1>12,
       <1>13, <1>14 DEF Next, UserSend, UserClose, ReceiveCycle, Idle, Stuck

\* A step that the direction to e does not see.
Unseen(e) ==
    /\ written'[Peer(e)] = written[Peer(e)] /\ handled'[e] = handled[e]
    /\ hand'[e] = hand[e]
    /\ rx'[e] = "handling" <=> rx[e] = "handling"
    /\ rx'[e] \in Reading <=> rx[e] \in Reading
Quiet(e) == Unseen(e) /\ (rx[e] \in Reading => wire'[e] = wire[e])

\* A step of its peer that writes something else than a request.
OtherWrite(e) ==
    Unseen(e) /\ \E m \in Message : m.kind # "request" /\ Write(Peer(e), m)

\* The steps of a connection, as the direction to e sees them.
LEMMA DirectionSteps ==
  ASSUME IInv, Next, NEW e \in Ends
  PROVE  \/ Quiet(e) \/ OtherWrite(e)
         \/ \E r \in Requests : EndOf[r] = Peer(e) /\ WriteRequest(r)
         \/ Receive(e) \/ ReceiveEnd(e) \/ Handle(e)
  <1> DEFINE G == Quiet(e) \/ OtherWrite(e)
  <1>0. /\ Peer(e) \in Ends /\ Peer(e) # e /\ Peer(Peer(e)) = e
        /\ \A f \in Ends : f = e \/ f = Peer(e)
        /\ \A u \in Requests \cup Closers : EndOf[u] \in Ends
    BY EndFacts, EndsAssumption, ThreadsAssumption DEF Ends
  <1>1. /\ rx \in [Ends -> {"receiving", "handling", "responding", "sending", "closing",
                            "replying", "shutting", "callback", "signal", "ended"}]
        /\ wire \in [Ends -> Seq(Message)] /\ hand \in [Ends -> Message]
        /\ written \in [Ends -> Seq(Requests)] /\ handled \in [Ends -> Seq(Requests)]
    BY DEF IInv, TypeOK
  <1> USE <1>0, <1>1 DEF Quiet, Unseen, Reading
  <1>2. CASE UNCHANGED <<rx, hand, wire, written, handled>>
    BY <1>2
  <1>3. ASSUME NEW r \in Requests, Issue(r) \/ IssueOnClosed(r) PROVE G
    BY <1>2, <1>3 DEF Issue, IssueOnClosed, channel, rxState, history
  <1>4. ASSUME NEW r \in Requests, WriteRequest(r), EndOf[r] = e PROVE G
    <2>1. UNCHANGED <<rx, hand, handled>>
      BY <1>4 DEF WriteRequest, rxState
    <2>2. written'[Peer(e)] = written[Peer(e)] /\ wire'[e] = wire[e]
      BY <1>4 DEF WriteRequest, Write
    <2> QED
      BY <2>1, <2>2
  <1>5. ASSUME NEW c \in Closers, CloseTest(c) \/ CloseLock(c) \/ CloseWait(c) PROVE G
    BY <1>2, <1>5 DEF CloseTest, CloseLock, CloseWait, channel, rxState, history
  <1>6. ASSUME NEW c \in Closers, CloseSend(c) PROVE G
    <2>1. UNCHANGED <<rx, hand, handled, written>>
      BY <1>6 DEF CloseSend, rxState, history
    <2>2. CASE wire' = wire
      BY <2>1, <2>2
    <2>3. CASE Write(EndOf[c], Closing) /\ EndOf[c] = e
      BY <2>1, <2>3 DEF Write
    <2>4. CASE Write(EndOf[c], Closing) /\ EndOf[c] = Peer(e)
      BY <2>1, <2>4, ReqFacts DEF OtherWrite
    <2> QED
      BY <1>6, <2>2, <2>3, <2>4 DEF CloseSend
  <1>7. ASSUME NEW f \in Ends, f = Peer(e), Receive(f) PROVE G
    BY <1>7 DEF Receive, history
  <1>8. ASSUME NEW f \in Ends, f = Peer(e), ReceiveEnd(f) PROVE G
    BY <1>8 DEF ReceiveEnd, channel, history
  <1>9. ASSUME NEW f \in Ends, f = Peer(e), Handle(f) PROVE G
    BY <1>9 DEF Handle, channel, history
  <1>10. ASSUME NEW f \in Ends, RespondLock(f) PROVE G
    BY <1>10 DEF RespondLock, channel, history
  <1>11. ASSUME NEW f \in Ends, RespondWrite(f) PROVE G
    <2>1. /\ UNCHANGED <<hand, handled, written>> /\ rx[f] = "sending"
          /\ rx' = [rx EXCEPT ![f] = "receiving"]
          /\ Write(f, Resp(hand[f].id))
      BY <1>11 DEF RespondWrite, history, Resp
    <2>2. Unseen(e)
      BY <2>1
    <2>3. Resp(hand[f].id) \in Message /\ Resp(hand[f].id).kind # "request"
      BY <2>1, ReqFacts, MessageFacts DEF IInv, HandOK
    <2>4. CASE f = e
      BY <2>1, <2>2, <2>4 DEF Write
    <2>5. CASE f = Peer(e)
      BY <2>1, <2>2, <2>3, <2>5 DEF OtherWrite
    <2> QED
      BY <2>4, <2>5
  <1>12. ASSUME NEW f \in Ends, ClosingLock(f) \/ ClosingCallback(f) \/ Signal(f) PROVE G
    <2>1. UNCHANGED <<hand, wire, written, handled>>
      BY <1>12 DEF ClosingLock, ClosingCallback, Signal, channel, history
    <2>2. \E s \in {"replying", "shutting", "signal", "ended"} :
             rx' = [rx EXCEPT ![f] = s] /\ rx[f] \in {"closing", "callback", "signal"}
      BY <1>12 DEF ClosingLock, ClosingCallback, Signal
    <2> QED
      BY <2>1, <2>2
  <1>13. ASSUME NEW f \in Ends, ClosingReply(f) PROVE G
    <2>1. /\ UNCHANGED <<hand, handled, written>> /\ rx[f] = "replying"
          /\ rx' = [rx EXCEPT ![f] = "shutting"]
          /\ Write(f, Closing)
      BY <1>13 DEF ClosingReply, history
    <2>2. Unseen(e)
      BY <2>1
    <2>3. CASE f = e
      BY <2>1, <2>2, <2>3 DEF Write
    <2>4. CASE f = Peer(e)
      BY <2>1, <2>2, <2>4, ReqFacts DEF OtherWrite
    <2> QED
      BY <2>3, <2>4
  <1>14. ASSUME NEW f \in Ends, ClosingShut(f) PROVE G
    <2>1. /\ UNCHANGED <<hand, handled, written>> /\ rx[f] = "shutting"
          /\ rx' = [rx EXCEPT ![f] = "callback"]
          /\ wire' = [wire EXCEPT ![f] = <<>>]
      BY <1>14 DEF ClosingShut, history
    <2> QED
      BY <2>1
  <1>15. ASSUME NEW f \in Ends, ReceiveReset(f) \/ Kill(f) PROVE G
    BY <1>2, <1>15 DEF ReceiveReset, Kill, channel, rxState, history
  <1>16. Idle \/ Stuck => G
    BY <1>2 DEF Idle, Stuck, vars, channel, rxState, history
  <1> HIDE DEF Quiet, Unseen
  <1> QED
    BY <1>3, <1>4, <1>5, <1>6, <1>7, <1>8, <1>9, <1>10, <1>11, <1>12, <1>13, <1>14,
       <1>15, <1>16 DEF Next, UserSend, UserClose, ReceiveCycle

LEMMA DirectionNext ==
  ASSUME IInv, FlowInv, Next, NEW e \in Ends
  PROVE  DirectionOK(e)'
  <1> DEFINE x == Peer(e)
             w == written[Peer(e)]
             h == handled[e]
             q == wire[e]
  <1>1. /\ x \in Ends /\ x # e /\ Peer(x) = e
        /\ w \in Seq(Requests) /\ h \in Seq(Requests) /\ q \in Seq(Message)
        /\ hand[e] \in Message
    BY EndFacts DEF IInv, TypeOK
  <1>2. DirectionOK(e) /\ ClosingOK(e)
    BY DEF FlowInv
  <1>3. Len(w) \in Nat /\ Len(h) \in Nat /\ Taken(e) \in {Len(h), Len(h) + 1} /\ Taken(e) \in Nat
        /\ \A k \in 1..Len(w) : w[k] \in Requests
    BY <1>1, ElementOfSeq DEF Taken
  <1>4. Onward
    BY OnwardNext
  <1>5. ~connected[x] \/ Gone(x) => ~connected'[x] \/ Gone(x)'
    BY <1>1, <1>4 DEF Onward
  <1>6. \A k \in 1..Len(w) : EndOf[w[k]] = x /\ user'[w[k]] = "returned"
    BY <1>2, <1>3, <1>4 DEF DirectionOK, Onward
  <1>7. ASSUME Unseen(e), rx'[e] \in Reading => Flow(w, Taken(e), wire'[e])
        PROVE  DirectionOK(e)'
    <2>1. Taken(e)' = Taken(e)
      BY <1>7 DEF Unseen, Taken
    <2>2. written'[Peer(e)] = w /\ handled'[e] = h /\ hand'[e] = hand[e]
          /\ (rx'[e] \in Reading <=> rx[e] \in Reading)
      BY <1>7 DEF Unseen
    <2> QED
      BY <1>2, <1>5, <1>6, <1>7, <2>1, <2>2 DEF DirectionOK
  <1>8. CASE Quiet(e)
    BY <1>2, <1>7, <1>8 DEF Quiet, Unseen, DirectionOK
  <1>9. CASE OtherWrite(e)
    <2>1. PICK m \in Message : m.kind # "request" /\ Write(x, m)
      BY <1>9 DEF OtherWrite
    <2>2. wire'[e] \in {q, Append(q, m)}
      BY <1>1, <2>1 DEF Write, IInv, TypeOK
    <2>3. rx[e] \in Reading => Flow(w, Taken(e), q)
      BY <1>2 DEF DirectionOK
    <2>4. rx[e] \in Reading => Flow(w, Taken(e), Append(q, m))
      BY <1>1, <1>3, <2>1, <2>3, FlowOther
    <2> QED
      BY <1>7, <1>9, <2>2, <2>3, <2>4 DEF OtherWrite, Unseen
  <1>10. ASSUME NEW r \in Requests, EndOf[r] = x, WriteRequest(r) PROVE DirectionOK(e)'
    <2>1. /\ Up(x) /\ user[r] = "sending" /\ Write(x, Req(r))
          /\ written' = IF connected[x] /\ ~Gone(e)
                        THEN [written EXCEPT ![x] = Append(w, r)] ELSE written
          /\ user' = [user EXCEPT ![r] = IF Gone(e) THEN "dropped" ELSE "returned"]
          /\ UNCHANGED <<rx, hand, handled>>
      BY <1>1, <1>10 DEF WriteRequest, Req, rxState
    <2>2. lock[x] = r /\ open[x] /\ rx[x] # "replying"
          /\ \A c \in Closers : ~(EndOf[c] = x /\ user[c] = "sending")
      BY <1>1, <1>10, <2>1, ThreadsAssumption DEF IInv, LockOK
    <2>3. CASE Gone(e)
      <3>1. Quiet(e)
        BY <1>1, <2>1, <2>3 DEF Write, Quiet, Unseen
      <3> QED
        BY <1>8, <3>1
    <2>4. CASE ~Gone(e) /\ ~connected[x]
      <3>1. wire'[e] = Append(q, Req(r)) /\ Unseen(e)
        BY <1>1, <2>1, <2>4 DEF Write, Unseen, IInv, TypeOK
      <3>2. rx[e] \in Reading => Flow(w, Taken(e), q) /\ HasClose(q)
        BY <1>2, <2>2, <2>4 DEF DirectionOK, ClosingOK, Gone
      <3>3. rx[e] \in Reading => Flow(w, Taken(e), Append(q, Req(r)))
        BY <1>1, <1>3, <3>2, FlowOther, ReqFacts
      <3> QED
        BY <1>7, <3>1, <3>3 DEF Unseen
    <2>5. CASE ~Gone(e) /\ connected[x]
      <3>1. wire'[e] = Append(q, Req(r)) /\ written'[Peer(e)] = Append(w, r)
        BY <1>1, <2>1, <2>5 DEF Write, IInv, TypeOK
      <3>2. rx[e] \in Reading /\ Flow(w, Taken(e), q) /\ ~HasClose(q)
        BY <1>2, <2>1, <2>2, <2>5 DEF DirectionOK, ClosingOK, Gone
      <3>3. \A k \in 1..Len(w) : w[k] # r
        BY <1>2, <2>1 DEF DirectionOK
      <3>4. Flow(Append(w, r), Taken(e), Append(q, Req(r)))
        BY <1>1, <1>3, <3>2, <3>3, FlowRequest
      <3>5. Taken(e)' = Taken(e) /\ handled'[e] = h /\ hand'[e] = hand[e] /\ rx'[e] = rx[e]
        BY <2>1 DEF Taken
      <3>6. /\ Len(Append(w, r)) = Len(w) + 1 /\ Append(w, r)[Len(w) + 1] = r
            /\ \A k \in 1..Len(w) : Append(w, r)[k] = w[k]
        BY <1>1, AppendFacts
      <3>7. user'[r] = "returned"
        BY <2>1, <2>5 DEF IInv, TypeOK
      <3>8. \A k \in 1..(Len(w) + 1) : EndOf[Append(w, r)[k]] = x
                                       /\ user'[Append(w, r)[k]] = "returned"
        BY <1>3, <1>6, <1>10, <3>6, <3>7
      <3>9. /\ Len(h) <= Len(w) + 1 /\ \A k \in 1..Len(h) : h[k] = Append(w, r)[k]
            /\ Taken(e) = Len(h) + 1 => Len(h) < Len(w) + 1
                                       /\ hand[e].id = Append(w, r)[Len(h) + 1]
        BY <1>2, <1>3, <3>6 DEF DirectionOK
      <3> QED
        BY <3>1, <3>2, <3>4, <3>5, <3>6, <3>8, <3>9 DEF DirectionOK
    <2> QED
      BY <2>3, <2>4, <2>5
  <1>11. CASE Receive(e)
    <2>1. /\ rx[e] = "receiving" /\ q # <<>>
          /\ hand'[e] = Head(q) /\ wire'[e] = Tail(q)
          /\ rx'[e] = IF Head(q).kind = "close" THEN "closing" ELSE "handling"
          /\ written' = written /\ handled' = handled
      BY <1>1, <1>11 DEF Receive, history, IInv, TypeOK
    <2>2. Taken(e) = Len(h) /\ Flow(w, Len(h), q)
      BY <1>2, <2>1 DEF Taken, DirectionOK, Reading
    <2>3. Head(q) \in Message /\ Head(q) = q[1] /\ 1 \in 1..Len(q)
      BY <1>1, <2>1, TailFacts
    <2>4. CASE Head(q).kind = "close"
      <3>1. Head(q) = Closing
        BY <2>3, <2>4, MessageFacts
      <3>2. h = w
        <4>1. Len(h) = Len(w)
          BY <1>1, <1>3, <2>2, <3>1, FlowEnd
        <4> QED
          BY <1>1, <1>2, <4>1, SeqEqual DEF DirectionOK
      <3>3. ~connected[x]
        BY <1>2, <2>3, <3>1 DEF ClosingOK, HasClose
      <3>4. rx'[e] = "closing" /\ Taken(e)' = Len(h)
        BY <2>1, <2>4 DEF Taken
      <3> QED
        BY <1>2, <1>3, <1>5, <1>6, <2>1, <3>2, <3>3, <3>4 DEF DirectionOK, Reading
    <2>5. CASE Head(q).kind = "request"
      <3>1. Len(h) < Len(w) /\ Head(q).id = w[Len(h) + 1] /\ Flow(w, Len(h) + 1, Tail(q))
        BY <1>1, <1>3, <2>1, <2>2, <2>5, FlowTakeRequest
      <3>2. rx'[e] = "handling" /\ Taken(e)' = Len(h) + 1
        BY <2>1, <2>5 DEF Taken
      <3> QED
        BY <1>2, <1>3, <1>6, <2>1, <3>1, <3>2 DEF DirectionOK, Reading
    <2>6. CASE Head(q).kind = "response"
      <3>1. Flow(w, Len(h), Tail(q))
        BY <1>1, <1>3, <2>1, <2>2, <2>6, FlowTakeResponse
      <3>2. rx'[e] = "handling" /\ Taken(e)' = Len(h)
        BY <2>1, <2>6 DEF Taken
      <3> QED
        BY <1>2, <1>3, <1>6, <2>1, <3>1, <3>2 DEF DirectionOK, Reading
    <2> QED
      BY <2>3, <2>4, <2>5, <2>6, MessageFacts
  <1>12. CASE ReceiveEnd(e)
    <2>1. /\ rx[e] = "receiving" /\ rx'[e] = "closing" /\ q = <<>> /\ Gone(x)
          /\ UNCHANGED <<written, handled, hand>>
      BY <1>1, <1>12 DEF ReceiveEnd, history, IInv, TypeOK
    <2>2. Taken(e) = Len(h) /\ Taken(e)' = Len(h) /\ Flow(w, Len(h), q)
      BY <1>2, <2>1 DEF Taken, DirectionOK, Reading
    <2>3. h = w
      <3>1. Len(h) = Len(w)
        BY <1>1, <1>3, <2>1, <2>2, FlowEnd
      <3> QED
        BY <1>1, <1>2, <3>1, SeqEqual DEF DirectionOK
    <2> QED
      BY <1>2, <1>3, <1>5, <1>6, <2>1, <2>2, <2>3 DEF DirectionOK, Reading
  <1>13. CASE Handle(e)
    <2>1. /\ rx[e] = "handling" /\ rx'[e] \in {"responding", "receiving"}
          /\ handled'[e] = IF hand[e].kind = "request" THEN Append(h, hand[e].id) ELSE h
          /\ UNCHANGED <<written, wire, hand>>
      BY <1>1, <1>13 DEF Handle, channel, IInv, TypeOK
    <2>2. Flow(w, Taken(e), q)
      BY <1>2, <2>1 DEF DirectionOK, Reading
    <2>3. Taken(e)' = Len(handled'[e])
      BY <2>1 DEF Taken
    <2>4. CASE hand[e].kind # "request"
      <3>1. handled'[e] = h /\ Taken(e) = Len(h)
        BY <2>1, <2>4 DEF Taken
      <3> QED
        BY <1>2, <1>3, <1>6, <2>1, <2>2, <2>3, <3>1 DEF DirectionOK, Reading
    <2>5. CASE hand[e].kind = "request"
      <3>1. handled'[e] = Append(h, hand[e].id) /\ Taken(e) = Len(h) + 1
        BY <2>1, <2>5 DEF Taken
      <3>2. Len(h) < Len(w) /\ hand[e].id = w[Len(h) + 1] /\ hand[e].id \in Requests
        BY <1>1, <1>2, <2>5, <3>1, ReqFacts DEF DirectionOK
      <3>3. /\ Len(Append(h, hand[e].id)) = Len(h) + 1
            /\ Append(h, hand[e].id)[Len(h) + 1] = hand[e].id
            /\ \A k \in 1..Len(h) : Append(h, hand[e].id)[k] = h[k]
        BY <1>1, <3>2, AppendFacts
      <3>4. \A k \in 1..(Len(h) + 1) : handled'[e][k] = w[k]
        BY <1>2, <1>3, <3>1, <3>2, <3>3 DEF DirectionOK
      <3> QED
        BY <1>2, <1>3, <1>6, <2>1, <2>2, <2>3, <3>1, <3>2, <3>3, <3>4 DEF DirectionOK, Reading
    <2> QED
      BY <2>4, <2>5
  <1> QED
    BY <1>8, <1>9, <1>10, <1>11, <1>12, <1>13, DirectionSteps

LEMMA CloseFacts ==
  ASSUME NEW q \in Seq(Message), NEW m \in Message
  PROVE  /\ HasClose(Append(q, m)) <=> HasClose(q) \/ m = Closing
         /\ q # <<>> => /\ HasClose(Tail(q)) => HasClose(q)
                        /\ HasClose(q) => HasClose(Tail(q)) \/ Head(q) = Closing
         /\ ~HasClose(<<>>)
  <1>1. HasClose(Append(q, m)) <=> HasClose(q) \/ m = Closing
    BY AppendFacts DEF HasClose
  <1>2. ASSUME q # <<>> PROVE HasClose(Tail(q)) => HasClose(q)
    BY <1>2, TailFacts DEF HasClose
  <1>3. ASSUME q # <<>>, HasClose(q), Head(q) # Closing PROVE HasClose(Tail(q))
    <2>1. PICK i \in 1..Len(q) : q[i] = Closing
      BY <1>3 DEF HasClose
    <2>2. i - 1 \in 1..Len(Tail(q)) /\ (i - 1) + 1 = i
      BY <1>3, <2>1, TailFacts
    <2>3. Tail(q)[i - 1] = Closing
      BY <1>3, <2>1, <2>2, TailFacts
    <2> QED
      BY <2>2, <2>3 DEF HasClose
  <1> QED
    BY <1>1, <1>2, <1>3 DEF HasClose

LEMMA ClosingNext ==
  ASSUME IInv, FlowInv, Next, NEW e \in Ends
  PROVE  ClosingOK(e)'
  <1> DEFINE x == Peer(e)
             Sending(c) == user[c] = "sending"
             Calm == /\ HasClose(wire'[e]) => HasClose(wire[e])
                     /\ rx'[e] \in Reading /\ HasClose(wire[e]) => HasClose(wire'[e])
                     /\ rx'[e] \in Reading => rx[e] \in Reading
                     /\ rx[x] = "replying" => rx'[x] = "replying"
                     /\ rx'[e] \in {"shutting", "replying"} => rx[e] \in {"shutting", "replying"}
             Still == \A c \in Closers : user'[c] = "sending" <=> Sending(c)
             Same == UNCHANGED connected
  <1>1. /\ x \in Ends /\ x # e /\ Peer(x) = e
        /\ wire[e] \in Seq(Message) /\ hand[e] \in Message
        /\ \A f \in Ends : f = e \/ f = x
        /\ \A u \in Requests \cup Closers : EndOf[u] \in Ends
    BY EndFacts, EndsAssumption, ThreadsAssumption DEF Ends, IInv, TypeOK
  <1>2. /\ rx \in [Ends -> {"receiving", "handling", "responding", "sending", "closing",
                            "replying", "shutting", "callback", "signal", "ended"}]
        /\ wire \in [Ends -> Seq(Message)]
        /\ connected \in [Ends -> BOOLEAN]
        /\ DOMAIN user = Requests \cup Closers
    BY DEF IInv, TypeOK
  <1>3. ClosingOK(e) /\ ClosingOK(x)
    BY <1>1 DEF FlowInv
  <1>4. /\ open'[x] => open[x]
        /\ Up(e)' => Up(e)
    BY <1>1, OnwardNext DEF Onward
  <1>5. rx[e] \in Reading /\ Up(e) => ~Gone(e)
    BY DEF IInv, LockOK, Gone, Reading
  <1> HIDE DEF x
  <1>6. Calm /\ Still /\ Same => ClosingOK(e)'
    BY <1>3, <1>4 DEF ClosingOK, x
  <1>7. ASSUME NEW m \in Message, NEW f \in Ends, Write(f, m), m # Closing \/ f = e
        PROVE  HasClose(wire'[e]) <=> HasClose(wire[e])
    <2>1. wire'[e] \in {wire[e], Append(wire[e], m)} /\ (f = e => wire'[e] = wire[e])
      BY <1>1, <1>2, <1>7 DEF Write, x
    <2>2. HasClose(Append(wire[e], m)) <=> HasClose(wire[e]) \/ m = Closing
      BY <1>1, CloseFacts
    <2> QED
      BY <1>7, <2>1, <2>2
  <1>8. ASSUME NEW r \in Requests, Issue(r) \/ IssueOnClosed(r) PROVE ClosingOK(e)'
    <2>1. Calm /\ Same
      BY <1>8 DEF Issue, IssueOnClosed, channel, rxState, ends
    <2>2. Still
      BY <1>2, <1>8, ThreadsAssumption DEF Issue, IssueOnClosed
    <2> QED
      BY <1>6, <2>1, <2>2
  <1>9. ASSUME NEW r \in Requests, WriteRequest(r) PROVE ClosingOK(e)'
    <2>1. Calm /\ Same
      <3>1. Write(EndOf[r], Req(r)) /\ UNCHANGED <<rx, connected>>
        BY <1>9 DEF WriteRequest, rxState, ends, Req
      <3>2. HasClose(wire'[e]) <=> HasClose(wire[e])
        BY <1>1, <1>7, <3>1, ReqFacts
      <3> QED
        BY <3>1, <3>2
    <2>2. Still
      BY <1>2, <1>9, ThreadsAssumption DEF WriteRequest
    <2> QED
      BY <1>6, <2>1, <2>2
  <1>10. ASSUME NEW c \in Closers, CloseTest(c) \/ CloseWait(c) PROVE ClosingOK(e)'
    <2>1. Calm /\ Same
      BY <1>10 DEF CloseTest, CloseWait, channel, rxState, ends
    <2>2. Still
      BY <1>2, <1>10 DEF CloseTest, CloseWait
    <2> QED
      BY <1>6, <2>1, <2>2
  <1>11. ASSUME NEW c \in Closers, CloseLock(c) PROVE ClosingOK(e)'
    <2>1. /\ UNCHANGED <<rx, wire>>
          /\ connected' = [connected EXCEPT ![EndOf[c]] = FALSE]
          /\ user' = [user EXCEPT ![c] = "sending"]
      BY <1>11 DEF CloseLock, channel, rxState
    <2>2. user'[c] = "sending" /\ \A d \in Closers : d # c => user'[d] = user[d]
      BY <1>2, <2>1
    <2>3. CASE EndOf[c] = x
      BY <1>1, <1>2, <1>3, <2>1, <2>2, <2>3 DEF ClosingOK, x
    <2>4. CASE EndOf[c] = e
      <3>1. connected'[x] = connected[x] /\ ~connected'[e]
        BY <1>1, <1>2, <2>1, <2>4
      <3>2. \A d \in Closers : EndOf[d] = x => user'[d] = user[d]
        BY <1>1, <2>2, <2>4
      <3> QED
        BY <1>3, <1>4, <2>1, <3>1, <3>2 DEF ClosingOK, x
    <2> QED
      BY <1>1, <2>3, <2>4
  <1>12. ASSUME NEW c \in Closers, CloseSend(c) PROVE ClosingOK(e)'
    <2>1. /\ UNCHANGED <<rx, connected, open>> /\ user[c] = "sending"
          /\ user' = [user EXCEPT ![c] = "waiting"]
          /\ \/ open[EndOf[c]] /\ Write(EndOf[c], Closing)
             \/ ~open[EndOf[c]] /\ UNCHANGED wire
      BY <1>12 DEF CloseSend, rxState, ends
    <2>2. user'[c] = "waiting" /\ \A d \in Closers : d # c => user'[d] = user[d]
      BY <1>2, <2>1
    <2>3. CASE EndOf[c] = x
      <3>1. ~connected[x]
        BY <1>3, <2>1, <2>3 DEF ClosingOK
      <3>2. open[x] /\ rx[e] \in Reading /\ Up(e) => HasClose(wire'[e])
        <4>1. ASSUME open[x], ~Gone(e) PROVE wire'[e] = Append(wire[e], Closing)
          BY <1>1, <1>2, <2>1, <2>3, <4>1 DEF Write
        <4>2. HasClose(Append(wire[e], Closing))
          BY <1>1, CloseFacts, ReqFacts
        <4> QED
          BY <1>5, <4>1, <4>2
      <3>3. \A d \in Closers : EndOf[d] = e => user'[d] = user[d]
        BY <1>1, <2>2, <2>3
      <3> QED
        BY <1>3, <1>4, <2>1, <3>1, <3>2, <3>3 DEF ClosingOK, x
    <2>4. CASE EndOf[c] = e
      <3>1. wire'[e] = wire[e]
        BY <1>1, <1>2, <2>1, <2>4 DEF Write, x
      <3>2. \A d \in Closers : EndOf[d] = x => user'[d] = user[d]
        BY <1>1, <2>2, <2>4
      <3>3. \A d \in Closers : EndOf[d] = e /\ user'[d] = "sending" => user[d] = "sending"
        BY <2>2
      <3> QED
        BY <1>3, <1>4, <2>1, <3>1, <3>2, <3>3 DEF ClosingOK, x
    <2> QED
      BY <1>1, <2>3, <2>4
  <1>13. ASSUME NEW f \in Ends, Receive(f) PROVE ClosingOK(e)'
    <2>1. /\ UNCHANGED <<connected, user>> /\ rx[f] = "receiving" /\ wire[f] # <<>>
          /\ wire' = [wire EXCEPT ![f] = Tail(wire[f])]
          /\ rx' = [rx EXCEPT ![f] = IF Head(wire[f]).kind = "close" THEN "closing"
                                     ELSE "handling"]
      BY <1>13 DEF Receive, ends
    <2>2. CASE f = e
      <3>1. /\ rx[e] = "receiving" /\ rx'[x] = rx[x] /\ wire'[e] = Tail(wire[e])
            /\ rx'[e] = IF Head(wire[e]).kind = "close" THEN "closing" ELSE "handling"
        BY <1>1, <1>2, <2>1, <2>2
      <3>2. /\ HasClose(Tail(wire[e])) => HasClose(wire[e])
            /\ HasClose(wire[e]) => HasClose(Tail(wire[e])) \/ Head(wire[e]) = Closing
        BY <1>1, <2>1, <2>2, CloseFacts
      <3>3. Calm
        BY <3>1, <3>2, ReqFacts DEF Reading
      <3> QED
        BY <1>6, <2>1, <3>3
    <2>3. CASE f = x
      BY <1>1, <1>2, <1>6, <2>1, <2>3
    <2> QED
      BY <1>1, <2>2, <2>3
  <1>14. ASSUME NEW f \in Ends,
                ReceiveEnd(f) \/ Handle(f) \/ RespondLock(f) \/ ClosingCallback(f) \/ Signal(f)
         PROVE  ClosingOK(e)'
    <2>1. UNCHANGED <<connected, wire>>
      BY <1>14 DEF ReceiveEnd, Handle, RespondLock, ClosingCallback, Signal, ends, channel
    <2>2. Still
      BY <1>2, <1>14 DEF ReceiveEnd, Handle, RespondLock, ClosingCallback, Signal
    <2>3. /\ rx[f] \in Reading \/ rx[f] \in {"callback", "signal"}
          /\ \E s \in {"closing", "signal", "ended"} \cup Reading :
                /\ rx' = [rx EXCEPT ![f] = s]
                /\ s \in Reading => rx[f] \in Reading
      BY <1>14 DEF ReceiveEnd, Handle, RespondLock, ClosingCallback, Signal, Reading
    <2>4. Calm
      BY <1>1, <1>2, <2>1, <2>3 DEF Reading
    <2> QED
      BY <1>6, <2>1, <2>2, <2>4
  <1>15. ASSUME NEW f \in Ends, RespondWrite(f) PROVE ClosingOK(e)'
    <2>1. /\ UNCHANGED <<connected, user>> /\ rx[f] = "sending"
          /\ rx' = [rx EXCEPT ![f] = "receiving"]
          /\ Write(f, Resp(hand[f].id))
      BY <1>15 DEF RespondWrite, ends, Resp
    <2>2. Resp(hand[f].id) \in Message /\ Resp(hand[f].id) # Closing
      BY <2>1, ReqFacts, MessageFacts DEF IInv, HandOK, TypeOK
    <2>3. HasClose(wire'[e]) <=> HasClose(wire[e])
      BY <1>7, <2>1, <2>2
    <2>4. Calm
      BY <1>1, <1>2, <2>1, <2>3 DEF Reading
    <2> QED
      BY <1>6, <2>1, <2>4
  <1>16. ASSUME NEW f \in Ends, ClosingLock(f) PROVE ClosingOK(e)'
    <2>1. /\ UNCHANGED <<wire, user>> /\ rx[f] = "closing" /\ lock[f] = NoThread
          /\ rx' = [rx EXCEPT ![f] = IF connected[f] THEN "replying" ELSE "shutting"]
          /\ connected' = [connected EXCEPT ![f] = FALSE]
      BY <1>16 DEF ClosingLock, channel, Acquire
    <2>2. \A c \in Closers : EndOf[c] = f => user[c] # "sending"
      BY <2>1, ThreadsAssumption DEF IInv, LockOK, Threads
    <2>3. CASE f = x
      <3>1. rx'[e] = rx[e] /\ ~connected'[x] /\ connected'[e] = connected[e]
            /\ rx'[x] = IF connected[x] THEN "replying" ELSE "shutting"
        BY <1>1, <1>2, <2>1, <2>3
      <3> QED
        BY <1>3, <1>4, <2>1, <2>2, <2>3, <3>1 DEF ClosingOK, x
    <2>4. CASE f = e
      <3>1. rx'[e] \notin Reading /\ ~connected'[e] /\ connected'[x] = connected[x]
        BY <1>1, <1>2, <2>1, <2>4 DEF Reading
      <3> QED
        BY <1>3, <2>1, <3>1 DEF ClosingOK, x
    <2> QED
      BY <1>1, <2>3, <2>4
  <1>17. ASSUME NEW f \in Ends, ClosingReply(f) PROVE ClosingOK(e)'
    <2>1. /\ UNCHANGED <<connected, user>> /\ rx[f] = "replying"
          /\ rx' = [rx EXCEPT ![f] = "shutting"]
          /\ Write(f, Closing)
      BY <1>17 DEF ClosingReply, ends
    <2>2. CASE f = x
      <3>1. ~connected[x] /\ rx'[e] = rx[e]
        BY <1>1, <1>2, <1>3, <2>1, <2>2 DEF ClosingOK
      <3>2. rx[e] \in Reading /\ Up(e) => HasClose(wire'[e])
        <4>1. ASSUME ~Gone(e) PROVE wire'[e] = Append(wire[e], Closing)
          BY <1>1, <1>2, <2>1, <2>2, <4>1 DEF Write
        <4>2. HasClose(Append(wire[e], Closing))
          BY <1>1, CloseFacts, ReqFacts
        <4> QED
          BY <1>5, <4>1, <4>2
      <3> QED
        BY <1>3, <1>4, <2>1, <3>1, <3>2 DEF ClosingOK, x
    <2>3. CASE f = e
      <3>1. HasClose(wire'[e]) <=> HasClose(wire[e])
        BY <1>7, <2>1, <2>3, ReqFacts
      <3>2. rx'[e] = "shutting" /\ rx[e] = "replying" /\ rx'[x] = rx[x]
        BY <1>1, <1>2, <2>1, <2>3
      <3> QED
        BY <1>6, <2>1, <3>1, <3>2 DEF Reading
    <2> QED
      BY <1>1, <2>2, <2>3
  <1>18. ASSUME NEW f \in Ends, ClosingShut(f) PROVE ClosingOK(e)'
    <2>1. /\ UNCHANGED <<connected, user>> /\ rx[f] = "shutting"
          /\ rx' = [rx EXCEPT ![f] = "callback"]
          /\ wire' = [wire EXCEPT ![f] = <<>>]
      BY <1>18 DEF ClosingShut
    <2>2. CASE f = x
      BY <1>1, <1>2, <1>6, <2>1, <2>2
    <2>3. CASE f = e
      <3>1. ~HasClose(wire'[e]) /\ rx'[e] = "callback" /\ rx'[x] = rx[x]
        BY <1>1, <1>2, <2>1, <2>3, CloseFacts
      <3> QED
        BY <1>6, <2>1, <3>1 DEF Reading
    <2> QED
      BY <1>1, <2>2, <2>3
  <1>19. ASSUME NEW f \in Ends, ReceiveReset(f) \/ Kill(f) PROVE ClosingOK(e)'
    <2>1. UNCHANGED <<rx, wire, connected, user>>
      BY <1>19 DEF ReceiveReset, Kill, channel, rxState
    <2> QED
      BY <1>6, <2>1
  <1>20. Idle \/ Stuck => ClosingOK(e)'
    <2>1. Idle \/ Stuck => UNCHANGED <<rx, wire, connected, user>>
      BY DEF Idle, Stuck, vars, channel, rxState, ends
    <2> QED
      BY <1>6, <2>1
  <1> HIDE DEF Calm, Still, Same
  <1> QED
    BY <1>8, <1>9, <1>10, <1>11, <1>12, <1>13, <1>14, <1>15, <1>16, <1>17, <1>18,
       <1>19, <1>20 DEF Next, UserSend, UserClose, ReceiveCycle

LEMMA AnswerInit == Init => AnswerInv
  <1> SUFFICES ASSUME Init, NEW e \in Ends PROVE AnswerOK(e)
    BY DEF AnswerInv
  <1>1. wire[e] = <<>> /\ handled[Peer(e)] = <<>> /\ rx[e] = "receiving"
    BY EndFacts DEF Init
  <1>2. ~HasClose(<<>>) /\ Len(<<>>) = 0
    BY DEF HasClose
  <1> QED
    BY <1>1, <1>2 DEF AnswerOK, Handled, Reading

\* A thread that has found its end connected goes on to close it.
LEMMA StartedNext ==
  ASSUME IInv, Next, NEW c \in Closers, user'[c] \in {"idle", "dropped"}
  PROVE  user[c] \in {"idle", "dropped"}
  <1> DEFINE D == user[c] \in {"idle", "dropped"}
  <1>0. DOMAIN user = Requests \cup Closers /\ \A r \in Requests : r # c
    BY ThreadsAssumption DEF IInv, TypeOK
  <1>1. CASE user'[c] = user[c]
    BY <1>1
  <1>2. ASSUME NEW r \in Requests, Issue(r) \/ IssueOnClosed(r) \/ UserSend(r) PROVE D
    BY <1>0, <1>1, <1>2 DEF Issue, IssueOnClosed, UserSend, WriteRequest
  <1>3. ASSUME NEW d \in Closers, CloseTest(d) PROVE D
    BY <1>0, <1>1, <1>3 DEF CloseTest
  <1>4. ASSUME NEW d \in Closers, UserClose(d) PROVE D
    <2>1. d # c
      BY <1>0, <1>4 DEF UserClose, CloseLock, CloseSend, CloseWait
    <2>2. \E s \in {"sending", "waiting", "returned", "asleep"} :
             user' = [user EXCEPT ![d] = s]
      BY <1>4 DEF UserClose, CloseLock, CloseSend, CloseWait
    <2> QED
      BY <1>0, <1>1, <2>1, <2>2
  <1>5. ASSUME NEW f \in Ends, Signal(f) PROVE D
    BY <1>0, <1>1, <1>5 DEF Signal
  <1>6. ASSUME NEW f \in Ends, ReceiveCycle(f) \/ ReceiveReset(f) \/ Kill(f), ~Signal(f)
        PROVE  D
    <2>1. UNCHANGED user
      BY <1>6 DEF ReceiveCycle, Receive, ReceiveEnd, Handle, RespondLock, RespondWrite,
         ClosingLock, ClosingReply, ClosingShut, ClosingCallback, ReceiveReset, Kill
    <2> QED
      BY <1>1, <2>1
  <1>7. Idle \/ Stuck => UNCHANGED user
    BY DEF Idle, Stuck, vars
  <1> QED
    BY <1>1, <1>2, <1>3, <1>4, <1>5, <1>6, <1>7 DEF Next

LEMMA AnswerNext ==
  ASSUME IInv, AnswerInv, Next, NEW e \in Ends
  PROVE  AnswerOK(e)'
  <1> DEFINE x == Peer(e)
             q == wire[e]
             done == handled[Peer(e)]
             Kept == /\ wire'[e] = wire[e] /\ handled'[x] = handled[x]
                     /\ answered \subseteq answered'
                     /\ rx[x] \in Past => rx'[x] \in Past
                     /\ rx'[e] \notin Reading => rx[e] \notin Reading
                     /\ rx[x] \in {"responding", "sending"} =>
                            rx'[x] \in {"responding", "sending"} /\ hand'[x] = hand[x]
                     /\ rx[e] = "handling" => rx'[e] = "handling" /\ hand'[e] = hand[e]
  <1>1. /\ x \in Ends /\ x # e /\ Peer(x) = e /\ Peer(e) = x
        /\ q \in Seq(Message) /\ done \in Seq(Requests) /\ hand[e] \in Message
        /\ hand[x] \in Message
        /\ \A f \in Ends : f = e \/ f = x
        /\ \A u \in Requests \cup Closers : EndOf[u] \in Ends
    BY EndFacts, EndsAssumption, ThreadsAssumption DEF Ends, IInv, TypeOK
  <1>2. /\ rx \in [Ends -> {"receiving", "handling", "responding", "sending", "closing",
                            "replying", "shutting", "callback", "signal", "ended"}]
        /\ wire \in [Ends -> Seq(Message)] /\ hand \in [Ends -> Message]
        /\ handled \in [Ends -> Seq(Requests)]
        /\ process \in [Ends -> {"up", "killed", "aborted"}]
    BY DEF IInv, TypeOK
  <1>3. AnswerOK(e) /\ Onward
    BY OnwardNext DEF AnswerInv
  <1> HIDE DEF x
  <1> SUFFICES ASSUME CallerCloses(e)' PROVE AnswerOK(e)'
    BY DEF AnswerOK
  <1>4. \A f \in Ends : Up(f) /\ Up(f)'
    BY <1>3 DEF CallerCloses, Onward
  <1>5. \A c \in Closers : EndOf[c] = x =>
            user'[c] \in {"idle", "dropped"} /\ user[c] \in {"idle", "dropped"}
    BY <1>1, StartedNext DEF CallerCloses
  <1>6. /\ HasClose(q) => rx[x] \in Past /\ NothingBehind(q)
        /\ rx[e] \notin Reading => rx[x] \in Past /\ q = <<>>
        /\ \A r \in Calls : Handled(x, r) => Answering(e, r)
    BY <1>1, <1>3, <1>4, <1>5 DEF AnswerOK, CallerCloses
  <1>7. rx[x] \notin Past => rx[e] \in Reading /\ ~HasClose(q)
    BY <1>6
  <1>8. rx[e] \in Reading => ~Gone(e)
    BY <1>4 DEF IInv, LockOK, Gone, Reading
  <1>9. CASE Kept
    <2>1. ASSUME NEW r, Answering(e, r) PROVE Answering(e, r)'
      BY <1>1, <1>9, <2>1 DEF Answering
    <2>2. \A r : Handled(x, r)' <=> Handled(x, r)
      BY <1>9 DEF Handled
    <2>3. \A r \in Calls : Handled(x, r)' => Answering(e, r)'
      BY <1>6, <2>1, <2>2
    <2> QED
      BY <1>1, <1>6, <1>9, <2>3 DEF AnswerOK
  \* The answering end writes something that does not close.
  <1>10. ASSUME NEW m \in Message, m # Closing, Write(x, m), rx[x] \notin Past,
                \A r \in Calls : Answering(e, r) => Answering(e, r)' \/ m = Resp(r),
                UNCHANGED handled, rx'[e] = rx[e]
         PROVE  AnswerOK(e)'
    <2>1. wire'[e] = Append(q, m)
      BY <1>1, <1>2, <1>7, <1>8, <1>10 DEF Write
    <2>2. ~HasClose(wire'[e])
      BY <1>1, <1>7, <1>10, <2>1, CloseFacts
    <2>3. \E i \in 1..Len(wire'[e]) : wire'[e][i] = m
      BY <1>1, <2>1, AppendFacts
    <2>4. \A r \in Calls : Answering(e, r) => Answering(e, r)'
      BY <1>10, <2>3 DEF Answering
    <2>5. \A r \in Calls : Handled(x, r)' => Answering(e, r)'
      BY <1>6, <1>10, <2>4 DEF Handled
    <2> QED
      BY <1>1, <1>7, <1>10, <2>2, <2>5 DEF AnswerOK
  <1>11. ASSUME NEW m \in Message, Write(x, m), rx[x] \notin Past,
                NEW i \in 1..Len(q)
         PROVE  wire'[e][i] = q[i] /\ i \in 1..Len(wire'[e])
    <2>1. wire'[e] = Append(q, m)
      BY <1>1, <1>2, <1>7, <1>8, <1>11 DEF Write
    <2> QED
      BY <1>1, <2>1, AppendFacts
  <1>12. ASSUME NEW r \in Requests, Issue(r) \/ IssueOnClosed(r) PROVE AnswerOK(e)'
    BY <1>9, <1>12 DEF Issue, IssueOnClosed, channel, rxState, history
  <1>13. ASSUME NEW r \in Requests, WriteRequest(r) PROVE AnswerOK(e)'
    <2>1. /\ UNCHANGED <<rx, hand, handled, answered>> /\ user[r] = "sending"
          /\ Write(EndOf[r], Req(r))
      BY <1>13 DEF WriteRequest, rxState, Req
    <2>2. CASE EndOf[r] = e
      <3>1. wire'[e] = q
        BY <1>1, <1>2, <2>1, <2>2 DEF Write
      <3> QED
        BY <1>9, <2>1, <3>1
    <2>3. CASE EndOf[r] = x
      <3>1. rx[x] \notin Past
        BY <1>1, <2>1, <2>3, ThreadsAssumption DEF IInv, LockOK, Past
      <3>2. \A c \in Calls : Answering(e, c) => Answering(e, c)'
        BY <1>11, <2>1, <2>3, <3>1, ReqFacts DEF Answering
      <3> QED
        BY <1>10, <2>1, <2>3, <3>1, <3>2, ReqFacts
    <2> QED
      BY <1>1, <2>2, <2>3
  <1>14. ASSUME NEW c \in Closers, CloseTest(c) \/ CloseLock(c) \/ CloseWait(c)
         PROVE  AnswerOK(e)'
    BY <1>9, <1>14 DEF CloseTest, CloseLock, CloseWait, channel, rxState, history
  <1>15. ASSUME NEW c \in Closers, CloseSend(c) PROVE AnswerOK(e)'
    <2>1. UNCHANGED <<rx, hand, handled, answered>> /\ user[c] = "sending"
      BY <1>15 DEF CloseSend, rxState, history
    <2>2. EndOf[c] = e
      BY <1>1, <1>5, <2>1
    <2>3. wire'[e] = q
      BY <1>1, <1>2, <1>15, <2>2 DEF CloseSend, Write
    <2> QED
      BY <1>9, <2>1, <2>3
  <1>16. CASE Receive(x)
    <2>1. wire'[e] = q /\ rx[x] = "receiving" /\ rx'[e] = rx[e] /\ hand'[e] = hand[e]
          /\ UNCHANGED <<handled, answered>>
      BY <1>1, <1>2, <1>16 DEF Receive, history
    <2> QED
      BY <1>9, <2>1 DEF Past
  <1>17. CASE Receive(e)
    <2>1. /\ rx[e] = "receiving" /\ q # <<>> /\ wire'[e] = Tail(q) /\ hand'[e] = Head(q)
          /\ rx'[e] = IF Head(q).kind = "close" THEN "closing" ELSE "handling"
          /\ rx'[x] = rx[x] /\ hand'[x] = hand[x]
          /\ UNCHANGED <<handled, answered>>
      BY <1>1, <1>2, <1>17 DEF Receive, history
    <2>2. /\ Head(q) = q[1] /\ q[1] \in Message /\ Len(q) \in Nat /\ Len(q) >= 1
          /\ Tail(q) \in Seq(Message) /\ Len(Tail(q)) = Len(q) - 1
          /\ \A i \in 1..Len(Tail(q)) : Tail(q)[i] = q[i + 1]
      BY <1>1, <2>1, TailFacts
    <2>3. CASE Head(q).kind = "close"
      <3>1. q[1] = Closing
        BY <2>2, <2>3, MessageFacts
      <3>2. rx[x] \in Past /\ NothingBehind(q)
        <4>1. HasClose(q)
          BY <2>2, <3>1 DEF HasClose
        <4> QED
          BY <1>6, <4>1
      <3>3. Len(q) = 1
        <4>1. 1 \in 1..Len(q)
          BY <2>2
        <4> QED
          BY <3>1, <3>2, <4>1 DEF NothingBehind
      <3>7. Tail(q) = <<>>
        <4>1. Len(Tail(q)) = 0
          BY <2>2, <3>3
        <4> QED
          BY <2>2, <4>1, EmptySeq
      <3>4. \A r \in Requests : Answering(e, r) => Answering(e, r)'
        BY <1>1, <2>1, <2>2, <3>1, <3>3, ReqFacts DEF Answering
      <3>5. \A r \in Calls : Handled(x, r)' => Answering(e, r)'
        BY <1>6, <2>1, <3>4, ThreadsAssumption DEF Handled
      <3>6. ~HasClose(<<>>)
        BY <1>1, CloseFacts
      <3> QED
        BY <1>1, <2>1, <3>2, <3>5, <3>6, <3>7 DEF AnswerOK
    <2>4. CASE Head(q).kind # "close"
      <3>1. rx'[e] = "handling" /\ Head(q) # Closing
        BY <2>1, <2>4, ReqFacts
      <3>2. HasClose(Tail(q)) => HasClose(q)
        BY <1>1, <2>1, CloseFacts
      <3>3. NothingBehind(q) => NothingBehind(Tail(q))
        BY <2>2 DEF NothingBehind
      <3>4. ASSUME NEW r, Answering(e, r) PROVE Answering(e, r)'
        <4>1. ASSUME NEW i \in 1..Len(q), q[i] = Resp(r)
              PROVE  Head(q) = Resp(r) \/ \E j \in 1..Len(Tail(q)) : Tail(q)[j] = Resp(r)
          <5>1. CASE i = 1
            BY <4>1, <5>1, <2>2
          <5>2. CASE i # 1
            <6>1. i - 1 \in 1..Len(Tail(q)) /\ (i - 1) + 1 = i
              BY <5>2, <2>2
            <6> QED
              BY <4>1, <6>1, <2>2
          <5> QED
            BY <5>1, <5>2
        <4> QED
          BY <1>1, <2>1, <3>1, <3>4, <4>1 DEF Answering
      <3>5. \A r \in Calls : Handled(x, r)' => Answering(e, r)'
        BY <1>6, <2>1, <3>4 DEF Handled
      <3> QED
        BY <1>1, <1>6, <2>1, <3>1, <3>2, <3>3, <3>5 DEF AnswerOK, Reading
    <2> QED
      BY <2>3, <2>4
  <1>18. CASE ReceiveEnd(x)
    <2>1. rx[x] = "receiving" /\ rx'[e] = rx[e] /\ UNCHANGED <<wire, hand, handled, answered>>
      BY <1>1, <1>2, <1>18 DEF ReceiveEnd, channel, history
    <2> QED
      BY <1>9, <2>1 DEF Past
  <1>19. CASE ReceiveEnd(e)
    <2>1. rx[e] = "receiving" /\ q = <<>> /\ Gone(x) /\ rx'[x] = rx[x]
          /\ UNCHANGED <<wire, hand, handled, answered>>
      BY <1>1, <1>2, <1>19 DEF ReceiveEnd, channel, history
    <2>2. rx[x] \in Past
      BY <1>1, <1>4, <2>1 DEF Gone, IInv, LockOK, Past
    <2>3. \A r \in Calls : Handled(x, r)' => Answering(e, r)'
      BY <1>1, <1>6, <2>1 DEF Answering, Handled
    <2>4. ~HasClose(<<>>)
      BY <1>1, CloseFacts
    <2> QED
      BY <1>1, <2>1, <2>2, <2>3, <2>4 DEF AnswerOK
  <1>20. CASE Handle(e)
    <2>1. /\ rx[e] = "handling" /\ rx'[e] \in Reading /\ rx'[x] = rx[x]
          /\ UNCHANGED <<wire, hand>> /\ handled'[x] = done
          /\ answered \subseteq answered'
          /\ hand[e].kind # "request" => hand[e].id \in answered'
      BY <1>1, <1>2, <1>20 DEF Handle, channel, Reading
    <2>2. ASSUME NEW r \in Requests, Answering(e, r) PROVE Answering(e, r)'
      BY <1>1, <2>1, <2>2, ReqFacts DEF Answering
    <2>3. \A r \in Calls : Handled(x, r)' => Answering(e, r)'
      BY <1>1, <1>6, <2>1, <2>2, ThreadsAssumption DEF Handled
    <2> QED
      BY <1>1, <1>6, <2>1, <2>3 DEF AnswerOK
  <1>21. CASE Handle(x)
    <2>1. /\ rx[x] = "handling" /\ rx'[e] = rx[e]
          /\ rx'[x] = IF hand[x].kind = "request" /\ hand[x].id \in Calls
                      THEN "responding" ELSE "receiving"
          /\ UNCHANGED <<wire, hand>>
          /\ answered \subseteq answered'
          /\ IF hand[x].kind = "request"
             THEN handled' = [handled EXCEPT ![x] = Append(handled[x], hand[x].id)]
             ELSE UNCHANGED handled
      BY <1>1, <1>2, <1>21 DEF Handle, channel
    <2>6. handled'[x] = IF hand[x].kind = "request" THEN Append(done, hand[x].id) ELSE done
      BY <1>1, <1>2, <2>1
    <2>2. ASSUME NEW r, Answering(e, r) PROVE Answering(e, r)'
      BY <1>1, <2>1, <2>2 DEF Answering
    <2>3. ASSUME NEW r \in Calls, Handled(x, r)', ~Handled(x, r)
          PROVE  rx'[x] = "responding" /\ hand'[x].id = r
      <3>1. hand[x].kind = "request"
        BY <1>1, <2>3, <2>6 DEF Handled
      <3>2. /\ Len(done) \in Nat /\ Len(handled'[x]) = Len(done) + 1
            /\ handled'[x][Len(done) + 1] = hand[x].id
            /\ \A k \in 1..Len(done) : handled'[x][k] = done[k]
        BY <1>1, <2>6, <3>1, ReqFacts, AppendFacts
      <3>3. PICK k \in 1..(Len(done) + 1) : handled'[x][k] = r
        BY <2>3, <3>2 DEF Handled
      <3>4. k = Len(done) + 1
        <4>1. ASSUME k \in 1..Len(done) PROVE handled[x][k] = r
          BY <1>1, <3>2, <3>3, <4>1
        <4>2. k \notin 1..Len(done)
          BY <1>1, <2>3, <4>1 DEF Handled
        <4> QED
          BY <3>2, <4>2
      <3> QED
        BY <2>1, <2>3, <3>1, <3>2, <3>3, <3>4
    <2>4. \A r \in Calls : Handled(x, r)' => Answering(e, r)'
      <3>1. ASSUME NEW r \in Calls, rx'[x] = "responding", hand'[x].id = r
            PROVE  Answering(e, r)'
        BY <1>1, <3>1 DEF Answering
      <3> QED
        BY <1>6, <2>2, <2>3, <3>1
    <2>5. rx[x] \notin Past
      BY <2>1 DEF Past
    <2> QED
      BY <1>1, <1>7, <2>1, <2>4, <2>5 DEF AnswerOK
  <1>22. ASSUME NEW f \in Ends, RespondLock(f) PROVE AnswerOK(e)'
    <2>1. rx[f] = "responding" /\ rx' = [rx EXCEPT ![f] = "sending"]
          /\ UNCHANGED <<wire, hand, handled, answered>>
      BY <1>22 DEF RespondLock, channel, history
    <2> QED
      BY <1>1, <1>2, <1>9, <2>1 DEF Past, Reading
  <1>23. CASE RespondWrite(e)
    <2>1. rx[e] = "sending" /\ rx'[e] = "receiving" /\ rx'[x] = rx[x] /\ wire'[e] = q
          /\ UNCHANGED <<hand, handled, answered>>
      BY <1>1, <1>2, <1>23 DEF RespondWrite, Write, history
    <2> QED
      BY <1>9, <2>1 DEF Reading
  <1>24. CASE RespondWrite(x)
    <2>1. /\ rx[x] = "sending" /\ rx'[x] = "receiving" /\ rx'[e] = rx[e]
          /\ Write(x, Resp(hand[x].id))
          /\ UNCHANGED <<hand, handled, answered>>
      BY <1>1, <1>2, <1>24 DEF RespondWrite, history, Resp
    <2>2. Resp(hand[x].id) \in Message /\ Resp(hand[x].id) # Closing
      BY <1>1, <2>1, ReqFacts, MessageFacts DEF IInv, HandOK
    <2>3. rx[x] \notin Past
      BY <2>1 DEF Past
    <2>4. ASSUME NEW r, Answering(e, r) PROVE Answering(e, r)' \/ r = hand[x].id
      BY <1>1, <1>11, <2>1, <2>2, <2>3, <2>4 DEF Answering
    <2> QED
      BY <1>10, <2>1, <2>2, <2>3, <2>4
  <1>25. ASSUME NEW f \in Ends, ClosingLock(f) \/ ClosingCallback(f) \/ Signal(f)
         PROVE  AnswerOK(e)'
    <2>1. UNCHANGED <<wire, hand, handled, answered>>
      BY <1>25 DEF ClosingLock, ClosingCallback, Signal, channel, history
    <2>2. \E s \in {"replying", "shutting", "signal", "ended"} :
             /\ rx' = [rx EXCEPT ![f] = s] /\ rx[f] \in {"closing", "callback", "signal"}
             /\ s = "replying" => rx[f] = "closing"
      BY <1>25 DEF ClosingLock, ClosingCallback, Signal
    <2> QED
      BY <1>1, <1>2, <1>9, <2>1, <2>2 DEF Past, Reading
  <1>26. CASE ClosingReply(e)
    <2>1. rx[e] = "replying" /\ rx'[e] = "shutting" /\ rx'[x] = rx[x] /\ wire'[e] = q
          /\ UNCHANGED <<hand, handled, answered>>
      BY <1>1, <1>2, <1>26 DEF ClosingReply, Write, history
    <2> QED
      BY <1>9, <2>1 DEF Reading
  <1>27. CASE ClosingReply(x)
    <2>1. /\ rx[x] = "replying" /\ rx'[x] = "shutting" /\ rx'[e] = rx[e]
          /\ Write(x, Closing)
          /\ UNCHANGED <<hand, handled, answered>>
      BY <1>1, <1>2, <1>27 DEF ClosingReply, history
    <2>2. rx[x] \notin Past /\ rx[x] \notin {"responding", "sending"} /\ rx'[x] \in Past
      BY <2>1 DEF Past
    <2>3. wire'[e] = Append(q, Closing)
      BY <1>1, <1>2, <1>7, <1>8, <2>1, <2>2 DEF Write
    <2>4. \A r \in Calls : Handled(x, r)' => Answering(e, r)'
      BY <1>1, <1>6, <1>11, <2>1, <2>2, ReqFacts DEF Answering, Handled
    <2>5. NothingBehind(wire'[e])
      BY <1>1, <1>7, <2>2, <2>3, AppendFacts, ReqFacts DEF NothingBehind, HasClose
    <2> QED
      BY <1>1, <1>7, <2>1, <2>2, <2>4, <2>5 DEF AnswerOK
  <1>28. ASSUME NEW f \in Ends, ClosingShut(f) PROVE AnswerOK(e)'
    <2>1. /\ rx[f] = "shutting" /\ rx' = [rx EXCEPT ![f] = "callback"]
          /\ wire' = [wire EXCEPT ![f] = <<>>]
          /\ UNCHANGED <<hand, handled, answered>>
      BY <1>28 DEF ClosingShut, history
    <2>2. wire'[e] = q
      BY <1>1, <1>2, <1>6, <2>1 DEF Reading
    <2> QED
      BY <1>1, <1>2, <1>9, <2>1, <2>2 DEF Past, Reading
  <1>29. ASSUME NEW f \in Ends, ReceiveReset(f) \/ Kill(f) PROVE AnswerOK(e)'
    BY <1>9, <1>29 DEF ReceiveReset, Kill, channel, rxState, history, Past, Reading
  <1>30. Idle \/ Stuck => AnswerOK(e)'
    BY <1>9 DEF Idle, Stuck, vars, channel, rxState, history
  <1> HIDE DEF Kept, q, done
  <1> QED
    BY <1>1, <1>12, <1>13, <1>14, <1>15, <1>16, <1>17, <1>18, <1>19, <1>20, <1>21, <1>22,
       <1>23, <1>24, <1>25, <1>26, <1>27, <1>28, <1>29, <1>30
       DEF Next, UserSend, UserClose, ReceiveCycle

Inv == IInv /\ FlowInv /\ AnswerInv

LEMMA InvInit == Init => Inv
  BY IInvInit, FlowInit, AnswerInit DEF Inv

LEMMA InvNext == Inv /\ [Next]_vars => Inv'
  <1> SUFFICES ASSUME Inv, [Next]_vars PROVE Inv'
    OBVIOUS
  <1>1. IInv'
    BY IInvNext DEF Inv
  <1>2. CASE Next
    <2>1. FlowInv'
      BY <1>2, DirectionNext, ClosingNext DEF Inv, FlowInv
    <2>2. AnswerInv'
      BY <1>2, AnswerNext DEF Inv, AnswerInv
    <2> QED
      BY <1>1, <2>1, <2>2 DEF Inv
  <1>3. CASE UNCHANGED vars
    <2>1. /\ FlowInv' <=> FlowInv
          /\ AnswerInv' <=> AnswerInv
      BY <1>3 DEF vars, ends, channel, rxState, history, FlowInv, DirectionOK, ClosingOK, Taken,
         AnswerInv, AnswerOK, Answering, Handled, CallerCloses, Up, Gone
    <2> QED
      BY <1>1, <2>1 DEF Inv
  <1> QED
    BY <1>2, <1>3

\* When the connection has been closed by the caller's end alone, every call
\* that the caller wrote before it began to close has had its answer.
THEOREM EveryCallAnswered == Spec => []CallsAnswered
  <1>1. Inv => CallsAnswered
    <2> SUFFICES ASSUME Inv, NEW e \in Ends,
                        \A x \in Ends : Up(x) /\ rx[x] = "ended",
                        \A c \in Closers : EndOf[c] = Peer(e) => user[c] \in {"idle", "dropped"},
                        NEW i \in DOMAIN written[e], written[e][i] \in Calls
                 PROVE  written[e][i] \in answered
      BY DEF CallsAnswered
    <2> DEFINE r == written[e][i]
    <2>1. Peer(e) \in Ends /\ Peer(Peer(e)) = e /\ written[e] \in Seq(Requests)
      BY EndFacts DEF Inv, IInv, TypeOK
    <2>2. handled[Peer(e)] = written[e]
      BY <2>1 DEF Inv, FlowInv, DirectionOK, Reading
    <2>3. Handled(Peer(e), r)
      BY <2>1, <2>2 DEF Handled
    <2>4. Answering(e, r) /\ wire[e] = <<>>
      BY <2>3 DEF Inv, AnswerInv, AnswerOK, CallerCloses, Reading
    <2> QED
      BY <2>1, <2>4 DEF Answering
  <1> QED
    BY <1>1, InvInit, InvNext, PTL DEF Spec

-----------------------------------------------------------------------------
(* Each direction implements a Channel.                                     *)

ChannelSafety == ToClient!SafeSpec /\ ToConnection!SafeSpec

Working == Up(Client) /\ Up(Connection) /\ ~Jammed

\* Ends that have jammed stay so until a process ends.
LEMMA JamStays ==
  ASSUME IInv, Next, Jammed, \A f \in Ends : Up(f)'
  PROVE  Jammed'
  <1>1. /\ \A f \in Ends :
              /\ lock[f] # NoThread /\ open[f] /\ ~CanWrite(f)
              /\ rx[f] \in {"sending", "replying", "closing", "responding"}
        /\ \A u \in Requests \cup Closers : EndOf[u] \in Ends
    BY EndFacts, CapacityAssumption, ThreadsAssumption
       DEF Jammed, IInv, LockOK, TypeOK, CanWrite, Gone, Threads
  <1>2. UNCHANGED <<process, open, lock, wire, rx>> => Jammed'
    BY DEF Jammed, Up
  <1>3. ASSUME NEW r \in Requests PROVE ~(Issue(r) \/ IssueOnClosed(r) \/ UserSend(r))
    BY <1>1 DEF Issue, IssueOnClosed, UserSend, WriteRequest, Acquire
  <1>4. ASSUME NEW c \in Closers PROVE ~(CloseLock(c) \/ CloseSend(c))
    BY <1>1 DEF CloseLock, CloseSend, Acquire
  <1>5. ASSUME NEW c \in Closers, CloseTest(c) \/ CloseWait(c) PROVE Jammed'
    BY <1>2, <1>5 DEF CloseTest, CloseWait, ends, channel, rxState
  <1>6. ASSUME NEW f \in Ends PROVE ~(ReceiveCycle(f) \/ ReceiveReset(f) \/ Kill(f))
    <2>1. ~ReceiveReset(f) /\ ~Kill(f)
      BY DEF ReceiveReset, Kill, Up, IInv, TypeOK
    <2>2. ~(Receive(f) \/ ReceiveEnd(f) \/ Handle(f) \/ ClosingShut(f)
            \/ ClosingCallback(f) \/ Signal(f))
      BY <1>1 DEF Receive, ReceiveEnd, Handle, ClosingShut, ClosingCallback, Signal
    <2>3. ~(RespondLock(f) \/ RespondWrite(f) \/ ClosingLock(f) \/ ClosingReply(f))
      BY <1>1 DEF RespondLock, RespondWrite, ClosingLock, ClosingReply, Acquire
    <2> QED
      BY <2>1, <2>2, <2>3 DEF ReceiveCycle
  <1>7. Idle \/ Stuck => Jammed'
    BY <1>2 DEF Idle, Stuck, vars, ends, channel, rxState
  <1> QED
    BY <1>3, <1>4, <1>5, <1>6, <1>7 DEF Next, UserClose

\* A step of the connection, as a step of the channel to e.
ChannelStep(e) ==
    LET w == written[Peer(e)]  h == handled[e]  s == StatusAt(e) IN
    \/ \E m \in Requests : /\ s = "open" /\ s' = s
                           /\ written'[Peer(e)] = Append(w, m) /\ handled'[e] = h
    \/ /\ s # "ended" /\ Len(h) < Len(w) /\ s' \in {s, "broken"}
       /\ handled'[e] = Append(h, w[Len(h) + 1]) /\ written'[Peer(e)] = w
    \/ /\ s # "ended" /\ h = w /\ s' = "ended"
       /\ written'[Peer(e)] = w /\ handled'[e] = h
    \/ /\ s = "open" /\ s' = "broken"
       /\ written'[Peer(e)] = w /\ handled'[e] = h
    \/ s' = s /\ written'[Peer(e)] = w /\ handled'[e] = h

LEMMA ChannelNext ==
  ASSUME Inv, Next, NEW e \in Ends
  PROVE  ChannelStep(e)
  <1> DEFINE x == Peer(e)
             w == written[Peer(e)]
             h == handled[e]
             s == StatusAt(e)
  <1>1. /\ x \in Ends /\ x # e /\ Peer(x) = e
        /\ w \in Seq(Requests) /\ h \in Seq(Requests) /\ hand[e] \in Message
        /\ TypeOK /\ TypeOK' /\ IInv
        /\ \A f \in Ends : f = e \/ f = x
    BY EndFacts, EndsAssumption, InvNext DEF Ends, Inv, IInv, TypeOK
  <1>2. DirectionOK(e) /\ DirectionOK(e)' /\ ClosingOK(e)
    BY InvNext DEF Inv, FlowInv
  <1>3. ~Working => ~Working'
    <2>1. \A f \in Ends : ~Up(f) => ~Up(f)'
      BY <1>1, OnwardNext DEF Onward
    <2> QED
      BY <1>1, <2>1, JamStays DEF Working, Ends
  <1>4. /\ s = IF rx[e] \notin Reading THEN "ended" ELSE IF Working THEN "open" ELSE "broken"
        /\ s' = IF rx'[e] \notin Reading THEN "ended"
                ELSE IF Working' THEN "open" ELSE "broken"
    BY <1>1 DEF StatusAt, Working, Reading, TypeOK
  <1> HIDE DEF x, s
  <1>5. ASSUME rx'[e] \in Reading <=> rx[e] \in Reading
        PROVE  s' = s \/ (s = "open" /\ s' = "broken")
    <2>1. CASE rx[e] \in Reading /\ Working
      BY <1>4, <1>5, <2>1
    <2>2. CASE rx[e] \in Reading /\ ~Working
      BY <1>3, <1>4, <1>5, <2>2
    <2>3. CASE rx[e] \notin Reading
      BY <1>4, <1>5, <2>3
    <2> QED
      BY <2>1, <2>2, <2>3
  <1>6. ASSUME rx'[e] \in Reading <=> rx[e] \in Reading,
               written'[Peer(e)] = w, handled'[e] = h
        PROVE  ChannelStep(e)
    BY <1>5, <1>6 DEF ChannelStep, s
  <1>7. CASE Quiet(e) \/ OtherWrite(e)
    BY <1>6, <1>7 DEF Quiet, OtherWrite, Unseen
  <1>8. ASSUME NEW r \in Requests, EndOf[r] = x, WriteRequest(r) PROVE ChannelStep(e)
    <2>1. /\ Up(x) /\ user[r] = "sending" /\ CanWrite(x)
          /\ written' = IF connected[x] /\ ~Gone(e)
                        THEN [written EXCEPT ![x] = Append(w, r)] ELSE written
          /\ lock' = [lock EXCEPT ![x] = NoThread]
          /\ UNCHANGED <<process, open, rx, handled>>
      BY <1>1, <1>8 DEF WriteRequest, Release, rxState, ends, x
    <2>2. CASE Gone(e) \/ ~connected[x]
      BY <1>6, <2>1, <2>2
    <2>3. CASE ~Gone(e) /\ connected[x]
      <3>1. lock[x] = r /\ open[x] /\ rx[x] \notin {"sending", "replying"}
        BY <1>1, <1>8, <2>1, ThreadsAssumption DEF IInv, LockOK
      <3>2. rx[e] \in Reading
        BY <1>2, <2>1, <2>3, <3>1 DEF DirectionOK, Gone, x
      <3>3. Working
        <4>1. Len(wire[e]) # Capacity
          BY <1>1, <2>1, <2>3, CapacityAssumption DEF CanWrite, TypeOK
        <4> QED
          BY <1>1, <2>1, <2>3, <4>1 DEF Working, Jammed, Gone, Ends
      <3>4. Working'
        <4>1. lock'[x] = NoThread /\ rx'[x] \notin {"sending", "replying"}
          BY <1>1, <2>1, <3>1 DEF TypeOK
        <4> QED
          BY <1>1, <2>1, <3>3, <4>1 DEF Working, Jammed, Up
      <3>5. written'[Peer(e)] = Append(w, r)
        BY <1>1, <2>1, <2>3 DEF TypeOK, x
      <3> QED
        BY <1>4, <2>1, <3>2, <3>3, <3>4, <3>5 DEF ChannelStep, s
    <2> QED
      BY <2>2, <2>3
  <1>9. CASE Receive(e)
    <2>1. /\ rx[e] = "receiving" /\ rx'[e] \in {"closing", "handling"}
          /\ UNCHANGED <<written, handled>>
      BY <1>1, <1>9 DEF Receive, history, TypeOK
    <2>2. CASE rx'[e] = "closing"
      BY <1>2, <1>4, <2>1, <2>2 DEF ChannelStep, DirectionOK, Reading, s
    <2>3. CASE rx'[e] = "handling"
      BY <1>6, <2>1, <2>3 DEF Reading
    <2> QED
      BY <2>1, <2>2, <2>3
  <1>10. CASE ReceiveEnd(e)
    <2>1. rx[e] = "receiving" /\ rx'[e] = "closing" /\ UNCHANGED <<written, handled>>
      BY <1>1, <1>10 DEF ReceiveEnd, history, TypeOK
    <2> QED
      BY <1>2, <1>4, <2>1 DEF ChannelStep, DirectionOK, Reading, s
  <1>11. CASE Handle(e)
    <2>1. /\ rx[e] = "handling" /\ rx'[e] \in {"responding", "receiving"}
          /\ \/ /\ hand[e].kind = "request"
                /\ handled' = [handled EXCEPT ![e] = Append(h, hand[e].id)]
             \/ handled' = handled
          /\ written' = written
      BY <1>1, <1>11 DEF Handle, TypeOK
    <2>2. CASE handled' = handled
      BY <1>6, <2>1, <2>2 DEF Reading
    <2>3. CASE /\ handled' = [handled EXCEPT ![e] = Append(h, hand[e].id)]
               /\ hand[e].kind = "request"
      <3>1. handled'[e] = Append(h, hand[e].id)
        BY <1>1, <2>3 DEF TypeOK
      <3>2. Len(h) < Len(w) /\ hand[e].id = w[Len(h) + 1]
        BY <1>2, <2>1, <2>3 DEF DirectionOK, Taken
      <3>3. s # "ended" /\ s' \in {s, "broken"}
        BY <1>4, <1>5, <2>1 DEF Reading
      <3> QED
        BY <2>1, <3>1, <3>2, <3>3 DEF ChannelStep, s
    <2> QED
      BY <2>1, <2>2, <2>3
  <1> QED
    BY <1>7, <1>8, <1>9, <1>10, <1>11, DirectionSteps DEF Inv, x

\* Each direction of a connection is a Channel, as far as safety goes: requests
\* arrive in order, and none is left behind unless a process ends or both jam.
THEOREM ConnectionIsChannel == Spec => ChannelSafety
  <1>1. Peer(Client) = Connection /\ Peer(Connection) = Client
        /\ Client \in Ends /\ Connection \in Ends
    BY EndsAssumption DEF Peer, Ends
  <1>2. Init => ToClient!Init /\ ToConnection!Init
    <2> SUFFICES ASSUME Init PROVE ToClient!Init /\ ToConnection!Init
      OBVIOUS
    <2>1. \A e \in Ends : rx[e] = "receiving" /\ written[e] = <<>> /\ handled[e] = <<>>
                          /\ wire[e] = <<>> /\ Up(e)
      BY DEF Init, Up
    <2>2. ~Jammed
      BY <1>1, <2>1 DEF Jammed
    <2> QED
      BY <1>1, <2>1, <2>2 DEF ToClient!Init, ToConnection!Init, StatusAt
  <1>3. Inv /\ [Next]_vars => [ToClient!Next]_ToClient!channelVars
    <2> SUFFICES ASSUME Inv, [Next]_vars
                 PROVE  [ToClient!Next]_ToClient!channelVars
      OBVIOUS
    <2>1. CASE Next
      <3>1. ChannelStep(Client)
        BY <1>1, <2>1, ChannelNext
      <3> QED
        BY <1>1, <3>1 DEF ChannelStep, ToClient!Next, ToClient!Send, ToClient!Deliver,
           ToClient!End, ToClient!Break, ToClient!channelVars
    <2>2. CASE UNCHANGED vars
      BY <2>2 DEF vars, ends, channel, rxState, history, ToClient!channelVars, StatusAt,
         Jammed, Up
    <2> QED
      BY <2>1, <2>2
  <1>4. Inv /\ [Next]_vars => [ToConnection!Next]_ToConnection!channelVars
    <2> SUFFICES ASSUME Inv, [Next]_vars
                 PROVE  [ToConnection!Next]_ToConnection!channelVars
      OBVIOUS
    <2>1. CASE Next
      <3>1. ChannelStep(Connection)
        BY <1>1, <2>1, ChannelNext
      <3> QED
        BY <1>1, <3>1 DEF ChannelStep, ToConnection!Next, ToConnection!Send,
           ToConnection!Deliver, ToConnection!End, ToConnection!Break, ToConnection!channelVars
    <2>2. CASE UNCHANGED vars
      BY <2>2 DEF vars, ends, channel, rxState, history, ToConnection!channelVars, StatusAt,
         Jammed, Up
    <2> QED
      BY <2>1, <2>2
  <1> QED
    BY <1>2, <1>3, <1>4, InvInit, InvNext, PTL
       DEF Spec, ChannelSafety, ToClient!SafeSpec, ToConnection!SafeSpec
=============================================================================
