---------------------------- MODULE ConnectProofs ----------------------------
(* Theorems about the connecting handshake, for any number of clients, any  *)
(* of them silent or impatient, and any length of the backlog.              *)
EXTENDS Connect, SequenceTheorems, TLAPS

\* The mediator reads the requests of a client, or is about to, or has stopped.
Known(c) ==
    c \in named /\ (c \in started \/ (serving = c /\ server = "start") \/ ~Listening)

\* Every client is served once.
Once ==
    /\ \A i, j \in 1..Len(backlog) : backlog[i] = backlog[j] => i = j
    /\ \A i \in 1..Len(backlog) : backlog[i] # serving

\* Who has not been sent anything yet.
Fresh(c) == (\E i \in 1..Len(backlog) : backlog[i] = c) \/ (serving = c /\ server = "ack")

\* Each client is as far as the messages on their way to it say.
StageOK(c) ==
    /\ client[c] = "none" => ~Fresh(c) /\ serving # c /\ down[c] = "nothing"
    /\ Fresh(c) => client[c] \in {"polling", "failed", "gone"} /\ down[c] = "nothing"
    /\ down[c] = "ack" => client[c] \in {"polling", "failed", "gone"}
    /\ down[c] = "clr" => Known(c)
    /\ client[c] = "connected" => Known(c)

IInv ==
    /\ TypeOK /\ Once
    /\ server \in {"clr", "start"} => serving \in named
    /\ \A c \in Clients : StageOK(c)

LEMMA IInvInit == Init => IInv
  BY ConnectAssumption
     DEF Init, IInv, TypeOK, Once, Fresh, Known, StageOK, Handshake

LEMMA TakeFirst ==
  ASSUME NEW q \in Seq(Clients), q # <<>>
  PROVE  /\ Head(q) = q[1] /\ Head(q) \in Clients
         /\ Tail(q) \in Seq(Clients) /\ Len(Tail(q)) = Len(q) - 1
         /\ Len(q) \in Nat /\ Len(q) >= 1
         /\ \A i \in 1..Len(Tail(q)) : Tail(q)[i] = q[i + 1]
  BY HeadTailProperties, EmptySeq

LEMMA IInvNext == IInv /\ [Next]_vars => IInv'
  <1> SUFFICES ASSUME IInv, [Next]_vars PROVE IInv'
    OBVIOUS
  <1> USE ConnectAssumption
      DEF IInv, TypeOK, Once, Handshake, Known, Fresh, Listening, StageOK, Becomes,
          accepting, clients
  <1>0. Len(backlog) \in Nat /\ <<>> \in Seq(Clients) /\ Len(<<>>) = 0
    BY EmptySeq
  <1>1. CASE Deactivate
    <2>1. TypeOK'
      BY <1>1 DEF Deactivate
    <2>2. Once' /\ (server' \in {"clr", "start"} => serving' \in named')
      BY <1>1 DEF Deactivate
    <2>3. \A d \in Clients : StageOK(d)'
      BY <1>1 DEF Deactivate
    <2> QED
      BY <2>1, <2>2, <2>3
  <1>2. CASE Test
    <2>1. CASE active
      BY <1>0, <1>2, <2>1 DEF Test
    <2>2. CASE ~active
      <3>1. /\ server' = "clear" /\ backlog' = <<>> /\ open' \subseteq open
            /\ UNCHANGED <<active, serving, named, started, client, down, name>>
            /\ server = "test" /\ serving = Nobody
        BY <1>2, <2>2 DEF Test
      <3>2. TypeOK' /\ Once'
        BY <1>0, <3>1
      <3>3. \A c \in Clients : StageOK(c)'
        BY <1>0, <3>1
      <3> QED
        BY <3>1, <3>2, <3>3
    <2> QED
      BY <2>1, <2>2
  <1>3. CASE Accept
    <2>1. CASE backlog = <<>>
      BY <1>3, <2>1 DEF Accept
    <2>2. CASE backlog # <<>>
      <3>1. /\ server = "accept" /\ server' = "ack"
            /\ serving' = Head(backlog) /\ backlog' = Tail(backlog)
            /\ UNCHANGED <<active, named, started, open, client, down, name>>
        BY <1>3, <2>2 DEF Accept
      <3>2. TypeOK' /\ Once'
        BY <3>1, <2>2, TakeFirst
      <3>3. \A c \in Clients : Fresh(c)' => Fresh(c)
        BY <3>1, <2>2, TakeFirst
      <3>4. \A c \in Clients : Known(c) => Known(c)'
        BY <3>1
      <3>5. ASSUME NEW c \in Clients PROVE StageOK(c)'
        <4>1. serving' = c => Fresh(c)
          BY <3>1, <2>2, TakeFirst
        <4> QED
          BY <3>1, <3>3, <3>4, <4>1
      <3> QED
        BY <3>1, <3>2, <3>5
    <2> QED
      BY <2>1, <2>2
  <1>4. CASE AcceptFails
    BY <1>0, <1>4 DEF AcceptFails, Fail
  <1>5. CASE SendAck
    BY <1>0, <1>5 DEF SendAck, SendDown
  <1>6. CASE ReceiveName
    BY <1>6 DEF ReceiveName
  <1>7. CASE SendClr
    BY <1>0, <1>7 DEF SendClr, SendDown
  <1>8. CASE StartReceiveCycle
    BY <1>8 DEF StartReceiveCycle
  <1>9. CASE HandshakeFails
    BY <1>0, <1>9 DEF HandshakeFails, Fail
  <1>10. CASE Sleep
    BY <1>10 DEF Sleep
  <1>11. CASE Clear
    BY <1>11 DEF Clear
  <1>12. ASSUME NEW c \in Clients, Connect(c) PROVE IInv'
    <2>1. /\ client[c] = "none" /\ Len(backlog) < Backlog
          /\ client' = [client EXCEPT ![c] = "polling"]
          /\ backlog' = Append(backlog, c) /\ open' = open \cup {c}
          /\ UNCHANGED <<active, server, serving, named, started, down, name>>
      BY <1>12 DEF Connect
    <2>2. /\ Append(backlog, c) \in Seq(Clients)
          /\ Len(Append(backlog, c)) = Len(backlog) + 1
          /\ Append(backlog, c)[Len(backlog) + 1] = c
          /\ \A i \in 1..Len(backlog) : Append(backlog, c)[i] = backlog[i]
      BY AppendProperties
    <2>3. TypeOK'
      BY <1>0, <2>1, <2>2
    <2>4. Once'
      BY <1>0, <2>1, <2>2
    <2>5. ASSUME NEW d \in Clients PROVE StageOK(d)'
      <3>1. d # c => (Fresh(d)' <=> Fresh(d))
        BY <1>0, <2>1, <2>2
      <3>2. Known(d)' <=> Known(d)
        BY <2>1
      <3> QED
        BY <2>1, <3>1, <3>2
    <2> QED
      BY <2>1, <2>3, <2>4, <2>5
  <1>13. ASSUME NEW c \in Clients, Refused(c) PROVE IInv'
    BY <1>13 DEF Refused
  <1>14. ASSUME NEW c \in Clients, Leave(c) PROVE IInv'
    BY <1>14 DEF Leave
  <1>15. ASSUME NEW c \in Clients, ReceiveAck(c) PROVE IInv'
    BY <1>15 DEF ReceiveAck
  <1>16. ASSUME NEW c \in Clients, SendName(c) PROVE IInv'
    <2>1. TypeOK'
      BY <1>16 DEF SendName
    <2>2. Once' /\ (server' \in {"clr", "start"} => serving' \in named')
      BY <1>16 DEF SendName
    <2>3. \A d \in Clients : StageOK(d)'
      BY <1>16 DEF SendName
    <2> QED
      BY <2>1, <2>2, <2>3
  <1>17. ASSUME NEW c \in Clients, ReceiveClr(c) PROVE IInv'
    BY <1>17 DEF ReceiveClr
  <1>18. ASSUME NEW c \in Clients, ReceiveFails(c) PROVE IInv'
    BY <1>18 DEF ReceiveFails
  <1>19. ASSUME NEW c \in Clients, TimeOut(c) PROVE IInv'
    BY <1>19 DEF TimeOut
  <1>20. CASE UNCHANGED vars
    BY <1>20 DEF vars
  <1> QED
    BY <1>1, <1>2, <1>3, <1>4, <1>5, <1>6, <1>7, <1>8, <1>9, <1>10, <1>11, <1>12,
       <1>13, <1>14, <1>15, <1>16, <1>17, <1>18, <1>19, <1>20
       DEF Next, AcceptingThread, ConnectToServer

\* The state keeps its type.
THEOREM TypeCorrect == Spec => []TypeOK
  <1>1. IInv => TypeOK
    BY DEF IInv
  <1> QED
    BY <1>1, IInvInit, IInvNext, PTL DEF Spec

\* A client whose connectToServer() has returned is known to the mediator, and
\* its requests are read, whatever the other clients do.
THEOREM ConnectedIsKnown == Spec => []KnownWhenConnected
  <1>1. IInv => KnownWhenConnected
    BY DEF IInv, StageOK, Known, KnownWhenConnected
  <1> QED
    BY <1>1, IInvInit, IInvNext, PTL DEF Spec
=============================================================================
