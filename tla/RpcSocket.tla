----------------------------- MODULE RpcSocket -----------------------------
(***************************************************************************)
(* The two ends of an RPC connection (bson_rpc_socket.cpp) once both have  *)
(* been through the connecting handshake.  At each end a detached receive  *)
(* thread runs receiveCycle() while user threads call sendRequest(),       *)
(* sendRequestAndGetResponse() and close().  A write holds sending_lock_   *)
(* while it waits for room in the socket buffers, whose size is Capacity.  *)
(* One message is one write: framing is left to BsonSocket.                *)
(***************************************************************************)
EXTENDS Naturals, Sequences

CONSTANTS
    Client, Connection,     \* the two ends
    Requests,               \* requests, each sent by a thread of its own
    Calls,                  \* those sent by sendRequestAndGetResponse()
    Closers,                \* user threads that call close()
    EndOf,                  \* the end of each of these threads
    MayDie,                 \* ends whose process may be killed
    Capacity,               \* messages that fit in the socket buffers
    NoThread

Ends == {Client, Connection}
Peer(e) == IF e = Client THEN Connection ELSE Client

\* Thread names: a receive thread is named by its end.
Threads == Requests \cup Closers \cup Ends

ASSUME EndsAssumption == Client # Connection /\ MayDie \subseteq Ends
ASSUME ThreadsAssumption ==
    /\ EndOf \in [Requests \cup Closers -> Ends]
    /\ Calls \subseteq Requests
    /\ Requests \cap Closers = {}
    /\ Ends \cap (Requests \cup Closers) = {}
    /\ NoThread \notin Threads
ASSUME CapacityAssumption == Capacity \in Nat \ {0}

VARIABLES
    process,    \* the process of each end: up, killed, aborted
    connected,  \* is_connected_
    open,       \* is_open_ of the underlying BsonSocket
    lock,       \* holder of sending_lock_
    wire,       \* messages on their way to an end, or in its buffer
    reset,      \* the peer's kernel answered with RST instead of FIN
    rx,         \* where the receive thread is
    hand,       \* the message it is handling
    user,       \* where each user thread is
    received,   \* closing_message_received_
    written,    \* requests an end wrote before its closing message
    handled,    \* requests whose callback ran at an end
    answered    \* calls whose response callback ran at the caller

ends    == <<process, connected, open>>
channel == <<wire, reset>>
rxState == <<rx, hand>>
history == <<written, handled, answered>>
vars    == <<ends, lock, channel, rxState, user, received, history>>

Message == [kind : {"request", "response"}, id : Requests]
           \cup [kind : {"close"}, id : {NoThread}]
Closing == [kind |-> "close", id |-> NoThread]

TypeOK ==
    /\ process \in [Ends -> {"up", "killed", "aborted"}]
    /\ connected \in [Ends -> BOOLEAN]
    /\ open \in [Ends -> BOOLEAN]
    /\ lock \in [Ends -> Threads \cup {NoThread}]
    /\ wire \in [Ends -> Seq(Message)]
    /\ reset \in [Ends -> BOOLEAN]
    /\ rx \in [Ends -> {"receiving", "handling", "responding", "sending", "closing",
                        "replying", "shutting", "callback", "signal", "ended"}]
    /\ hand \in [Ends -> Message]
    /\ user \in [Requests \cup Closers ->
                    {"idle", "sending", "locking", "waiting", "asleep",
                     "returned", "dropped"}]
    /\ received \in [Ends -> BOOLEAN]
    /\ written \in [Ends -> Seq(Requests)]
    /\ handled \in [Ends -> Seq(Requests)]
    /\ answered \in SUBSET Requests

Init ==
    /\ process = [e \in Ends |-> "up"]
    /\ connected = [e \in Ends |-> TRUE]
    /\ open = [e \in Ends |-> TRUE]
    /\ lock = [e \in Ends |-> NoThread]
    /\ wire = [e \in Ends |-> <<>>]
    /\ reset = [e \in Ends |-> FALSE]
    /\ rx = [e \in Ends |-> "receiving"]
    /\ hand = [e \in Ends |-> Closing]
    /\ user = [u \in Requests \cup Closers |-> "idle"]
    /\ received = [e \in Ends |-> FALSE]
    /\ written = [e \in Ends |-> <<>>]
    /\ handled = [e \in Ends |-> <<>>]
    /\ answered = {}

-----------------------------------------------------------------------------
Up(e)   == process[e] = "up"
Gone(e) == ~open[e] \/ ~Up(e)       \* the kernel has closed this end

\* BsonSocket::sendMessage, called with sending_lock_ held and the socket
\* open: the message goes out when the buffers have room; it is dropped with
\* an exception, which the callers swallow, when the peer has hung up.
CanWrite(e) == Gone(Peer(e)) \/ Len(wire[Peer(e)]) < Capacity
Write(e, m) == wire' = IF Gone(Peer(e)) THEN wire
                       ELSE [wire EXCEPT ![Peer(e)] = Append(@, m)]

Acquire(e, u) == lock[e] = NoThread /\ lock' = [lock EXCEPT ![e] = u]
Release(e)    == lock' = [lock EXCEPT ![e] = NoThread]

-----------------------------------------------------------------------------
(* User threads: sendRequest and sendRequestAndGetResponse.                *)

Issue(r) ==
    LET e == EndOf[r] IN
    /\ Up(e) /\ user[r] = "idle"
    /\ open[e]
    /\ Acquire(e, r)
    /\ user' = [user EXCEPT ![r] = "sending"]
    /\ UNCHANGED <<ends, channel, rxState, received, history>>

\* sendMessage throws: the socket is closed.
IssueOnClosed(r) ==
    LET e == EndOf[r] IN
    /\ Up(e) /\ user[r] = "idle"
    /\ ~open[e] /\ lock[e] = NoThread
    /\ user' = [user EXCEPT ![r] = "dropped"]
    /\ UNCHANGED <<ends, lock, channel, rxState, received, history>>

WriteRequest(r) ==
    LET e == EndOf[r] IN
    /\ Up(e) /\ r \in Requests /\ user[r] = "sending"
    /\ CanWrite(e)
    /\ Write(e, [kind |-> "request", id |-> r])
    /\ written' = IF connected[e] /\ ~Gone(Peer(e))
                  THEN [written EXCEPT ![e] = Append(@, r)] ELSE written
    /\ user' = [user EXCEPT ![r] = IF Gone(Peer(e)) THEN "dropped" ELSE "returned"]
    /\ Release(e)
    /\ UNCHANGED <<ends, reset, rxState, received, handled, answered>>

-----------------------------------------------------------------------------
(* User threads: close().                                                  *)

\* The unlocked test of is_connected_.
CloseTest(c) ==
    /\ Up(EndOf[c]) /\ user[c] = "idle"
    /\ user' = [user EXCEPT ![c] = IF connected[EndOf[c]] THEN "locking"
                                   ELSE "dropped"]
    /\ UNCHANGED <<ends, lock, channel, rxState, received, history>>

\* sending_lock_ is taken, and is_connected_ cleared without a second test.
CloseLock(c) ==
    LET e == EndOf[c] IN
    /\ Up(e) /\ user[c] = "locking"
    /\ Acquire(e, c)
    /\ connected' = [connected EXCEPT ![e] = FALSE]
    /\ user' = [user EXCEPT ![c] = "sending"]
    /\ UNCHANGED <<process, open, channel, rxState, received, history>>

CloseSend(c) ==
    LET e == EndOf[c] IN
    /\ Up(e) /\ c \in Closers /\ user[c] = "sending"
    /\ \/ open[e] /\ CanWrite(e) /\ Write(e, Closing)
       \/ ~open[e] /\ UNCHANGED wire
    /\ Release(e)
    /\ user' = [user EXCEPT ![c] = "waiting"]
    /\ UNCHANGED <<ends, reset, rxState, received, history>>

\* closing_condition_variable_.wait with its predicate.
CloseWait(c) ==
    /\ Up(EndOf[c]) /\ user[c] = "waiting"
    /\ user' = [user EXCEPT ![c] = IF received[EndOf[c]] THEN "returned"
                                   ELSE "asleep"]
    /\ UNCHANGED <<ends, lock, channel, rxState, received, history>>

-----------------------------------------------------------------------------
(* The receive thread: receiveCycle.                                       *)

Receive(e) ==
    /\ Up(e) /\ rx[e] = "receiving"
    /\ wire[e] # <<>>
    /\ hand' = [hand EXCEPT ![e] = Head(wire[e])]
    /\ wire' = [wire EXCEPT ![e] = Tail(@)]
    /\ rx' = [rx EXCEPT ![e] = IF Head(wire[e]).kind = "close" THEN "closing"
                               ELSE "handling"]
    /\ UNCHANGED <<ends, lock, reset, user, received, history>>

\* End of stream: PeerClosedException leaves received_message empty.  A reset
\* may have been reported to a blocked send() already.
\* Variants: the cycle runs only while is_connected_; the exception does not
\* end it.
ReceiveWhileConnected(e) ==
    /\ Up(e) /\ rx[e] = "receiving"
    /\ ~connected[e] \/ (wire[e] = <<>> /\ Gone(Peer(e)))
    /\ rx' = [rx EXCEPT ![e] = "closing"]
    /\ UNCHANGED <<ends, lock, channel, hand, user, received, history>>
ReceiveRetry(e) ==
    /\ Up(e) /\ rx[e] = "receiving"
    /\ wire[e] = <<>> /\ Gone(Peer(e))
    /\ UNCHANGED vars
ReceiveEnd(e) ==
    /\ Up(e) /\ rx[e] = "receiving"
    /\ wire[e] = <<>> /\ Gone(Peer(e))
    /\ rx' = [rx EXCEPT ![e] = "closing"]
    /\ UNCHANGED <<ends, lock, channel, hand, user, received, history>>

\* recv returns -1 (ECONNRESET) and append(buffer, -1) throws
\* std::length_error, which no handler of receiveCycle catches.
ReceiveReset(e) ==
    /\ Up(e) /\ rx[e] = "receiving"
    /\ wire[e] = <<>> /\ reset[e]
    /\ process' = [process EXCEPT ![e] = "aborted"]
    /\ UNCHANGED <<connected, open, lock, channel, rxState, user, received, history>>

\* processRequest, and processRequestResponse up to its sendRequest.
Handle(e) ==
    LET m == hand[e] IN
    /\ Up(e) /\ rx[e] = "handling"
    /\ IF m.kind = "request"
       THEN /\ handled' = [handled EXCEPT ![e] = Append(@, m.id)]
            /\ UNCHANGED answered
       ELSE /\ answered' = answered \cup {m.id}
            /\ UNCHANGED handled
    /\ rx' = [rx EXCEPT ![e] = IF m.kind = "request" /\ m.id \in Calls
                               THEN "responding" ELSE "receiving"]
    /\ UNCHANGED <<ends, lock, channel, hand, user, received, written>>

RespondLock(e) ==
    /\ Up(e) /\ rx[e] = "responding"
    /\ Acquire(e, e)
    /\ rx' = [rx EXCEPT ![e] = "sending"]
    /\ UNCHANGED <<ends, channel, hand, user, received, history>>

\* Variant: the response does not say whose it is.
RespondUnnamed(e) ==
    /\ Up(e) /\ rx[e] = "sending"
    /\ CanWrite(e)
    /\ Write(e, [kind |-> "response", id |-> NoThread])
    /\ Release(e)
    /\ rx' = [rx EXCEPT ![e] = "receiving"]
    /\ UNCHANGED <<ends, reset, hand, user, received, history>>
RespondWrite(e) ==
    /\ Up(e) /\ rx[e] = "sending"
    /\ CanWrite(e)
    /\ Write(e, [kind |-> "response", id |-> hand[e].id])
    /\ Release(e)
    /\ rx' = [rx EXCEPT ![e] = "receiving"]
    /\ UNCHANGED <<ends, reset, hand, user, received, history>>

\* The closing branch takes sending_lock_ until the descriptor is closed.
\* Variant: it does not.
ClosingUnlocked(e) ==
    /\ Up(e) /\ rx[e] = "closing"
    /\ rx' = [rx EXCEPT ![e] = IF connected[e] THEN "replying" ELSE "shutting"]
    /\ connected' = [connected EXCEPT ![e] = FALSE]
    /\ UNCHANGED <<process, open, lock, channel, hand, user, received, history>>
ClosingLock(e) ==
    /\ Up(e) /\ rx[e] = "closing"
    /\ Acquire(e, e)
    /\ rx' = [rx EXCEPT ![e] = IF connected[e] THEN "replying" ELSE "shutting"]
    /\ connected' = [connected EXCEPT ![e] = FALSE]
    /\ UNCHANGED <<process, open, channel, hand, user, received, history>>

ClosingReply(e) ==
    /\ Up(e) /\ rx[e] = "replying"
    /\ CanWrite(e)
    /\ Write(e, Closing)
    /\ rx' = [rx EXCEPT ![e] = "shutting"]
    /\ UNCHANGED <<ends, lock, reset, hand, user, received, history>>

\* BsonSocket::close and unlock.  Unread input turns the FIN into a RST.
ClosingShut(e) ==
    /\ Up(e) /\ rx[e] = "shutting"
    /\ open' = [open EXCEPT ![e] = FALSE]
    /\ reset' = [reset EXCEPT ![Peer(e)] = @ \/ wire[e] # <<>>]
    /\ wire' = [wire EXCEPT ![e] = <<>>]
    /\ Release(e)
    /\ rx' = [rx EXCEPT ![e] = "callback"]
    /\ UNCHANGED <<process, connected, hand, user, received, history>>

ClosingCallback(e) ==
    /\ Up(e) /\ rx[e] = "callback"
    /\ rx' = [rx EXCEPT ![e] = "signal"]
    /\ UNCHANGED <<ends, lock, channel, hand, user, received, history>>

\* closing_message_received_ is set and one waiting thread is notified.
\* Variant: the flag is set without notifying.
SignalNobody(e) ==
    /\ Up(e) /\ rx[e] = "signal"
    /\ received' = [received EXCEPT ![e] = TRUE]
    /\ UNCHANGED user
    /\ rx' = [rx EXCEPT ![e] = "ended"]
    /\ UNCHANGED <<ends, lock, channel, hand, history>>
Signal(e) ==
    LET asleep == {c \in Closers : EndOf[c] = e /\ user[c] = "asleep"} IN
    /\ Up(e) /\ rx[e] = "signal"
    /\ received' = [received EXCEPT ![e] = TRUE]
    /\ \/ \E c \in asleep : user' = [user EXCEPT ![c] = "waiting"]
       \/ asleep = {} /\ UNCHANGED user
    /\ rx' = [rx EXCEPT ![e] = "ended"]
    /\ UNCHANGED <<ends, lock, channel, hand, history>>

-----------------------------------------------------------------------------
\* A process is killed; its kernel closes the socket for it.
Kill(e) ==
    /\ e \in MayDie /\ Up(e)
    /\ process' = [process EXCEPT ![e] = "killed"]
    /\ reset' = [reset EXCEPT ![Peer(e)] = @ \/ (open[e] /\ wire[e] # <<>>)]
    /\ UNCHANGED <<connected, open, lock, wire, rxState, user, received, history>>

\* Nothing is under way: the connection is idle, or closed.
Idle ==
    /\ \A e \in Ends :
           \/ ~Up(e) \/ rx[e] = "ended"
           \/ (rx[e] = "receiving" /\ wire[e] = <<>> /\ ~Gone(Peer(e)))
    /\ \A u \in Requests \cup Closers :
           ~Up(EndOf[u]) \/ user[u] \in {"idle", "returned", "dropped"}
    /\ UNCHANGED vars

\* Each end waits for the other to read, with its own buffer full: a thread is
\* blocked in send(), holding sending_lock_, and the receive thread needs that
\* lock or is this thread.  Only the end of a process resolves it.
Jammed == \A e \in Ends :
    /\ open[e] /\ Up(e) /\ Len(wire[e]) = Capacity
    /\ \/ rx[e] \in {"sending", "replying"}
       \/ rx[e] \in {"closing", "responding"} /\ lock[e] # NoThread
Stuck == Jammed /\ UNCHANGED vars

UserSend(r)  == WriteRequest(r)
UserClose(c) == CloseLock(c) \/ CloseSend(c) \/ CloseWait(c)
ReceiveCycle(e) ==
    \/ Receive(e) \/ ReceiveEnd(e) \/ Handle(e)
    \/ RespondLock(e) \/ RespondWrite(e)
    \/ ClosingLock(e) \/ ClosingReply(e) \/ ClosingShut(e)
    \/ ClosingCallback(e) \/ Signal(e)

Next ==
    \/ \E r \in Requests : Issue(r) \/ IssueOnClosed(r) \/ UserSend(r)
    \/ \E c \in Closers : CloseTest(c) \/ UserClose(c)
    \/ \E e \in Ends : ReceiveCycle(e) \/ ReceiveReset(e) \/ Kill(e)
    \/ Idle \/ Stuck

Spec == Init /\ [][Next]_vars

\* Started threads run on; starting a request or a close is up to the user.
Fairness ==
    /\ \A r \in Requests : WF_vars(UserSend(r))
    /\ \A c \in Closers : WF_vars(UserClose(c))
    /\ \A e \in Ends : WF_vars(ReceiveCycle(e))

FairSpec == Spec /\ Fairness

-----------------------------------------------------------------------------
(* Properties.                                                             *)

\* Whoever writes holds sending_lock_ on an open descriptor: the receive
\* thread cannot close it under a blocked send(), nor two writes mix.
WritersOwnOpenSocket ==
    /\ \A r \in Requests : user[r] = "sending" =>
           open[EndOf[r]] /\ lock[EndOf[r]] = r
    /\ \A e \in Ends :
           /\ rx[e] \in {"sending", "replying", "shutting"} => open[e] /\ lock[e] = e
           /\ rx[e] = "receiving" => open[e]

\* Seen by its users, each direction is a Channel of requests: delivered in
\* order, and all of them unless a process ends or both ends jam.
StatusAt(e) ==
    IF rx[e] \in {"closing", "replying", "shutting", "callback", "signal", "ended"}
    THEN "ended"
    ELSE IF Up(Client) /\ Up(Connection) /\ ~Jammed THEN "open" ELSE "broken"
ToClient     == INSTANCE Channel WITH Message <- Requests, sent <- written[Connection],
                    received <- handled[Client], status <- StatusAt(Client)
ToConnection == INSTANCE Channel WITH Message <- Requests, sent <- written[Client],
                    received <- handled[Connection], status <- StatusAt(Connection)
ImplementsChannel == ToClient!Spec /\ ToConnection!Spec

\* The answer to a call reaches its caller when only the caller's end closes
\* the connection, whatever is in flight (test_bson_rpc_socket.cpp, RequestResponse).
CallsAnswered ==
    \A e \in Ends :
        (/\ \A x \in Ends : Up(x) /\ rx[x] = "ended"
         /\ \A c \in Closers : EndOf[c] = Peer(e) => user[c] \in {"idle", "dropped"})
        => \A i \in DOMAIN written[e] :
               written[e][i] \in Calls => written[e][i] \in answered

\* What a user thread has begun ends: a request is not stuck in a full buffer
\* with sending_lock_ in hand, and close() returns, whatever the peer does, when
\* one thread of its end calls it; unless both ends jam.
CallsReturn ==
    \A u \in Requests \cup Closers :
        []<>(user[u] \in {"sending", "locking", "waiting", "asleep"}
                 => ~Up(EndOf[u]) \/ Jammed)

\* Once an end has begun to close, or its peer is gone, both ends close.
BothEndsClose ==
    \A e \in Ends :
        []<>(~connected[e] \/ Gone(Peer(e)) => rx[e] = "ended" \/ ~Up(e) \/ Jammed)
=============================================================================
