------------------------------ MODULE Framing ------------------------------
(***************************************************************************)
(* One direction of a BsonSocket connection (bson_socket.cpp): each        *)
(* message is its size in HeaderSize bytes and then its body, written by   *)
(* loops of send() and read back by loops of recv() into storage_bson_.    *)
(* A blocking send() copies what it is given as room appears; it returns   *)
(* early when a signal arrives in between or the peer closes.              *)
(* A byte is its message, the part it belongs to and its place in it.      *)
(***************************************************************************)
EXTENDS Naturals, Sequences

CONSTANTS
    Size,           \* the size of the body of each message
    HeaderSize,     \* 8: sizeof(size_t)
    BufferSize,     \* kReceiveBufferSize_, the most that one recv() returns
    Room,           \* bytes that fit in the socket buffers
    Modulus,        \* 2^64: size_to_complete_send is a size_t
    ShortSends      \* bound: signals during one loop of send()

Messages == DOMAIN Size
PartSize(m, part) == IF part = "size" THEN HeaderSize ELSE Size[m]
Bytes == {b \in Messages \X {"size", "body"} \X Nat : b[3] \in 1..PartSize(b[1], b[2])}

ASSUME SizeAssumption == Size \in Seq(Nat \ {0})
ASSUME WidthAssumption ==
    /\ {HeaderSize, BufferSize, Room} \subseteq Nat \ {0}
    /\ ShortSends \in Nat
    /\ Modulus \in Nat /\ HeaderSize < Modulus
    /\ \A m \in Messages : Size[m] < Modulus

VARIABLES
    sender,     \* sendMessage: idle, in the loop of the size or body, failed
    current,    \* messages that sendMessage was called for
    left,       \* size_to_complete_send
    offset,     \* send_size, where the next send() starts
    copied,     \* bytes that the running send() has copied so far
    shorts,     \* its loop's early returns
    wire,       \* bytes in the socket buffers
    storage,    \* storage_bson_
    receiver,   \* receiveMessage: wants a size or a body, or has thrown
    expected,   \* bson_size
    returned,   \* messages that receiveMessage returned
    open        \* is_open_ of both ends

sending   == <<sender, current, left, offset, copied, shorts>>
receiving == <<storage, receiver, expected, returned>>
vars == <<sending, wire, receiving, open>>

TypeOK ==
    /\ sender \in {"idle", "size", "body", "failed"}
    /\ current \in 0..Len(Size)
    /\ left \in 0..(Modulus - 1) /\ offset \in Nat /\ copied \in Nat
    /\ shorts \in 0..ShortSends
    /\ wire \in Seq(Bytes) /\ Len(wire) <= Room
    /\ storage \in Seq(Bytes)
    /\ receiver \in {"size", "body", "garbled", "ended"}
    /\ expected \in Nat
    /\ returned \in Seq(Messages)
    /\ open \in [{"sender", "receiver"} -> BOOLEAN]

Init ==
    /\ sender = "idle" /\ current = 0
    /\ left = 0 /\ offset = 0 /\ copied = 0 /\ shorts = 0
    /\ wire = <<>> /\ storage = <<>>
    /\ receiver = "size" /\ expected = 0 /\ returned = <<>>
    /\ open = [e \in {"sender", "receiver"} |-> TRUE]

-----------------------------------------------------------------------------
(* sendMessage.                                                            *)

Total(part) == PartSize(current, part)

\* A loop begins with everything left to send.
Enter(part, total) ==
    /\ sender' = part
    /\ left' = total /\ offset' = 0 /\ copied' = 0 /\ shorts' = 0

\* The poll() finds out whether the peer has closed.
SendMessage ==
    /\ open["sender"] /\ sender = "idle" /\ current < Len(Size)
    /\ IF open["receiver"]
       THEN current' = current + 1 /\ Enter("size", HeaderSize)
       ELSE sender' = "failed" /\ UNCHANGED <<current, left, offset, copied, shorts>>
    /\ UNCHANGED <<wire, receiving, open>>

InLoop == open["sender"] /\ sender \in {"size", "body"}

\* send(fd, data + send_size, total - send_size) copies another byte.
\* Variant: the length is not reduced.
CopyPast ==
    /\ InLoop /\ open["receiver"]
    /\ copied < Total(sender)
    /\ Len(wire) < Room
    /\ wire' = Append(wire, <<current, sender, offset + copied + 1>>)
    /\ copied' = copied + 1
    /\ UNCHANGED <<sender, current, left, offset, shorts, receiving, open>>
Copy ==
    /\ InLoop /\ open["receiver"]
    /\ offset + copied < Total(sender)
    /\ Len(wire) < Room
    /\ wire' = Append(wire, <<current, sender, offset + copied + 1>>)
    /\ copied' = copied + 1
    /\ UNCHANGED <<sender, current, left, offset, shorts, receiving, open>>

\* The loop goes on unless nothing is left; the next offset is the result of
\* this send().  Variant: the body's loop is left when anything was sent.
AfterSendOnce(n) == IF sender = "body" THEN 0 ELSE (left + Modulus - n) % Modulus
AfterSend(n) == (left + Modulus - n) % Modulus

Loop(interrupted) ==
    IF AfterSend(copied) > 0
    THEN /\ left' = AfterSend(copied)
         /\ offset' = copied /\ copied' = 0
         /\ shorts' = shorts + interrupted
         /\ UNCHANGED sender
    ELSE IF sender = "size" THEN Enter("body", Size[current])
                            ELSE Enter("idle", 0)

SendReturns ==
    /\ InLoop
    /\ offset + copied = Total(sender)
    /\ Loop(0)
    /\ UNCHANGED <<current, wire, receiving, open>>

\* A signal, or the peer's end, after some bytes were copied.
SendReturnsShort ==
    /\ InLoop /\ copied > 0 /\ offset + copied < Total(sender)
    /\ \/ shorts < ShortSends /\ Loop(1)
       \/ ~open["receiver"] /\ Loop(0)
    /\ UNCHANGED <<current, wire, receiving, open>>

\* send() returns -1: SocketErrnoException.  Variant: the result is not tested.
SendFailsIgnored ==
    /\ InLoop /\ copied = 0 /\ ~open["receiver"]
    /\ left' = (left + 1) % Modulus
    /\ UNCHANGED <<sender, current, offset, copied, shorts, wire, receiving, open>>
SendFails ==
    /\ InLoop /\ copied = 0 /\ ~open["receiver"]
    /\ sender' = "failed"
    /\ UNCHANGED <<current, left, offset, copied, shorts, wire, receiving, open>>

-----------------------------------------------------------------------------
(* receiveMessage.                                                         *)

Wanted == IF receiver = "size" THEN HeaderSize ELSE expected
Reads  == open["receiver"] /\ receiver \in {"size", "body"} /\ Len(storage) < Wanted

First(n, s) == SubSeq(s, 1, n)
After(n, s) == SubSeq(s, n + 1, Len(s))

Recv ==
    LET n == IF Len(wire) < BufferSize THEN Len(wire) ELSE BufferSize IN
    /\ Reads /\ n > 0
    /\ storage' = storage \o First(n, wire)
    /\ wire' = After(n, wire)
    /\ UNCHANGED <<sending, receiver, expected, returned, open>>

\* recv() returns 0: PeerClosedException.  What is in storage_bson_ stays.
RecvEnd ==
    /\ Reads /\ wire = <<>> /\ ~open["sender"]
    /\ receiver' = "ended"
    /\ UNCHANGED <<sending, wire, storage, expected, returned, open>>

Whole(m, part, n) == [i \in 1..n |-> <<m, part, i>>]

\* The first bytes are taken for a size; if they are another thing, anything
\* may come out.
DecodeSize ==
    /\ open["receiver"] /\ receiver = "size" /\ Len(storage) >= HeaderSize
    /\ LET m == storage[1][1] IN
       IF First(HeaderSize, storage) = Whole(m, "size", HeaderSize)
       THEN receiver' = "body" /\ expected' = Size[m]
       ELSE receiver' = "garbled" /\ UNCHANGED expected
    /\ storage' = After(HeaderSize, storage)
    /\ UNCHANGED <<sending, wire, returned, open>>

\* Variant: what follows the body in storage_bson_ goes with it.
DecodeBodyAll ==
    /\ open["receiver"] /\ receiver = "body" /\ Len(storage) >= expected
    /\ LET m == storage[1][1] IN
       IF First(expected, storage) = Whole(m, "body", Size[m])
       THEN receiver' = "size" /\ returned' = Append(returned, m)
       ELSE receiver' = "garbled" /\ UNCHANGED returned
    /\ storage' = <<>>
    /\ UNCHANGED <<sending, wire, expected, open>>
DecodeBody ==
    /\ open["receiver"] /\ receiver = "body" /\ Len(storage) >= expected
    /\ LET m == storage[1][1] IN
       IF First(expected, storage) = Whole(m, "body", Size[m])
       THEN receiver' = "size" /\ returned' = Append(returned, m)
       ELSE receiver' = "garbled" /\ UNCHANGED returned
    /\ storage' = After(expected, storage)
    /\ UNCHANGED <<sending, wire, expected, open>>

-----------------------------------------------------------------------------
\* close(), the destructor or the end of the process, at any time; what the
\* receiver has not read by then is lost.
Close(e) ==
    /\ open[e]
    /\ open' = [open EXCEPT ![e] = FALSE]
    /\ wire' = IF e = "receiver" THEN <<>> ELSE wire
    /\ UNCHANGED <<sending, receiving>>

Stopped ==
    /\ ~open["receiver"] \/ receiver \in {"ended", "garbled"}
    /\ ~open["sender"] \/ sender = "failed"
    /\ UNCHANGED vars

SendingThread   == Copy \/ SendReturns \/ SendReturnsShort \/ SendFails
ReceivingThread == Recv \/ RecvEnd \/ DecodeSize \/ DecodeBody

Next == SendMessage \/ SendingThread \/ ReceivingThread
        \/ (\E e \in {"sender", "receiver"} : Close(e)) \/ Stopped

Spec == Init /\ [][Next]_vars

\* A blocked call goes on when it can; calling sendMessage is up to the user.
FairSpec == Spec /\ WF_vars(SendingThread) /\ WF_vars(ReceivingThread)

-----------------------------------------------------------------------------
(* Properties.                                                             *)

\* The bytes of a connection: each message is its size and then its body.
Byte(m, part, i) == IF i <= PartSize(m, part) THEN <<m, part, i>>
                    ELSE IF part = "size" THEN <<m, "body", 1>> ELSE <<m + 1, "size", 1>>
NextByte(b) == Byte(b[1], b[2], b[3] + 1)

\* The byte that sendMessage has to write next, and those that receiveMessage
\* has not yet taken apart.
Upcoming == IF sender \in {"size", "body"}
            THEN Byte(current, sender, Total(sender) - left + copied + 1)
            ELSE Byte(current + 1, "size", 1)
Pending == (IF receiver = "body" THEN Whole(Len(returned) + 1, "size", HeaderSize) ELSE <<>>)
           \o storage \o wire

\* Whatever mixture of early returns and small reads, what receiveMessage has
\* not yet taken apart is the rest of what sendMessage has written, in order and
\* without a gap: it begins with the next message, and each byte in storage and
\* on the wire is followed by the next one of the concatenated frames, up to
\* the one that is to be written (bson_socket.cpp:41-61, 71-100).
FramesInOrder ==
    open["receiver"] /\ receiver # "ended" =>
        LET s == Append(Pending, Upcoming) IN
        /\ s[1] = <<Len(returned) + 1, "size", 1>>
        /\ \A i \in 1..Len(Pending) : s[i + 1] = NextByte(s[i])

\* A message that is handed over whole arrives whole, in order, once, and in
\* the end if both stay: BsonSocket implements Channel.
Complete == IF left > 0 /\ ~(sender = "body" /\ left = copied) THEN current - 1
            ELSE current
Sent == [m \in 1..Complete |-> m]
C == INSTANCE Channel WITH
         Message <- Messages, sent <- Sent, received <- returned,
         status <- IF receiver = "ended" THEN "ended"
                   ELSE IF open["receiver"] THEN "open" ELSE "broken"
ImplementsChannel == C!Spec

\* sendMessage ends, by itself or by an exception, as long as the peer reads
\* or closes (bson_socket.hpp:34).
SendEnds == sender \in {"size", "body"} ~> sender \in {"idle", "failed"} \/ ~open["sender"]

\* bson_socket.hpp:34: "Send a Json message in completion by calling send()
\* until all bytes are sent": no reader takes other bytes for a message.
NothingGarbled == receiver # "garbled"
=============================================================================
