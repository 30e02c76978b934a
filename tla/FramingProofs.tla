--------------------------- MODULE FramingProofs ---------------------------
(* Theorems about one direction of a BsonSocket, for any messages and any   *)
(* sizes of buffers.                                                        *)
EXTENDS Framing, SequenceTheorems, TLAPS

Parts == {"size", "body"}

LEMMA SizeFacts ==
  /\ Messages = 1..Len(Size) /\ Len(Size) \in Nat
  /\ \A m \in Messages : \A part \in Parts :
         PartSize(m, part) \in Nat /\ PartSize(m, part) >= 1 /\ PartSize(m, part) < Modulus
  /\ \A m : PartSize(m, "size") = HeaderSize /\ PartSize(m, "body") = Size[m]
  /\ HeaderSize \in Nat /\ HeaderSize >= 1 /\ HeaderSize < Modulus
  /\ BufferSize \in Nat /\ BufferSize >= 1 /\ Modulus \in Nat /\ ShortSends \in Nat
  /\ Room \in Nat
  <1>1. Messages = 1..Len(Size) /\ Len(Size) \in Nat /\ \A m \in Messages : Size[m] \in Nat \ {0}
    BY SizeAssumption DEF Messages
  <1> QED
    BY <1>1, WidthAssumption DEF Parts, PartSize

\* size_to_complete_send does not wrap around unless more was sent than was left.
LEMMA AfterSendFacts ==
  ASSUME left \in 0..(Modulus - 1), NEW n \in Nat
  PROVE  AfterSend(n) \in 0..(Modulus - 1) /\ (n <= left => AfterSend(n) = left - n)
  <1>1. Modulus \in Nat /\ Modulus >= 1
    BY SizeFacts
  <1>2. (left + Modulus - n) % Modulus \in 0..(Modulus - 1)
    BY <1>1
  <1>3. ASSUME n <= left PROVE (left + Modulus - n) % Modulus = left - n
    BY <1>1, <1>3
  <1> QED
    BY <1>2, <1>3 DEF AfterSend

LEMMA ByteFacts ==
  /\ \A m \in Messages : \A part \in Parts : \A i \in 1..PartSize(m, part) :
         <<m, part, i>> \in Bytes
  /\ \A b \in Bytes : /\ b = <<b[1], b[2], b[3]>> /\ b[1] \in Messages /\ b[2] \in Parts
                      /\ b[3] \in 1..PartSize(b[1], b[2])
  BY DEF Bytes, Parts

\* What First and After take from a sequence.
LEMMA SplitFacts ==
  ASSUME NEW S, NEW s \in Seq(S), NEW n \in Nat, n <= Len(s)
  PROVE  /\ First(n, s) \in Seq(S) /\ Len(First(n, s)) = n /\ Len(s) \in Nat
         /\ After(n, s) \in Seq(S) /\ Len(After(n, s)) = Len(s) - n
         /\ \A i \in 1..n : First(n, s)[i] = s[i]
         /\ \A i \in 1..(Len(s) - n) : After(n, s)[i] = s[i + n]
  <1>1. Len(s) \in Nat
    BY LenProperties
  <1>2. /\ First(n, s) \in Seq(S) /\ Len(First(n, s)) = n
        /\ \A i \in 1..n : First(n, s)[i] = s[i]
    <2>1. \A i \in 1..n : i \in 1..Len(s)
      BY <1>1
    <2> QED
      BY <1>1, <2>1, SubSeqProperties, ElementOfSeq DEF First
  <1>3. /\ After(n, s) \in Seq(S) /\ Len(After(n, s)) = Len(s) - n
        /\ \A i \in 1..(Len(s) - n) : After(n, s)[i] = s[i + n]
    BY <1>1, SubSeqProperties, ElementOfSeq DEF After
  <1> QED
    BY <1>1, <1>2, <1>3

LEMMA SplitJoin ==
  ASSUME NEW S, NEW s \in Seq(S), NEW n \in Nat, n <= Len(s)
  PROVE  First(n, s) \o After(n, s) = s
  <1> DEFINE f == First(n, s)
             a == After(n, s)
  <1>1. /\ f \in Seq(S) /\ Len(f) = n /\ Len(s) \in Nat
        /\ a \in Seq(S) /\ Len(a) = Len(s) - n
        /\ \A i \in 1..n : f[i] = s[i]
        /\ \A i \in 1..(Len(s) - n) : a[i] = s[i + n]
    BY SplitFacts
  <1> HIDE DEF f, a
  <1>2. /\ f \o a \in Seq(S) /\ Len(f \o a) = n + (Len(s) - n)
        /\ \A i \in 1..(n + (Len(s) - n)) : (f \o a)[i] = IF i <= n THEN f[i] ELSE a[i - n]
    BY <1>1, ConcatProperties
  <1>3. \A i \in 1..Len(s) : (f \o a)[i] = s[i]
    <2> SUFFICES ASSUME NEW i \in 1..Len(s) PROVE (f \o a)[i] = s[i]
      OBVIOUS
    <2>1. CASE i <= n
      BY <1>1, <1>2, <2>1
    <2>2. CASE ~(i <= n)
      <3>1. i - n \in 1..(Len(s) - n) /\ (i - n) + n = i
        BY <1>1, <2>2
      <3>2. (f \o a)[i] = a[i - n]
        <4>1. i \in 1..(n + (Len(s) - n))
          BY <1>1
        <4> QED
          BY <1>2, <2>2, <4>1
      <3>3. a[i - n] = s[(i - n) + n]
        BY <1>1, <3>1
      <3> QED
        BY <3>1, <3>2, <3>3
    <2> QED
      BY <2>1, <2>2
  <1>4. n + (Len(s) - n) = Len(s)
    BY <1>1
  <1> QED
    BY <1>1, <1>2, <1>3, <1>4, SeqEqual DEF f, a

\* The type, and what it rests on: a message is under way in a loop, and a body
\* that is waited for has at least a byte.
BaseInv ==
    /\ TypeOK
    /\ sender \in {"size", "body"} => current >= 1
    /\ receiver = "body" => expected >= 1

LEMMA BaseInit == Init => BaseInv
  <1> SUFFICES ASSUME Init PROVE BaseInv
    OBVIOUS
  <1>1. <<>> \in Seq(Bytes) /\ Len(<<>>) = 0 /\ <<>> \in Seq(Messages)
    BY EmptySeq
  <1> QED
    BY <1>1, SizeFacts DEF Init, BaseInv, TypeOK

LEMMA BaseNext == BaseInv /\ [Next]_vars => BaseInv'
  <1> SUFFICES ASSUME BaseInv, [Next]_vars PROVE BaseInv'
    OBVIOUS
  <1>1. /\ sender \in {"idle", "size", "body", "failed"}
        /\ current \in 0..Len(Size)
        /\ left \in 0..(Modulus - 1) /\ offset \in Nat /\ copied \in Nat
        /\ shorts \in 0..ShortSends
        /\ wire \in Seq(Bytes) /\ Len(wire) <= Room
        /\ storage \in Seq(Bytes)
        /\ receiver \in {"size", "body", "garbled", "ended"}
        /\ expected \in Nat
        /\ returned \in Seq(Messages)
        /\ open \in [{"sender", "receiver"} -> BOOLEAN]
        /\ sender \in {"size", "body"} => current >= 1
        /\ receiver = "body" => expected >= 1
    BY DEF BaseInv, TypeOK
  <1>2. Len(wire) \in Nat /\ Len(storage) \in Nat
    BY <1>1, LenProperties
  <1>3. ASSUME UNCHANGED <<wire, receiving, open>>,
               sender' \in {"idle", "size", "body", "failed"}, current' \in 0..Len(Size),
               left' \in 0..(Modulus - 1), offset' \in Nat, copied' \in Nat,
               shorts' \in 0..ShortSends,
               sender' \in {"size", "body"} => current' >= 1
        PROVE  BaseInv'
    BY <1>1, <1>3 DEF BaseInv, TypeOK, receiving
  <1>4. ASSUME UNCHANGED <<sending, open>>,
               wire' \in Seq(Bytes), Len(wire') <= Room, storage' \in Seq(Bytes),
               receiver' \in {"size", "body", "garbled", "ended"}, expected' \in Nat,
               returned' \in Seq(Messages), receiver' = "body" => expected' >= 1
        PROVE  BaseInv'
    <2>1. UNCHANGED <<sender, current, left, offset, copied, shorts, open>>
      BY <1>4 DEF sending
    <2>2. TypeOK'
      BY <1>1, <1>4, <2>1 DEF TypeOK
    <2>3. (sender \in {"size", "body"} => current >= 1)'
      BY <1>1, <2>1
    <2> QED
      BY <1>4, <2>2, <2>3 DEF BaseInv
  <1>5. CASE SendMessage
    <2>1. UNCHANGED <<wire, receiving, open>> /\ sender = "idle" /\ current < Len(Size)
      BY <1>5 DEF SendMessage
    <2>2. HeaderSize \in 0..(Modulus - 1) /\ 0 \in Nat /\ 0 \in 0..ShortSends
          /\ current + 1 \in 0..Len(Size) /\ current + 1 >= 1
      BY <1>1, <2>1, SizeFacts
    <2>3. CASE open["receiver"]
      <3>1. /\ sender' = "size" /\ current' = current + 1 /\ left' = HeaderSize
            /\ offset' = 0 /\ copied' = 0 /\ shorts' = 0
        BY <1>5, <2>3 DEF SendMessage, Enter
      <3> QED
        BY <2>1, <2>2, <3>1, <1>3
    <2>4. CASE ~open["receiver"]
      <3>1. sender' = "failed" /\ UNCHANGED <<current, left, offset, copied, shorts>>
        BY <1>5, <2>4 DEF SendMessage
      <3> QED
        BY <2>1, <3>1, <1>1, <1>3
    <2> QED
      BY <2>3, <2>4
  <1>6. CASE Copy
    <2>1. /\ sender \in Parts /\ current \in Messages /\ Len(wire) < Room
          /\ offset + copied < Total(sender)
          /\ wire' = Append(wire, <<current, sender, offset + copied + 1>>)
          /\ copied' = copied + 1
          /\ UNCHANGED <<sender, current, left, offset, shorts, receiving, open>>
      BY <1>1, <1>6, SizeFacts DEF Copy, InLoop, Parts
    <2>2. <<current, sender, offset + copied + 1>> \in Bytes
      <3>1. PartSize(current, sender) \in Nat /\ offset + copied < PartSize(current, sender)
        BY <2>1, SizeFacts DEF Total
      <3>2. offset + copied + 1 \in 1..PartSize(current, sender)
        BY <1>1, <3>1
      <3> QED
        BY <2>1, <3>2, ByteFacts
    <2>3. wire' \in Seq(Bytes) /\ Len(wire') <= Room
      BY <1>1, <1>2, <2>1, <2>2, SizeFacts, AppendProperties
    <2> QED
      BY <1>1, <2>1, <2>3 DEF BaseInv, TypeOK, receiving
  <1>7. ASSUME NEW k \in {0, 1}, Loop(k), InLoop, k = 1 => shorts < ShortSends,
               UNCHANGED <<current, wire, receiving, open>>
        PROVE  BaseInv'
    <2>1. AfterSend(copied) \in 0..(Modulus - 1)
      BY <1>1, AfterSendFacts
    <2>2. current \in Messages
      BY <1>1, <1>7, SizeFacts DEF InLoop
    <2>3. Size[current] \in 0..(Modulus - 1)
      BY <2>2, SizeFacts DEF Parts
    <2>4. CASE AfterSend(copied) > 0
      BY <1>1, <1>3, <1>7, <2>1, <2>4, SizeFacts DEF Loop, InLoop
    <2>5. CASE ~(AfterSend(copied) > 0)
      BY <1>1, <1>3, <1>7, <2>3, <2>5, SizeFacts DEF Loop, InLoop, Enter
    <2> QED
      BY <2>4, <2>5
  <1>8. CASE SendReturns
    BY <1>7, <1>8 DEF SendReturns
  <1>9. CASE SendReturnsShort
    BY <1>7, <1>9 DEF SendReturnsShort
  <1>10. CASE SendFails
    BY <1>1, <1>3, <1>10 DEF SendFails
  <1>11. CASE Recv
    <2> DEFINE n == IF Len(wire) < BufferSize THEN Len(wire) ELSE BufferSize
    <2>1. n \in Nat /\ n <= Len(wire)
      BY <1>2, SizeFacts
    <2>2. /\ storage' = storage \o First(n, wire) /\ wire' = After(n, wire)
          /\ UNCHANGED <<sending, receiver, expected, returned, open>>
      BY <1>11 DEF Recv
    <2> HIDE DEF n
    <2>3. First(n, wire) \in Seq(Bytes) /\ After(n, wire) \in Seq(Bytes)
          /\ Len(After(n, wire)) = Len(wire) - n
      BY <1>1, <2>1, SplitFacts
    <2>4. storage' \in Seq(Bytes)
      BY <1>1, <2>2, <2>3, ConcatProperties
    <2>5. Len(wire') <= Room
      BY <1>1, <1>2, <2>1, <2>2, <2>3, SizeFacts
    <2> QED
      BY <1>1, <1>4, <2>2, <2>3, <2>4, <2>5
  <1>12. CASE RecvEnd
    BY <1>1, <1>4, <1>12 DEF RecvEnd
  <1>13. CASE DecodeSize
    <2>1. /\ Len(storage) >= HeaderSize /\ storage' = After(HeaderSize, storage)
          /\ \/ receiver' = "body" /\ expected' = Size[storage[1][1]]
             \/ receiver' = "garbled" /\ expected' = expected
          /\ UNCHANGED <<sending, wire, returned, open>>
      BY <1>13 DEF DecodeSize
    <2>2. storage[1][1] \in Messages
      <3>1. storage[1] \in Bytes
        BY <1>1, <1>2, <2>1, SizeFacts, ElementOfSeq
      <3> QED
        BY <3>1, ByteFacts
    <2>3. Size[storage[1][1]] \in Nat /\ Size[storage[1][1]] >= 1
      BY <2>2, SizeFacts DEF Parts
    <2>4. storage' \in Seq(Bytes)
      BY <1>1, <2>1, SizeFacts, SplitFacts
    <2> QED
      BY <1>1, <1>4, <2>1, <2>3, <2>4
  <1>14. CASE DecodeBody
    <2>1. /\ receiver = "body" /\ Len(storage) >= expected /\ storage' = After(expected, storage)
          /\ \/ receiver' = "size" /\ returned' = Append(returned, storage[1][1])
             \/ receiver' = "garbled" /\ returned' = returned
          /\ UNCHANGED <<sending, wire, expected, open>>
      BY <1>14 DEF DecodeBody
    <2>2. storage[1][1] \in Messages
      <3>1. storage[1] \in Bytes
        BY <1>1, <1>2, <2>1, ElementOfSeq
      <3> QED
        BY <3>1, ByteFacts
    <2>3. returned' \in Seq(Messages)
      <3>1. Append(returned, storage[1][1]) \in Seq(Messages)
        BY <1>1, <2>2, AppendProperties
      <3> QED
        BY <1>1, <2>1, <3>1
    <2>4. storage' \in Seq(Bytes)
      BY <1>1, <2>1, SplitFacts
    <2> QED
      BY <1>1, <1>4, <2>1, <2>3, <2>4
  <1>15. ASSUME NEW e \in {"sender", "receiver"}, Close(e) PROVE BaseInv'
    <2>1. /\ open' = [open EXCEPT ![e] = FALSE] /\ UNCHANGED <<sending, receiving>>
          /\ wire' = <<>> \/ wire' = wire
      BY <1>15 DEF Close
    <2>2. wire' \in Seq(Bytes) /\ Len(wire') <= Room
      <3>1. CASE wire' = <<>>
        <4>1. wire' \in Seq(Bytes) /\ Len(wire') = 0
          BY <3>1, EmptySeq
        <4> QED
          BY <4>1, SizeFacts
      <3>2. CASE wire' = wire
        BY <1>1, <3>2
      <3> QED
        BY <2>1, <3>1, <3>2
    <2> QED
      BY <1>1, <2>1, <2>2 DEF BaseInv, TypeOK, sending, receiving
  <1>16. CASE UNCHANGED vars
    BY <1>1, <1>16 DEF vars, sending, receiving, BaseInv, TypeOK
  <1> QED
    BY <1>5, <1>6, <1>8, <1>9, <1>10, <1>11, <1>12, <1>13, <1>14, <1>15, <1>16
       DEF Next, SendingThread, ReceivingThread, Stopped

\* The state keeps its type: every byte on the way belongs to a message that was
\* handed over, and no more than Room of them are on the wire.  That left is
\* below Modulus says nothing: it is computed modulo Modulus.
THEOREM TypeCorrect == Spec => []TypeOK
  <1>1. BaseInv => TypeOK
    BY DEF BaseInv
  <1> QED
    BY <1>1, BaseInit, BaseNext, PTL DEF Spec

-----------------------------------------------------------------------------
(* Sequences of bytes that follow each other, in closed form: a byte tells   *)
(* where the others of its part are.                                         *)

Places == {b \in Nat \X Parts \X Nat : b[2] = "body" => b[1] \in Messages}

LEMMA PlaceFacts ==
  /\ \A b \in Places : /\ b = <<b[1], b[2], b[3]>> /\ b[1] \in Nat /\ b[2] \in Parts
                       /\ b[3] \in Nat /\ PartSize(b[1], b[2]) \in Nat
  /\ \A m \in Nat : \A i \in Nat : <<m, "size", i>> \in Places
  /\ \A m \in Messages : \A i \in Nat : <<m, "body", i>> \in Places
  /\ \A b \in Bytes : b \in Places
  /\ Messages \subseteq Nat
  <1>1. Messages \subseteq Nat
    BY SizeFacts
  <1>2. \A b \in Bytes : b \in Places
    <2> SUFFICES ASSUME NEW b \in Bytes PROVE b \in Places
      OBVIOUS
    <2>1. b \in Messages \X Parts \X Nat
      BY DEF Bytes, Parts
    <2> QED
      BY <1>1, <2>1 DEF Places
  <1>3. \A b \in Places : /\ b = <<b[1], b[2], b[3]>> /\ b[1] \in Nat /\ b[2] \in Parts
                          /\ b[3] \in Nat /\ PartSize(b[1], b[2]) \in Nat
    <2> SUFFICES ASSUME NEW b \in Places
                 PROVE  /\ b = <<b[1], b[2], b[3]>> /\ b[1] \in Nat /\ b[2] \in Parts
                        /\ b[3] \in Nat /\ PartSize(b[1], b[2]) \in Nat
      OBVIOUS
    <2>1. /\ b = <<b[1], b[2], b[3]>> /\ b[1] \in Nat /\ b[2] \in Parts /\ b[3] \in Nat
          /\ b[2] = "body" => b[1] \in Messages
      BY DEF Places
    <2>2. PartSize(b[1], b[2]) \in Nat
      BY <2>1, SizeFacts DEF Parts
    <2> QED
      BY <2>1, <2>2
  <1>4. \A m \in Nat : \A i \in Nat : <<m, "size", i>> \in Places
    BY DEF Places, Parts
  <1>5. \A m \in Messages : \A i \in Nat : <<m, "body", i>> \in Places
    BY <1>1 DEF Places, Parts
  <1> QED
    BY <1>1, <1>2, <1>3, <1>4, <1>5

Chain(s) == \A i, j \in 1..Len(s) : j = i + 1 => s[j] = NextByte(s[i])
Runs(s)  == \A i, j \in 1..Len(s) :
                i <= j /\ s[i][3] + (j - i) <= PartSize(s[i][1], s[i][2]) =>
                    s[j] = <<s[i][1], s[i][2], s[i][3] + (j - i)>>
Order(s) == \A i \in 1..Len(s) : s[i][1] <= s[Len(s)][1]

InStream(s) == Chain(s) /\ Runs(s) /\ Order(s)

LEMMA NextFacts ==
  ASSUME NEW b \in Places
  PROVE  /\ b[3] + 1 <= PartSize(b[1], b[2]) => NextByte(b) = <<b[1], b[2], b[3] + 1>>
         /\ ~(b[3] + 1 <= PartSize(b[1], b[2])) => NextByte(b) =
                IF b[2] = "size" THEN <<b[1], "body", 1>> ELSE <<b[1] + 1, "size", 1>>
         /\ NextByte(b)[1] >= b[1]
  <1>1. b[1] \in Nat
    BY PlaceFacts
  <1> QED
    BY <1>1 DEF NextByte, Byte

\* One more byte is written.
LEMMA StreamAppend ==
  ASSUME NEW s \in Seq(Places), s # <<>>, InStream(s),
         NEW b \in Places, b = NextByte(s[Len(s)])
  PROVE  InStream(Append(s, b))
  <1> DEFINE t == Append(s, b)
             n == Len(s)
  <1>1. /\ n \in Nat /\ n >= 1 /\ Len(t) = n + 1 /\ t[n + 1] = b
        /\ \A i \in 1..n : t[i] = s[i] /\ s[i] \in Places
    BY AppendProperties, EmptySeq, LenProperties, ElementOfSeq
  <1> HIDE DEF t, n
  <1>2. /\ \A i, j \in 1..n : j = i + 1 => s[j] = NextByte(s[i])
        /\ \A i, j \in 1..n : i <= j /\ s[i][3] + (j - i) <= PartSize(s[i][1], s[i][2]) =>
                    s[j] = <<s[i][1], s[i][2], s[i][3] + (j - i)>>
        /\ \A i \in 1..n : s[i][1] <= s[n][1]
        /\ b = NextByte(s[n])
    BY DEF InStream, Chain, Runs, Order, n
  <1>3. Chain(t)
    <2> SUFFICES ASSUME NEW i \in 1..(n + 1), NEW j \in 1..(n + 1), j = i + 1
                 PROVE  t[j] = NextByte(t[i])
      BY <1>1 DEF Chain
    <2>1. CASE j = n + 1
      BY <1>1, <1>2, <2>1
    <2>2. CASE j \in 1..n
      BY <1>1, <1>2, <2>2
    <2> QED
      BY <1>1, <2>1, <2>2
  <1>4. Runs(t)
    <2> SUFFICES ASSUME NEW i \in 1..(n + 1), NEW j \in 1..(n + 1), i <= j,
                        t[i][3] + (j - i) <= PartSize(t[i][1], t[i][2])
                 PROVE  t[j] = <<t[i][1], t[i][2], t[i][3] + (j - i)>>
      BY <1>1 DEF Runs
    <2>1. CASE j \in 1..n
      <3>1. i \in 1..n /\ t[i] = s[i] /\ t[j] = s[j]
        BY <1>1, <2>1
      <3> QED
        BY <1>2, <2>1, <3>1
    <2>2. CASE i = n + 1
      <3>1. j = n + 1 /\ j - i = 0 /\ t[i] = b /\ t[j] = b
        BY <1>1, <2>2
      <3>2. b = <<b[1], b[2], b[3]>> /\ b[3] \in Nat
        BY PlaceFacts
      <3>3. b[3] + 0 = b[3]
        BY <3>2
      <3> QED
        BY <3>1, <3>2, <3>3
    <2>3. CASE j = n + 1 /\ i \in 1..n
      <3> DEFINE m == s[i][1]
                 p == s[i][2]
                 k == s[i][3]
      <3>1. /\ t[i] = s[i] /\ s[i] \in Places /\ k \in Nat /\ PartSize(m, p) \in Nat
            /\ k + (n + 1 - i) <= PartSize(m, p) /\ n \in 1..n
        <4>1. t[i] = s[i] /\ s[i] \in Places /\ n \in 1..n
          BY <1>1, <2>3
        <4>2. k \in Nat /\ PartSize(m, p) \in Nat
          BY <4>1, PlaceFacts
        <4> QED
          BY <2>3, <4>1, <4>2
      <3>2. s[n] = <<m, p, k + (n - i)>>
        <4>1. k + (n - i) <= PartSize(m, p) /\ i \in 1..n /\ i <= n
          <5>1. n \in Nat /\ i \in 1..n
            BY <1>1, <2>3
          <5>2. k \in Nat /\ PartSize(m, p) \in Nat /\ k + (n + 1 - i) <= PartSize(m, p)
            BY <3>1
          <5> HIDE DEF m, p, k
          <5> QED
            BY <5>1, <5>2
        <4>2. n \in 1..n
          BY <3>1
        <4>3. \A x, y \in 1..n : x <= y /\ s[x][3] + (y - x) <= PartSize(s[x][1], s[x][2]) =>
                    s[y] = <<s[x][1], s[x][2], s[x][3] + (y - x)>>
          BY <1>2
        <4> QED
          BY <4>1, <4>2, <4>3
      <3>3. (k + (n - i)) + 1 = k + (n + 1 - i)
        BY <1>1, <2>3, <3>1
      <3>4. s[n] \in Places /\ s[n][1] = m /\ s[n][2] = p /\ s[n][3] = k + (n - i)
        <4>1. s[n] \in Places
          BY <1>1, <3>1
        <4> QED
          BY <3>2, <4>1
      <3>5. NextByte(s[n]) = <<m, p, k + (n + 1 - i)>>
        BY <3>1, <3>3, <3>4, NextFacts
      <3>6. t[j] = NextByte(s[n])
        BY <1>1, <1>2, <2>3
      <3>7. j - i = n + 1 - i /\ t[i] = s[i]
        BY <2>3, <3>1
      <3> QED
        BY <3>5, <3>6, <3>7
    <2> QED
      BY <1>1, <2>1, <2>2, <2>3
  <1>5. Order(t)
    <2> SUFFICES ASSUME NEW i \in 1..(n + 1) PROVE t[i][1] <= b[1]
      BY <1>1 DEF Order
    <2>1. b[1] >= s[n][1] /\ s[n][1] \in Nat /\ b[1] \in Nat
      <3>1. s[n] \in Places /\ b = NextByte(s[n])
        BY <1>1, <1>2
      <3>2. b[1] >= s[n][1]
        BY <3>1, NextFacts
      <3> QED
        BY <3>1, <3>2, PlaceFacts
    <2>2. CASE i \in 1..n
      <3>1. s[i][1] \in Nat /\ t[i] = s[i]
        BY <1>1, <2>2, PlaceFacts
      <3>2. s[i][1] <= s[n][1]
        BY <1>2, <2>2
      <3> QED
        BY <2>1, <3>1, <3>2
    <2>3. CASE i = n + 1
      BY <1>1, <2>1, <2>3
    <2> QED
      BY <1>1, <2>2, <2>3
  <1> QED
    BY <1>3, <1>4, <1>5 DEF InStream, t

\* A message is taken out in front.
LEMMA StreamDrop ==
  ASSUME NEW s \in Seq(Places), NEW t \in Seq(Places), NEW n \in Nat,
         Len(s) = Len(t) + n, t # <<>>, \A i \in 1..Len(t) : t[i] = s[i + n], InStream(s)
  PROVE  InStream(t)
  <1>1. Len(t) \in Nat /\ Len(s) \in Nat /\ Len(t) >= 1
    BY LenProperties, EmptySeq
  <1>2. \A i \in 1..Len(t) : i + n \in 1..Len(s) /\ t[i] = s[i + n]
    BY <1>1
  <1>3. Chain(t)
    <2> SUFFICES ASSUME NEW i \in 1..Len(t), NEW j \in 1..Len(t), j = i + 1
                 PROVE  t[j] = NextByte(t[i])
      BY DEF Chain
    <2>1. j + n = (i + n) + 1
      BY <1>1
    <2> QED
      BY <1>2, <2>1 DEF InStream, Chain
  <1>4. Runs(t)
    <2> SUFFICES ASSUME NEW i \in 1..Len(t), NEW j \in 1..Len(t), i <= j,
                        t[i][3] + (j - i) <= PartSize(t[i][1], t[i][2])
                 PROVE  t[j] = <<t[i][1], t[i][2], t[i][3] + (j - i)>>
      BY DEF Runs
    <2>1. i + n <= j + n /\ (j + n) - (i + n) = j - i
      BY <1>1
    <2> QED
      BY <1>2, <2>1 DEF InStream, Runs
  <1>5. Order(t)
    <2>1. t[Len(t)] = s[Len(s)]
      BY <1>1, <1>2
    <2> QED
      BY <1>2, <2>1 DEF InStream, Order
  <1> QED
    BY <1>3, <1>4, <1>5 DEF InStream

-----------------------------------------------------------------------------
(* The loops of send() while no more than one early return happens in each,  *)
(* the receiver, and the bytes in between.                                   *)

\* As long as the receiver is there, the offset is what was sent before; once
\* it is gone nothing is copied any more.
LoopOK ==
    /\ sender \in {"size", "body"} =>
           /\ left >= 1
           /\ \/ /\ offset + left = Total(sender) /\ copied <= left
                 /\ shorts = 0 => offset = 0
              \/ ~open["receiver"] /\ copied = 0 /\ offset < Total(sender)
    /\ sender = "idle" => left = 0
    /\ sender = "failed" => ~open["receiver"]

ReadOK ==
    /\ receiver = "body" => /\ Len(returned) + 1 \in Messages
                            /\ expected = Size[Len(returned) + 1]
    /\ receiver # "garbled"
    /\ receiver = "ended" => ~open["sender"]
    /\ \A k \in 1..Len(returned) : returned[k] = k

Stream == Append(Pending, Upcoming)

StreamOK ==
    open["receiver"] /\ receiver # "ended" =>
        Stream[1] = <<Len(returned) + 1, "size", 1>> /\ InStream(Stream)

IInv == BaseInv /\ LoopOK /\ ReadOK /\ StreamOK

LEMMA LoopFacts ==
  ASSUME BaseInv, LoopOK
  PROVE  /\ sender \in {"idle", "size", "body", "failed"}
         /\ current \in 0..Len(Size) /\ left \in 0..(Modulus - 1)
         /\ offset \in Nat /\ copied \in Nat /\ shorts \in Nat /\ shorts <= ShortSends
         /\ current \in Nat /\ left \in Nat
         /\ sender \in Parts => /\ current \in Messages /\ left >= 1
                                /\ Total(sender) \in Nat /\ Total(sender) >= 1
  <1>1. /\ sender \in {"idle", "size", "body", "failed"}
        /\ current \in 0..Len(Size) /\ left \in 0..(Modulus - 1)
        /\ offset \in Nat /\ copied \in Nat /\ shorts \in 0..ShortSends
        /\ sender \in {"size", "body"} => current >= 1 /\ left >= 1
    BY DEF BaseInv, TypeOK, LoopOK
  <1>2. sender \in Parts => current \in Messages
    BY <1>1, SizeFacts DEF Parts
  <1>3. sender \in Parts => Total(sender) \in Nat /\ Total(sender) >= 1
    BY <1>2, SizeFacts DEF Total
  <1> QED
    BY <1>1, <1>2, <1>3, SizeFacts DEF Parts

\* What a pass of the loop of send() comes to.
LoopEnds ==
    \/ sender = "size" /\ Enter("body", Size[current])
    \/ sender = "body" /\ Enter("idle", 0)

LoopGoesOn ==
    /\ sender' = sender
    /\ left' = left - copied /\ offset' = copied /\ copied' = 0
    /\ (offset = 0 /\ shorts' = 1) \/ ~open["receiver"]

LEMMA LoopStep ==
  ASSUME ShortSends <= 1, BaseInv, LoopOK, SendReturns \/ SendReturnsShort
  PROVE  /\ sender \in Parts /\ offset + left = Total(sender)
         /\ UNCHANGED <<current, wire, receiving, open>>
         /\ \/ copied = left /\ LoopEnds
            \/ copied > 0 /\ copied < left /\ LoopGoesOn
  <1>1. sender \in Parts /\ UNCHANGED <<current, wire, receiving, open>>
    BY DEF SendReturns, SendReturnsShort, InLoop, Parts
  <1>2. /\ offset \in Nat /\ copied \in Nat /\ shorts \in Nat /\ left \in 0..(Modulus - 1)
        /\ left \in Nat /\ Total(sender) \in Nat /\ ShortSends \in Nat
    BY <1>1, LoopFacts, SizeFacts
  <1>3. offset + left = Total(sender) /\ copied <= left /\ (shorts = 0 => offset = 0)
    <2>1. copied > 0 \/ offset + copied = Total(sender)
      BY DEF SendReturns, SendReturnsShort
    <2> QED
      BY <1>1, <1>2, <2>1 DEF LoopOK, Parts
  <1>4. AfterSend(copied) = left - copied
    BY <1>2, <1>3, AfterSendFacts
  <1>5. ASSUME NEW k \in {0, 1}, Loop(k), copied = left
        PROVE  LoopEnds
    <2>1. ~(AfterSend(copied) > 0)
      BY <1>2, <1>4, <1>5
    <2> QED
      BY <1>1, <1>5, <2>1 DEF Loop, LoopEnds, Parts
  <1>6. ASSUME NEW k \in {0, 1}, Loop(k), copied < left, ~open["receiver"] \/ (k = 1 /\ shorts = 0)
        PROVE  LoopGoesOn
    <2>1. AfterSend(copied) > 0
      BY <1>2, <1>4, <1>6
    <2> QED
      BY <1>3, <1>4, <1>6, <2>1 DEF Loop, LoopGoesOn
  <1>7. CASE SendReturns
    <2>1. copied = left /\ Loop(0)
      BY <1>2, <1>3, <1>7 DEF SendReturns
    <2> QED
      BY <1>1, <1>3, <1>5, <2>1
  <1>8. CASE SendReturnsShort
    <2>1. copied > 0 /\ copied < left
      BY <1>2, <1>3, <1>8 DEF SendReturnsShort
    <2>2. \/ shorts = 0 /\ Loop(1)
          \/ ~open["receiver"] /\ Loop(0)
      BY <1>2, <1>8 DEF SendReturnsShort
    <2> QED
      BY <1>1, <1>3, <1>6, <2>1, <2>2
  <1> QED
    BY <1>7, <1>8

LEMMA LoopNext ==
  ASSUME ShortSends <= 1, BaseInv, LoopOK, [Next]_vars
  PROVE  LoopOK'
  <1>1. /\ sender \in {"idle", "size", "body", "failed"}
        /\ offset \in Nat /\ copied \in Nat /\ left \in Nat /\ current \in Nat
        /\ sender \in Parts => /\ current \in Messages /\ left >= 1
                               /\ Total(sender) \in Nat /\ Total(sender) >= 1
        /\ open \in [{"sender", "receiver"} -> BOOLEAN]
    BY LoopFacts DEF BaseInv, TypeOK
  <1>2. CASE SendMessage
    <2>1. CASE open["receiver"]
      <3>1. /\ sender' = "size" /\ left' = HeaderSize /\ offset' = 0 /\ copied' = 0
            /\ open' = open
        BY <1>2, <2>1 DEF SendMessage, Enter
      <3>2. Total(sender)' = HeaderSize
        BY <3>1 DEF Total, PartSize
      <3> QED
        BY <3>1, <3>2, SizeFacts DEF LoopOK
    <2>2. CASE ~open["receiver"]
      BY <1>2, <2>2 DEF SendMessage, LoopOK
    <2> QED
      BY <2>1, <2>2
  <1>3. CASE Copy
    <2>1. /\ sender \in Parts /\ open["receiver"] /\ offset + copied < Total(sender)
          /\ copied' = copied + 1
          /\ UNCHANGED <<sender, current, left, offset, shorts, open>>
      BY <1>3 DEF Copy, InLoop, Parts
    <2>2. Total(sender)' = Total(sender)
      BY <2>1 DEF Total
    <2> QED
      BY <1>1, <2>1, <2>2 DEF LoopOK, Parts
  <1>4. CASE SendReturns \/ SendReturnsShort
    <2>1. /\ sender \in Parts /\ offset + left = Total(sender)
          /\ UNCHANGED <<current, wire, receiving, open>>
          /\ \/ copied = left /\ LoopEnds
             \/ copied > 0 /\ copied < left /\ LoopGoesOn
      BY <1>4, LoopStep
    <2>2. CASE LoopGoesOn /\ copied > 0 /\ copied < left
      <3>1. Total(sender)' = Total(sender)
        BY <2>1, <2>2 DEF LoopGoesOn, Total
      <3> QED
        BY <1>1, <2>1, <2>2, <3>1 DEF LoopGoesOn, LoopOK, Parts
    <2>3. CASE LoopEnds
      <3>1. CASE sender = "size" /\ Enter("body", Size[current])
        <4>1. Total(sender)' = Size[current] /\ Size[current] \in Nat /\ Size[current] >= 1
          BY <1>1, <2>1, <3>1, SizeFacts DEF Total, PartSize, Enter, Parts
        <4> QED
          BY <3>1, <4>1 DEF Enter, LoopOK
      <3>2. CASE Enter("idle", 0)
        BY <3>2 DEF Enter, LoopOK
      <3> QED
        BY <2>3, <3>1, <3>2 DEF LoopEnds
    <2> QED
      BY <2>1, <2>2, <2>3
  <1>5. CASE SendFails
    BY <1>5 DEF SendFails, LoopOK
  <1>6. CASE ReceivingThread \/ Stopped \/ UNCHANGED vars
    <2>1. UNCHANGED <<sending, open>>
      BY <1>6 DEF ReceivingThread, Recv, RecvEnd, DecodeSize, DecodeBody, Stopped, vars
    <2>2. Total(sender)' = Total(sender)
      BY <2>1 DEF sending, Total
    <2> QED
      BY <2>1, <2>2 DEF sending, LoopOK
  <1>7. ASSUME NEW e \in {"sender", "receiver"}, Close(e) PROVE LoopOK'
    <2>1. UNCHANGED sending /\ (open'["receiver"] => open["receiver"])
      BY <1>1, <1>7 DEF Close
    <2>2. Total(sender)' = Total(sender)
      BY <2>1 DEF sending, Total
    <2> QED
      BY <2>1, <2>2 DEF sending, LoopOK
  <1> QED
    BY <1>2, <1>3, <1>4, <1>5, <1>6, <1>7 DEF Next, SendingThread

LEMMA WholeFacts ==
  ASSUME NEW m \in Nat, NEW part \in Parts, NEW n \in Nat, part = "body" => m \in Messages
  PROVE  /\ Whole(m, part, n) \in Seq(Places) /\ Len(Whole(m, part, n)) = n
         /\ \A i \in 1..n : Whole(m, part, n)[i] = <<m, part, i>>
  <1>1. \A i \in 1..n : <<m, part, i>> \in Places
    BY PlaceFacts DEF Parts
  <1>2. Whole(m, part, n) = [i \in 1..n |-> <<m, part, i>>]
    BY DEF Whole
  <1>3. Whole(m, part, n) \in Seq(Places)
    BY <1>1, <1>2
  <1> QED
    BY <1>2, <1>3

\* The size that has been decoded already, when its body is waited for.
Header == IF receiver = "body" THEN Whole(Len(returned) + 1, "size", HeaderSize) ELSE <<>>

LEMMA PendingFacts ==
  ASSUME BaseInv
  PROVE  /\ Header \in Seq(Places) /\ storage \in Seq(Places) /\ wire \in Seq(Places)
         /\ storage \in Seq(Bytes) /\ wire \in Seq(Bytes)
         /\ Pending = (Header \o storage) \o wire /\ Pending \in Seq(Places)
         /\ Len(Header) \in Nat /\ Len(storage) \in Nat /\ Len(wire) \in Nat
         /\ Len(Pending) = Len(Header) + Len(storage) + Len(wire)
         /\ \A i \in 1..Len(Header) : Pending[i] = Header[i]
         /\ \A i \in 1..Len(storage) : Pending[Len(Header) + i] = storage[i]
         /\ Len(returned) + 1 \in Nat
  <1>1. storage \in Seq(Bytes) /\ wire \in Seq(Bytes) /\ Len(returned) \in Nat
    BY LenProperties DEF BaseInv, TypeOK
  <1>2. storage \in Seq(Places) /\ wire \in Seq(Places)
    BY <1>1, PlaceFacts, SeqMonotonic
  <1>3. Header \in Seq(Places)
    <2>1. CASE receiver = "body"
      BY <1>1, <2>1, SizeFacts, WholeFacts DEF Header, Parts
    <2>2. CASE receiver # "body"
      BY <2>2, EmptySeq DEF Header
    <2> QED
      BY <2>1, <2>2
  <1>4. Pending = (Header \o storage) \o wire
    BY DEF Pending, Header
  <1>5. /\ Header \o storage \in Seq(Places)
        /\ Len(Header \o storage) = Len(Header) + Len(storage)
        /\ Len(Header) \in Nat /\ Len(storage) \in Nat /\ Len(wire) \in Nat
    BY <1>2, <1>3, ConcatProperties, LenProperties
  <1>6. /\ \A i \in 1..Len(Header) : (Header \o storage)[i] = Header[i]
        /\ \A i \in 1..Len(storage) : (Header \o storage)[Len(Header) + i] = storage[i]
    BY <1>2, <1>3, <1>5, ConcatProperties
  <1>7. /\ Pending \in Seq(Places)
        /\ Len(Pending) = Len(Header) + Len(storage) + Len(wire)
        /\ \A i \in 1..(Len(Header) + Len(storage)) : Pending[i] = (Header \o storage)[i]
    BY <1>2, <1>4, <1>5, ConcatProperties
  <1> QED
    BY <1>1, <1>2, <1>3, <1>4, <1>5, <1>6, <1>7

LEMMA UpcomingFacts ==
  ASSUME BaseInv, LoopOK, open["receiver"]
  PROVE  /\ Upcoming \in Places /\ Upcoming[1] = Complete + 1 /\ Complete \in Nat
         /\ sender \in Parts => Upcoming = Byte(current, sender, offset + copied + 1)
         /\ sender \notin Parts => Upcoming = <<current + 1, "size", 1>>
  <1>1. /\ sender \in {"idle", "size", "body", "failed"}
        /\ offset \in Nat /\ copied \in Nat /\ left \in Nat /\ current \in Nat
        /\ sender \in Parts => /\ current \in Messages /\ current >= 1 /\ left >= 1
                               /\ Total(sender) \in Nat /\ Total(sender) >= 1
    BY LoopFacts, SizeFacts
  <1>2. CASE sender \in Parts
    <2>1. offset + left = Total(sender) /\ copied <= left
      BY <1>2 DEF LoopOK, Parts
    <2>2. Total(sender) - left + copied + 1 = offset + copied + 1
      BY <1>1, <1>2, <2>1
    <2>3. Upcoming = Byte(current, sender, offset + copied + 1)
      BY <1>2, <2>2 DEF Upcoming, Parts
    <2>4. offset + copied + 1 <= Total(sender) <=> copied # left
      BY <1>1, <1>2, <2>1
    <2>5. CASE copied # left
      <3>1. Upcoming = <<current, sender, offset + copied + 1>>
        BY <2>3, <2>4, <2>5 DEF Byte, Total
      <3>2. Complete = current - 1
        BY <1>1, <1>2, <2>5 DEF Complete
      <3> QED
        BY <1>1, <1>2, <2>3, <3>1, <3>2, PlaceFacts DEF Parts
    <2>6. CASE copied = left /\ sender = "size"
      <3>1. Upcoming = <<current, "body", 1>>
        BY <2>3, <2>4, <2>6 DEF Byte, Total
      <3>2. Complete = current - 1
        BY <1>1, <1>2, <2>6 DEF Complete
      <3> QED
        BY <1>1, <1>2, <2>3, <3>1, <3>2, PlaceFacts
    <2>7. CASE copied = left /\ sender = "body"
      <3>1. Upcoming = <<current + 1, "size", 1>>
        BY <2>3, <2>4, <2>7 DEF Byte, Total
      <3>2. Complete = current
        BY <1>1, <1>2, <2>7 DEF Complete
      <3> QED
        BY <1>1, <1>2, <2>3, <3>1, <3>2, PlaceFacts
    <2> QED
      BY <1>2, <2>5, <2>6, <2>7 DEF Parts
  <1>3. CASE sender \notin Parts
    <2>1. sender = "idle" /\ left = 0
      BY <1>1, <1>3 DEF LoopOK, Parts
    <2>2. Upcoming = <<current + 1, "size", 1>>
      BY <2>1, SizeFacts DEF Upcoming, Byte
    <2>3. Complete = current
      BY <2>1 DEF Complete
    <2> QED
      <3>1. current + 1 \in Nat /\ 1 \in Nat
        BY <1>1
      <3>2. <<current + 1, "size", 1>> \in Places
        BY <3>1, PlaceFacts
      <3> QED
        BY <1>1, <1>3, <2>2, <2>3, <3>2
  <1> QED
    BY <1>2, <1>3

LEMMA StreamFacts ==
  ASSUME BaseInv, LoopOK, open["receiver"]
  PROVE  /\ Stream \in Seq(Places) /\ Len(Pending) \in Nat
         /\ Len(Stream) = Len(Pending) + 1 /\ Stream # <<>>
         /\ Stream[Len(Pending) + 1] = Upcoming
         /\ \A i \in 1..Len(Pending) : Stream[i] = Pending[i]
  <1>1. Pending \in Seq(Places) /\ Upcoming \in Places /\ Len(Pending) \in Nat
    BY PendingFacts, UpcomingFacts, LenProperties
  <1> QED
    BY <1>1, AppendProperties DEF Stream

\* The bytes that are taken for a size are one.
LEMMA DecodeSizeFacts ==
  ASSUME IInv, DecodeSize
  PROVE  /\ receiver' = "body" /\ expected' = Size[Len(returned) + 1]
         /\ Len(returned) + 1 \in Messages
         /\ Pending' = Pending
         /\ UNCHANGED <<sending, wire, returned, open>>
  <1> DEFINE m == Len(returned) + 1
             front == First(HeaderSize, storage)
             rest == After(HeaderSize, storage)
  <1>1. /\ open["receiver"] /\ receiver = "size" /\ Len(storage) >= HeaderSize
        /\ storage' = rest
        /\ UNCHANGED <<sending, wire, returned, open>>
    BY DEF DecodeSize
  <1>2. /\ Pending = (Header \o storage) \o wire /\ Header = <<>>
        /\ storage \in Seq(Places) /\ wire \in Seq(Places) /\ storage \in Seq(Bytes)
        /\ Len(storage) \in Nat /\ Len(wire) \in Nat
        /\ \A i \in 1..Len(storage) : Pending[i] = storage[i]
        /\ Len(Pending) >= Len(storage) /\ m \in Nat
    <2>1. Header = <<>> /\ Len(Header) = 0
      BY <1>1, EmptySeq DEF Header
    <2>2. \A i \in Nat : 0 + i = i
      OBVIOUS
    <2> QED
      BY <2>1, <2>2, PendingFacts DEF IInv
  <1>3. HeaderSize \in Nat /\ HeaderSize >= 1
    BY SizeFacts
  <1>4. \A i \in 1..HeaderSize : storage[i] = <<m, "size", i>>
    <2>1. /\ Stream[1] = <<m, "size", 1>> /\ Runs(Stream)
          /\ Len(Stream) = Len(Pending) + 1 /\ \A i \in 1..Len(Pending) : Stream[i] = Pending[i]
      BY <1>1, StreamFacts DEF IInv, StreamOK, InStream
    <2> SUFFICES ASSUME NEW i \in 1..HeaderSize PROVE storage[i] = <<m, "size", i>>
      OBVIOUS
    <2>2. /\ 1 \in 1..Len(Stream) /\ i \in 1..Len(Stream) /\ 1 <= i /\ 1 + (i - 1) = i
          /\ i <= HeaderSize /\ Stream[i] = storage[i]
      <3>1. i \in 1..Len(storage) /\ i \in 1..Len(Pending)
        BY <1>1, <1>2, <1>3, PendingFacts DEF IInv
      <3>2. Len(Pending) \in Nat
        BY <1>1, StreamFacts DEF IInv
      <3> QED
        BY <1>2, <1>3, <2>1, <3>1, <3>2
    <2>3. PartSize(m, "size") = HeaderSize
      BY SizeFacts
    <2> QED
      BY <2>1, <2>2, <2>3 DEF Runs
  <1>5. storage[1][1] = m /\ m \in Messages
    <2>1. storage[1] = <<m, "size", 1>> /\ storage[1] \in Bytes
      BY <1>1, <1>2, <1>3, <1>4, ElementOfSeq
    <2> QED
      BY <2>1, ByteFacts
  <1>6. /\ front \in Seq(Places) /\ rest \in Seq(Places) /\ Len(front) = HeaderSize
        /\ \A i \in 1..HeaderSize : front[i] = storage[i]
    BY <1>1, <1>2, <1>3, SplitFacts
  <1>7. front = Whole(m, "size", HeaderSize)
    <2>1. /\ Whole(m, "size", HeaderSize) \in Seq(Places)
          /\ Len(Whole(m, "size", HeaderSize)) = HeaderSize
          /\ \A i \in 1..HeaderSize : Whole(m, "size", HeaderSize)[i] = <<m, "size", i>>
      BY <1>2, <1>3, WholeFacts DEF Parts
    <2> QED
      BY <1>4, <1>6, <2>1, SeqEqual
  <1>8. receiver' = "body" /\ expected' = Size[m]
    BY <1>5, <1>7 DEF DecodeSize
  <1>9. Pending' = Pending
    <2>1. Pending' = (front \o rest) \o wire
      BY <1>1, <1>7, <1>8 DEF Pending
    <2>2. front \o rest = storage
      BY <1>1, <1>2, <1>3, SplitJoin
    <2>3. Pending = storage \o wire
      BY <1>2, ConcatEmptySeq
    <2> QED
      BY <2>1, <2>2, <2>3
  <1> QED
    BY <1>1, <1>5, <1>8, <1>9

\* Concatenation under a name of its own, which the provers do not take apart.
Cat(x, y) == x \o y

LEMMA CatFacts ==
  ASSUME NEW S, NEW x \in Seq(S), NEW y \in Seq(S)
  PROVE  /\ Cat(x, y) \in Seq(S)
         /\ Len(x) \in Nat /\ Len(y) \in Nat /\ Len(Cat(x, y)) = Len(x) + Len(y)
         /\ \A i \in 1..Len(y) : Cat(x, y)[i + Len(x)] = y[i]
  <1>1. Len(x) \in Nat /\ Len(y) \in Nat
    BY LenProperties
  <1>2. /\ Cat(x, y) \in Seq(S) /\ Len(Cat(x, y)) = Len(x) + Len(y)
        /\ \A i \in 1..(Len(x) + Len(y)) :
               Cat(x, y)[i] = IF i <= Len(x) THEN x[i] ELSE y[i - Len(x)]
    BY ConcatProperties DEF Cat
  <1>3. ASSUME NEW i \in 1..Len(y) PROVE Cat(x, y)[i + Len(x)] = y[i]
    <2>1. i + Len(x) \in 1..(Len(x) + Len(y)) /\ ~(i + Len(x) <= Len(x))
          /\ (i + Len(x)) - Len(x) = i
      BY <1>1
    <2> QED
      BY <1>2, <2>1
  <1> QED
    BY <1>1, <1>2, <1>3

LEMMA CatAssociative ==
  ASSUME NEW S, NEW x \in Seq(S), NEW y \in Seq(S), NEW z \in Seq(S)
  PROVE  Cat(Cat(x, y), z) = Cat(x, Cat(y, z))
  BY ConcatAssociative, SMT DEF Cat

LEMMA Regroup ==
  ASSUME NEW S, NEW h \in Seq(S), NEW f \in Seq(S), NEW r \in Seq(S), NEW w \in Seq(S)
  PROVE  Cat(Cat(h, Cat(f, r)), w) = Cat(Cat(h, f), Cat(r, w))
  <1>1. Cat(h, f) \in Seq(S)
    BY CatFacts
  <1> QED
    BY <1>1, CatAssociative

\* The bytes that are taken for a body are the next message's.
LEMMA DecodeBodyFacts ==
  ASSUME IInv, DecodeBody
  PROVE  /\ receiver' = "size" /\ returned' = Append(returned, Len(returned) + 1)
         /\ Len(returned) + 1 \in Messages
         /\ UNCHANGED <<sending, wire, expected, open>>
         /\ \E n \in Nat : /\ Len(Pending) = Len(Pending') + n
                           /\ Pending' \in Seq(Places)
                           /\ \A i \in 1..Len(Pending') : Pending'[i] = Pending[i + n]
                           /\ Stream[n + 1] = <<Len(returned) + 2, "size", 1>>
  <1> DEFINE m == Len(returned) + 1
             front == First(expected, storage)
             rest == After(expected, storage)
             n == HeaderSize + expected
  <1>1. /\ open["receiver"] /\ receiver = "body" /\ Len(storage) >= expected
        /\ storage' = rest
        /\ UNCHANGED <<sending, wire, expected, open>>
    BY DEF DecodeBody
  <1>2. /\ m \in Messages /\ m \in Nat /\ expected = Size[m]
        /\ expected \in Nat /\ expected >= 1
        /\ HeaderSize \in Nat /\ HeaderSize >= 1
        /\ PartSize(m, "size") = HeaderSize /\ PartSize(m, "body") = expected
    <2>1. m \in Messages /\ expected = Size[m]
      BY <1>1 DEF IInv, ReadOK
    <2> QED
      BY <2>1, SizeFacts DEF Parts
  <1>3. /\ Header \in Seq(Places) /\ storage \in Seq(Places) /\ wire \in Seq(Places)
        /\ storage \in Seq(Bytes)
        /\ Pending = (Header \o storage) \o wire
        /\ Len(Header) = HeaderSize /\ Len(storage) \in Nat /\ Len(wire) \in Nat
        /\ Len(Pending) = HeaderSize + Len(storage) + Len(wire)
        /\ \A i \in 1..HeaderSize : Pending[i] = <<m, "size", i>>
        /\ \A i \in 1..Len(storage) : Pending[HeaderSize + i] = storage[i]
    <2>1. /\ Len(Header) = HeaderSize
          /\ \A i \in 1..HeaderSize : Header[i] = <<m, "size", i>>
      BY <1>1, <1>2, WholeFacts DEF Header, Parts
    <2>2. BaseInv
      BY DEF IInv
    <2> HIDE DEF m, n
    <2>3. /\ Header \in Seq(Places) /\ storage \in Seq(Places) /\ wire \in Seq(Places)
          /\ storage \in Seq(Bytes) /\ Pending = (Header \o storage) \o wire
          /\ Len(storage) \in Nat /\ Len(wire) \in Nat
          /\ Len(Pending) = Len(Header) + Len(storage) + Len(wire)
      BY <2>2, PendingFacts
    <2>4. /\ \A i \in 1..Len(Header) : Pending[i] = Header[i]
          /\ \A i \in 1..Len(storage) : Pending[Len(Header) + i] = storage[i]
      BY <2>2, PendingFacts
    <2> QED
      BY <2>1, <2>3, <2>4
  <1>4. /\ Stream \in Seq(Places) /\ Chain(Stream) /\ Runs(Stream)
        /\ Len(Stream) = Len(Pending) + 1 /\ \A i \in 1..Len(Pending) : Stream[i] = Pending[i]
    BY <1>1, StreamFacts DEF IInv, StreamOK, InStream
  <1> HIDE DEF m, n
  <1>0. /\ HeaderSize \in Nat /\ HeaderSize >= 1 /\ expected \in Nat /\ expected >= 1
        /\ Len(storage) \in Nat /\ Len(storage) >= expected
        /\ Len(Pending) \in Nat /\ Len(Pending) >= HeaderSize + Len(storage)
        /\ Len(Stream) = Len(Pending) + 1
    <2>1. Len(wire) \in Nat /\ Len(Pending) = HeaderSize + Len(storage) + Len(wire)
      BY <1>3
    <2>2. HeaderSize \in Nat /\ Len(storage) \in Nat
      BY <1>2, <1>3
    <2>3. Len(Pending) \in Nat /\ Len(Pending) >= HeaderSize + Len(storage)
      BY <2>1, <2>2
    <2> QED
      BY <1>1, <1>2, <1>4, <2>2, <2>3
  <1>5. Stream[HeaderSize + 1] = <<m, "body", 1>>
    <2>1. /\ HeaderSize \in 1..HeaderSize /\ HeaderSize \in 1..Len(Pending)
          /\ HeaderSize \in 1..Len(Stream) /\ HeaderSize + 1 \in 1..Len(Stream)
      BY <1>0
    <2>2. Stream[HeaderSize] = <<m, "size", HeaderSize>>
      BY <2>1, <1>3, <1>4
    <2>3. Stream[HeaderSize + 1] = NextByte(<<m, "size", HeaderSize>>)
      BY <2>1, <2>2, <1>4 DEF Chain
    <2>4. ~(HeaderSize + 1 <= PartSize(m, "size"))
      BY <1>2
    <2> QED
      BY <2>3, <2>4 DEF NextByte, Byte
  <1>6. \A i \in 1..expected : Stream[HeaderSize + i] = <<m, "body", i>>
    <2> SUFFICES ASSUME NEW i \in 1..expected PROVE Stream[HeaderSize + i] = <<m, "body", i>>
      OBVIOUS
    <2>1. /\ HeaderSize + 1 \in 1..Len(Stream) /\ HeaderSize + i \in 1..Len(Stream)
          /\ HeaderSize + 1 <= HeaderSize + i
          /\ 1 + ((HeaderSize + i) - (HeaderSize + 1)) = i /\ i <= expected
      BY <1>0
    <2>2. \A j \in 1..Len(Stream) :
              HeaderSize + 1 <= j /\ 1 + (j - (HeaderSize + 1)) <= PartSize(m, "body") =>
                  Stream[j] = <<m, "body", 1 + (j - (HeaderSize + 1))>>
      <3>1. HeaderSize + 1 \in 1..Len(Stream)
        BY <2>1
      <3> QED
        BY <3>1, <1>4, <1>5 DEF Runs
    <2>3. i <= PartSize(m, "body")
      BY <2>1, <1>2
    <2> QED
      BY <2>1, <2>2, <2>3
  <1>7. Stream[n + 1] = <<m + 1, "size", 1>>
    <2>1. /\ HeaderSize + expected \in 1..Len(Stream)
          /\ (HeaderSize + expected) + 1 \in 1..Len(Stream)
          /\ Stream[HeaderSize + expected] = <<m, "body", expected>>
      <3>1. /\ expected \in 1..expected /\ HeaderSize + expected \in 1..Len(Stream)
            /\ (HeaderSize + expected) + 1 \in 1..Len(Stream)
        BY <1>0
      <3> QED
        BY <1>6, <3>1
    <2>2. Stream[n + 1] = NextByte(<<m, "body", expected>>)
      BY <2>1, <1>4 DEF Chain, n
    <2>3. ~(expected + 1 <= PartSize(m, "body"))
      BY <1>2
    <2> QED
      BY <2>2, <2>3 DEF NextByte, Byte
  <1>8. \A i \in 1..expected : storage[i] = <<m, "body", i>>
    <2> SUFFICES ASSUME NEW i \in 1..expected PROVE storage[i] = <<m, "body", i>>
      OBVIOUS
    <2>1. i \in 1..Len(storage) /\ HeaderSize + i \in 1..Len(Pending)
      <3>1. i <= Len(storage) /\ i >= 1 /\ i \in Nat
        BY <1>1, <1>2, <1>3
      <3> QED
        BY <1>2, <1>3, <3>1
    <2>2. Stream[HeaderSize + i] = storage[i]
      BY <2>1, <1>3, <1>4
    <2> QED
      BY <2>2, <1>6
  <1>9. storage[1][1] = m
    BY <1>2, <1>8
  <1>10. /\ front \in Seq(Places) /\ rest \in Seq(Places) /\ Len(front) = expected
         /\ \A i \in 1..expected : front[i] = storage[i]
         /\ Len(rest) = Len(storage) - expected /\ storage = front \o rest
    <2>1. expected \in Nat /\ expected <= Len(storage) /\ storage \in Seq(Places)
      BY <1>1, <1>2, <1>3
    <2> QED
      BY <2>1, SplitFacts, SplitJoin
  <1>11. front = Whole(m, "body", Size[m])
    <2>1. /\ Whole(m, "body", expected) \in Seq(Places)
          /\ Len(Whole(m, "body", expected)) = expected
          /\ \A i \in 1..expected : Whole(m, "body", expected)[i] = <<m, "body", i>>
      BY <1>2, WholeFacts DEF Parts
    <2> QED
      BY <1>2, <1>8, <1>10, <2>1, SeqEqual
  <1>12. receiver' = "size" /\ returned' = Append(returned, m)
    BY <1>9, <1>11 DEF DecodeBody
  <1>13. Pending' = Cat(rest, wire) /\ Pending = Cat(Cat(Header, Cat(front, rest)), wire)
    <2>1. Pending' = (<<>> \o rest) \o wire
      BY <1>1, <1>12 DEF Pending
    <2>2. <<>> \o rest = rest
      BY <1>10, ConcatEmptySeq
    <2> QED
      BY <2>1, <2>2, <1>3, <1>10 DEF Cat
  <1> HIDE DEF front, rest
  <1>14. Cat(Cat(Header, Cat(front, rest)), wire) = Cat(Cat(Header, front), Cat(rest, wire))
    BY <1>3, <1>10, Regroup
  <1>15. /\ n \in Nat /\ Len(Pending) = Len(Pending') + n /\ Pending' \in Seq(Places)
         /\ \A i \in 1..Len(Pending') : Pending'[i] = Pending[i + n]
    <2> DEFINE x == Cat(Header, front)
               y == Cat(rest, wire)
    <2>1. x \in Seq(Places) /\ Len(x) = Len(Header) + Len(front)
      BY <1>3, <1>10, CatFacts
    <2>2. y \in Seq(Places)
      BY <1>3, <1>10, CatFacts
    <2>3. Len(Header) + Len(front) = n /\ n \in Nat
      <3>1. Len(Header) = HeaderSize /\ Len(front) = expected
        BY <1>3, <1>10
      <3> QED
        BY <3>1, <1>0 DEF n
    <2>4. Pending = Cat(x, y) /\ Pending' = y
      BY <1>13, <1>14
    <2> HIDE DEF x, y
    <2>5. /\ Len(Cat(x, y)) = Len(x) + Len(y) /\ Len(y) \in Nat
          /\ \A i \in 1..Len(y) : Cat(x, y)[i + Len(x)] = y[i]
      <3>1. x \in Seq(Places) /\ y \in Seq(Places)
        BY <2>1, <2>2
      <3> QED
        BY <3>1, CatFacts
    <2>6. Len(x) = n
      BY <2>1, <2>3
    <2> QED
      BY <2>2, <2>3, <2>4, <2>5, <2>6
  <1>16. m + 1 = Len(returned) + 2
    BY <1>2 DEF m
  <1> QED
    BY <1>1, <1>2, <1>7, <1>12, <1>15, <1>16 DEF m

\* A read moves bytes from the buffers to the storage.
LEMMA RecvFacts ==
  ASSUME BaseInv, Recv
  PROVE  Pending' = Pending /\ UNCHANGED <<sending, receiver, expected, returned, open>>
  <1> DEFINE n == IF Len(wire) < BufferSize THEN Len(wire) ELSE BufferSize
  <1>1. /\ Header \in Seq(Places) /\ storage \in Seq(Places) /\ wire \in Seq(Places)
        /\ Pending = (Header \o storage) \o wire /\ Len(wire) \in Nat
    BY PendingFacts
  <1>2. n \in Nat /\ n <= Len(wire)
    BY <1>1, SizeFacts
  <1>3. /\ storage' = storage \o First(n, wire) /\ wire' = After(n, wire)
        /\ UNCHANGED <<sending, receiver, expected, returned, open>>
    BY DEF Recv
  <1> HIDE DEF n
  <1> DEFINE f == First(n, wire)
             a == After(n, wire)
  <1>4. Pending' = Cat(Cat(Header, Cat(storage, f)), a) /\ Pending = Cat(Cat(Header, storage), wire)
    BY <1>1, <1>3 DEF Pending, Header, Cat
  <1>5. f \in Seq(Places) /\ a \in Seq(Places) /\ Cat(f, a) = wire
    BY <1>1, <1>2, SplitFacts, SplitJoin DEF Cat
  <1> HIDE DEF f, a
  <1>6. Cat(Cat(Header, Cat(storage, f)), a) = Cat(Cat(Header, storage), Cat(f, a))
    BY <1>1, <1>5, Regroup
  <1> QED
    BY <1>3, <1>4, <1>5, <1>6

LEMMA CatAppend ==
  ASSUME NEW S, NEW x \in Seq(S), NEW y \in Seq(S), NEW e \in S
  PROVE  Cat(x, Append(y, e)) = Append(Cat(x, y), e)
  <1> DEFINE last == <<e>>
  <1>1. last \in Seq(S) /\ Append(y, e) = Cat(y, last)
    BY AppendIsConcat, SMT DEF Cat
  <1>2. Cat(x, y) \in Seq(S)
    BY CatFacts
  <1>3. Append(Cat(x, y), e) = Cat(Cat(x, y), last)
    BY <1>2, AppendIsConcat DEF Cat
  <1> HIDE DEF last
  <1>4. Cat(Cat(x, y), last) = Cat(x, Cat(y, last))
    BY <1>1, CatAssociative
  <1> QED
    BY <1>1, <1>3, <1>4

LEMMA ReadNext ==
  ASSUME IInv, [Next]_vars
  PROVE  ReadOK'
  <1>1. /\ receiver = "body" => /\ Len(returned) + 1 \in Messages
                                /\ expected = Size[Len(returned) + 1]
        /\ receiver # "garbled"
        /\ receiver = "ended" => ~open["sender"]
        /\ \A k \in 1..Len(returned) : returned[k] = k
        /\ returned \in Seq(Messages) /\ Len(returned) \in Nat
    BY LenProperties DEF IInv, ReadOK, BaseInv, TypeOK
  <1>2. ASSUME UNCHANGED <<receiver, expected, returned>>, open'["sender"] => open["sender"]
        PROVE  ReadOK'
    BY <1>1, <1>2 DEF ReadOK
  <1>3. CASE SendMessage \/ SendingThread \/ Stopped \/ UNCHANGED vars
    BY <1>2, <1>3 DEF SendMessage, SendingThread, Copy, SendReturns, SendReturnsShort, SendFails,
                      Stopped, vars, receiving
  <1>4. ASSUME NEW e \in {"sender", "receiver"}, Close(e) PROVE ReadOK'
    <2>1. open'["sender"] => open["sender"]
      BY <1>4 DEF IInv, BaseInv, TypeOK, Close
    <2> QED
      BY <1>2, <1>4, <2>1 DEF Close, receiving
  <1>5. CASE Recv
    BY <1>2, <1>5, RecvFacts DEF IInv
  <1>6. CASE RecvEnd
    <2>1. receiver' = "ended" /\ ~open["sender"] /\ UNCHANGED <<expected, returned, open>>
      BY <1>6 DEF RecvEnd
    <2> QED
      BY <1>1, <2>1 DEF ReadOK
  <1>7. CASE DecodeSize
    <2>1. /\ receiver' = "body" /\ expected' = Size[Len(returned) + 1]
          /\ Len(returned) + 1 \in Messages /\ returned' = returned
      BY <1>7, DecodeSizeFacts
    <2> QED
      BY <1>1, <2>1 DEF ReadOK
  <1>8. CASE DecodeBody
    <2>1. /\ receiver' = "size" /\ returned' = Append(returned, Len(returned) + 1)
          /\ Len(returned) + 1 \in Messages
      BY <1>8, DecodeBodyFacts
    <2>2. /\ Len(returned') = Len(returned) + 1 /\ returned'[Len(returned) + 1] = Len(returned) + 1
          /\ \A k \in 1..Len(returned) : returned'[k] = returned[k]
      BY <1>1, <2>1, AppendProperties
    <2>3. \A k \in 1..Len(returned') : returned'[k] = k
      BY <1>1, <2>2
    <2> QED
      BY <2>1, <2>3 DEF ReadOK
  <1> QED
    BY <1>3, <1>4, <1>5, <1>6, <1>7, <1>8 DEF Next, ReceivingThread

\* Whatever the loop of send() does between two bytes, the next byte is the same.
LEMMA UpcomingSame ==
  ASSUME ShortSends <= 1, BaseInv, LoopOK, open["receiver"],
         SendMessage \/ SendReturns \/ SendReturnsShort
  PROVE  Upcoming' = Upcoming
  <1>1. /\ offset \in Nat /\ copied \in Nat /\ left \in Nat /\ current \in Nat
        /\ sender \in Parts => /\ current \in Messages /\ left >= 1
                               /\ Total(sender) \in Nat /\ Total(sender) >= 1
    BY LoopFacts
  <1>2. HeaderSize \in Nat /\ HeaderSize >= 1
    BY SizeFacts
  <1>3. CASE SendMessage
    <2>1. /\ sender = "idle" /\ sender' = "size" /\ current' = current + 1
          /\ left' = HeaderSize /\ copied' = 0
      BY <1>3 DEF SendMessage, Enter
    <2>2. Total(sender)' = HeaderSize
      BY <2>1 DEF Total, PartSize
    <2>3. HeaderSize - HeaderSize + 0 + 1 = 1
      BY <1>2
    <2>4. Upcoming' = Byte(current + 1, "size", 1)
      BY <2>1, <2>2, <2>3 DEF Upcoming, Byte
    <2>5. Upcoming = Byte(current + 1, "size", 1)
      BY <2>1 DEF Upcoming
    <2> QED
      BY <2>4, <2>5
  <1>4. CASE SendReturns \/ SendReturnsShort
    <2>1. /\ sender \in Parts /\ offset + left = Total(sender)
          /\ current' = current
          /\ \/ copied = left /\ LoopEnds
             \/ copied > 0 /\ copied < left /\ LoopGoesOn
      BY <1>4, LoopStep
    <2>2. Upcoming = Byte(current, sender, Total(sender) - left + copied + 1)
      BY <2>1 DEF Upcoming, Parts
    <2>3. CASE copied < left /\ LoopGoesOn
      <3>1. sender' = sender /\ left' = left - copied /\ copied' = 0 /\ Total(sender)' = Total(sender)
        BY <2>1, <2>3 DEF LoopGoesOn, Total
      <3>2. Total(sender) - (left - copied) + 0 + 1 = Total(sender) - left + copied + 1
        BY <1>1, <2>1
      <3>3. Upcoming' = Byte(current, sender, Total(sender) - (left - copied) + 0 + 1)
        BY <2>1, <3>1 DEF Upcoming, Byte, Parts
      <3> QED
        BY <2>2, <3>2, <3>3
    <2>4. CASE copied = left /\ LoopEnds
      <3>1. Total(sender) - left + copied + 1 = Total(sender) + 1
            /\ ~(Total(sender) + 1 <= Total(sender))
        BY <1>1, <2>1, <2>4
      <3>2. Upcoming = IF sender = "size" THEN <<current, "body", 1>> ELSE <<current + 1, "size", 1>>
        BY <2>2, <3>1 DEF Byte, Total
      <3>3. CASE sender = "size" /\ Enter("body", Size[current])
        <4>1. /\ sender' = "body" /\ left' = Size[current] /\ copied' = 0
              /\ Total(sender)' = Size[current] /\ Size[current] \in Nat /\ Size[current] >= 1
              /\ PartSize(current, "body") = Size[current]
          BY <1>1, <2>1, <3>3, SizeFacts DEF Total, PartSize, Enter, Parts
        <4>2. Size[current] - Size[current] + 0 + 1 = 1
          BY <4>1
        <4>3. Upcoming' = Byte(current, "body", 1)
          BY <2>1, <4>1, <4>2 DEF Upcoming, Byte
        <4> QED
          BY <3>2, <3>3, <4>1, <4>3 DEF Byte
      <3>4. CASE sender = "body" /\ Enter("idle", 0)
        <4>1. Upcoming' = Byte(current + 1, "size", 1)
          BY <2>1, <3>4 DEF Enter, Upcoming, Byte
        <4>2. Byte(current + 1, "size", 1) = <<current + 1, "size", 1>>
          BY <1>2 DEF Byte, PartSize
        <4> QED
          BY <3>2, <3>4, <4>1, <4>2
      <3> QED
        BY <2>4, <3>3, <3>4 DEF LoopEnds
    <2> QED
      BY <2>1, <2>3, <2>4
  <1> QED
    BY <1>3, <1>4

\* A byte is copied: it is the one that was to come, and now its successor is.
LEMMA CopyFacts ==
  ASSUME BaseInv, LoopOK, Copy
  PROVE  /\ Pending' = Stream /\ Upcoming' = NextByte(Upcoming)
         /\ Upcoming = <<current, sender, offset + copied + 1>>
         /\ offset + copied + 1 <= Total(sender)
         /\ UNCHANGED <<receiver, returned, open>>
  <1>1. /\ sender \in Parts /\ open["receiver"] /\ offset + copied < Total(sender)
        /\ wire' = Append(wire, <<current, sender, offset + copied + 1>>)
        /\ copied' = copied + 1
        /\ UNCHANGED <<sender, current, left, offset, receiving, open>>
    BY DEF Copy, InLoop, Parts
  <1>2. /\ offset \in Nat /\ copied \in Nat /\ left \in Nat /\ current \in Nat
        /\ Total(sender) \in Nat
    BY <1>1, LoopFacts
  <1>3. offset + left = Total(sender)
    BY <1>1 DEF LoopOK, Parts
  <1>4. Upcoming \in Places /\ Upcoming = Byte(current, sender, offset + copied + 1)
    BY <1>1, UpcomingFacts
  <1>5. offset + copied + 1 <= Total(sender)
    BY <1>1, <1>2
  <1>6. Upcoming = <<current, sender, offset + copied + 1>>
    BY <1>4, <1>5 DEF Byte, Total
  <1>7. Upcoming' = NextByte(Upcoming)
    <2>1. Total(sender)' = Total(sender)
      BY <1>1 DEF Total
    <2>2. Total(sender) - left + (copied + 1) + 1 = (offset + copied + 1) + 1
      BY <1>2, <1>3
    <2>3. Upcoming' = Byte(current, sender, (offset + copied + 1) + 1)
      BY <1>1, <2>1, <2>2 DEF Upcoming, Byte, Parts
    <2> QED
      BY <1>6, <2>3 DEF NextByte
  <1>8. Pending' = Stream
    <2>1. /\ Header \in Seq(Places) /\ storage \in Seq(Places) /\ wire \in Seq(Places)
          /\ Pending = Cat(Cat(Header, storage), wire)
      BY PendingFacts DEF Cat
    <2>2. Pending' = Cat(Cat(Header, storage), Append(wire, Upcoming))
      BY <1>1, <1>6 DEF Pending, Header, receiving, Cat
    <2> DEFINE read == Cat(Header, storage)
    <2>3. read \in Seq(Places)
      BY <2>1, CatFacts
    <2> HIDE DEF read
    <2>4. Cat(read, Append(wire, Upcoming)) = Append(Cat(read, wire), Upcoming)
      <3>1. read \in Seq(Places) /\ wire \in Seq(Places) /\ Upcoming \in Places
        BY <1>4, <2>1, <2>3
      <3> QED
        BY <3>1, CatAppend
    <2> QED
      BY <2>1, <2>2, <2>4 DEF Stream, read
  <1> QED
    BY <1>1, <1>5, <1>6, <1>7, <1>8 DEF receiving

\* What comes of the bytes in a step that the receiver still lives after.
LEMMA StreamNext ==
  ASSUME ShortSends <= 1, IInv, [Next]_vars
  PROVE  StreamOK'
  <1> SUFFICES ASSUME open'["receiver"], receiver' # "ended"
               PROVE  Stream'[1] = <<Len(returned') + 1, "size", 1>> /\ InStream(Stream')
    BY DEF StreamOK, InStream, Chain, Runs, Order
  <1>1. ASSUME open["receiver"], receiver # "ended"
        PROVE  /\ Stream[1] = <<Len(returned) + 1, "size", 1>> /\ InStream(Stream)
               /\ Stream \in Seq(Places) /\ Stream # <<>> /\ Len(Pending) \in Nat
               /\ Len(Stream) = Len(Pending) + 1 /\ Stream[Len(Pending) + 1] = Upcoming
               /\ Upcoming \in Places
               /\ \A i \in 1..Len(Pending) : Stream[i] = Pending[i]
    BY <1>1, StreamFacts, UpcomingFacts DEF IInv, StreamOK
  <1>2. ASSUME open["receiver"], receiver # "ended", returned' = returned,
               Pending' = Pending, Upcoming' = Upcoming
        PROVE  Stream'[1] = <<Len(returned') + 1, "size", 1>> /\ InStream(Stream')
    <2>1. Stream' = Stream
      BY <1>2 DEF Stream
    <2> QED
      BY <1>1, <1>2, <2>1
  <1>3. ASSUME UNCHANGED sending PROVE Upcoming' = Upcoming
    BY <1>3 DEF sending, Upcoming, Total, Byte, PartSize
  <1>4. CASE SendMessage \/ SendReturns \/ SendReturnsShort
    <2>1. UNCHANGED <<wire, receiving, open>>
      BY <1>4 DEF SendMessage, SendReturns, SendReturnsShort
    <2>2. open["receiver"] /\ receiver # "ended" /\ returned' = returned /\ Pending' = Pending
      BY <2>1 DEF receiving, Pending
    <2> QED
      BY <1>2, <1>4, <2>2, UpcomingSame DEF IInv
  <1>5. CASE Copy
    <2>1. /\ Pending' = Stream /\ Upcoming' = NextByte(Upcoming)
          /\ UNCHANGED <<receiver, returned, open>>
      BY <1>5, CopyFacts DEF IInv
    <2>2. open["receiver"] /\ receiver # "ended"
      BY <2>1
    <2>3. /\ Stream[1] = <<Len(returned) + 1, "size", 1>> /\ InStream(Stream)
          /\ Stream \in Seq(Places) /\ Stream # <<>> /\ Len(Stream) \in Nat /\ Len(Stream) >= 1
          /\ Stream[Len(Stream)] = Upcoming /\ Upcoming \in Places
      BY <1>1, <2>2
    <2>4. NextByte(Upcoming) \in Places
      <3>1. /\ Upcoming = <<current, sender, offset + copied + 1>>
            /\ offset + copied + 1 <= Total(sender) /\ sender \in Parts
            /\ offset \in Nat /\ copied \in Nat /\ current \in Messages /\ current \in Nat
        BY <1>5, CopyFacts, LoopFacts DEF IInv, Copy, InLoop, Parts
      <3>2. /\ Upcoming[1] = current /\ Upcoming[2] = sender
            /\ Upcoming[3] = offset + copied + 1
            /\ Upcoming[3] \in Nat
        BY <3>1
      <3> DEFINE i == Upcoming[3] + 1
      <3>3. i \in Nat /\ current + 1 \in Nat /\ 1 \in Nat
        BY <3>1, <3>2
      <3>4. \/ NextByte(Upcoming) = <<current, sender, i>>
            \/ NextByte(Upcoming) = <<current, "body", 1>>
            \/ NextByte(Upcoming) = <<current + 1, "size", 1>>
        BY <2>3, <3>2, NextFacts
      <3> QED
        BY <3>1, <3>3, <3>4, PlaceFacts DEF Parts
    <2>5. Stream' = Append(Stream, NextByte(Upcoming))
      BY <2>1 DEF Stream
    <2>6. InStream(Append(Stream, NextByte(Upcoming)))
      BY <2>3, <2>4, StreamAppend
    <2>7. Append(Stream, NextByte(Upcoming))[1] = Stream[1]
      BY <2>3, <2>4, AppendProperties
    <2> QED
      BY <2>1, <2>3, <2>5, <2>6, <2>7
  <1>6. CASE SendFails
    <2>1. ~open["receiver"] /\ open' = open
      BY <1>6 DEF SendFails
    <2> QED
      BY <2>1
  <1>7. CASE Recv
    <2>1. /\ Pending' = Pending /\ UNCHANGED <<sending, receiver, expected, returned, open>>
      BY <1>7, RecvFacts DEF IInv
    <2> QED
      BY <1>2, <1>3, <2>1
  <1>8. CASE RecvEnd
    BY <1>8 DEF RecvEnd
  <1>9. CASE DecodeSize
    <2>1. Pending' = Pending /\ UNCHANGED <<sending, wire, returned, open>>
      BY <1>9, DecodeSizeFacts
    <2>2. receiver # "ended"
      BY <1>9 DEF DecodeSize
    <2> QED
      BY <1>2, <1>3, <2>1, <2>2
  <1>10. CASE DecodeBody
    <2>1. /\ returned' = Append(returned, Len(returned) + 1) /\ Len(returned) + 1 \in Messages
          /\ UNCHANGED <<sending, open>> /\ receiver # "ended"
      BY <1>10, DecodeBodyFacts DEF DecodeBody
    <2>2. PICK n \in Nat : /\ Len(Pending) = Len(Pending') + n
                           /\ Pending' \in Seq(Places)
                           /\ \A i \in 1..Len(Pending') : Pending'[i] = Pending[i + n]
                           /\ Stream[n + 1] = <<Len(returned) + 2, "size", 1>>
      BY <1>10, DecodeBodyFacts
    <2>3. /\ InStream(Stream) /\ Stream \in Seq(Places) /\ Len(Pending) \in Nat
          /\ Len(Stream) = Len(Pending) + 1 /\ Stream[Len(Pending) + 1] = Upcoming
          /\ Upcoming \in Places /\ Upcoming' = Upcoming
          /\ \A i \in 1..Len(Pending) : Stream[i] = Pending[i]
      BY <1>1, <1>3, <2>1
    <2> DEFINE p == Pending'
               t == Append(p, Upcoming)
    <2>4. Stream' = t
      BY <2>3 DEF Stream
    <2>5. /\ t \in Seq(Places) /\ t # <<>> /\ Len(p) \in Nat /\ Len(t) = Len(p) + 1
          /\ t[Len(p) + 1] = Upcoming /\ \A i \in 1..Len(p) : t[i] = p[i]
      <3>1. p \in Seq(Places)
        BY <2>2
      <3> HIDE DEF p
      <3> QED
        BY <2>3, <3>1, AppendProperties, LenProperties
    <2>6. /\ Len(Pending) = Len(p) + n /\ \A i \in 1..Len(p) : p[i] = Pending[i + n]
      BY <2>2
    <2> HIDE DEF p, t
    <2>7. \A i \in 1..Len(t) : t[i] = Stream[i + n]
      <3> SUFFICES ASSUME NEW i \in 1..Len(t) PROVE t[i] = Stream[i + n]
        OBVIOUS
      <3>1. CASE i \in 1..Len(p)
        <4>1. i + n \in 1..Len(Pending)
          BY <2>3, <2>5, <2>6, <3>1
        <4> QED
          BY <2>3, <2>5, <2>6, <3>1, <4>1
      <3>2. CASE i = Len(p) + 1
        <4>1. i + n = Len(Pending) + 1
          BY <2>3, <2>5, <2>6, <3>2
        <4> QED
          BY <2>3, <2>5, <3>2, <4>1
      <3> QED
        BY <2>5, <3>1, <3>2
    <2>8. InStream(t)
      <3>1. Len(Stream) = Len(t) + n
        BY <2>3, <2>5, <2>6
      <3> QED
        BY <2>3, <2>5, <2>7, <3>1, StreamDrop
    <2>9. t[1] = <<Len(returned) + 2, "size", 1>>
      <3>1. 1 \in 1..Len(t) /\ 1 + n = n + 1
        BY <2>5
      <3> QED
        BY <2>2, <2>7, <3>1
    <2>10. Len(returned') + 1 = Len(returned) + 2
      <3>1. returned \in Seq(Messages)
        BY DEF IInv, BaseInv, TypeOK
      <3>2. Len(returned) \in Nat
        BY <3>1, LenProperties
      <3>3. Len(returned') = Len(returned) + 1
        BY <2>1, <3>1, AppendProperties
      <3> QED
        BY <3>2, <3>3
    <2> QED
      BY <2>4, <2>8, <2>9, <2>10
  <1>11. ASSUME NEW e \in {"sender", "receiver"}, Close(e)
         PROVE  Stream'[1] = <<Len(returned') + 1, "size", 1>> /\ InStream(Stream')
    <2>1. /\ open' = [open EXCEPT ![e] = FALSE] /\ UNCHANGED <<sending, receiving>>
          /\ wire' = IF e = "receiver" THEN <<>> ELSE wire
      BY <1>11 DEF Close
    <2>2. e = "sender" /\ open["receiver"]
      BY <2>1 DEF IInv, BaseInv, TypeOK
    <2>3. Pending' = Pending /\ returned' = returned /\ receiver # "ended"
      BY <2>1, <2>2 DEF Pending, receiving
    <2> QED
      BY <1>2, <1>3, <2>1, <2>2, <2>3
  <1>12. CASE Stopped \/ UNCHANGED vars
    <2>1. UNCHANGED <<sending, wire, receiving, open>>
      BY <1>12 DEF Stopped, vars
    <2>2. open["receiver"] /\ receiver # "ended" /\ returned' = returned /\ Pending' = Pending
      BY <2>1 DEF receiving, Pending
    <2> QED
      BY <1>2, <1>3, <2>1, <2>2
  <1> QED
    BY <1>4, <1>5, <1>6, <1>7, <1>8, <1>9, <1>10, <1>11, <1>12
       DEF Next, SendingThread, ReceivingThread

LEMMA IInvInit == Init => IInv
  <1> SUFFICES ASSUME Init PROVE LoopOK /\ ReadOK /\ StreamOK
    BY BaseInit DEF IInv
  <1>1. /\ sender = "idle" /\ current = 0 /\ left = 0 /\ wire = <<>> /\ storage = <<>>
        /\ receiver = "size" /\ returned = <<>> /\ open["receiver"]
    BY DEF Init
  <1>2. LoopOK
    BY <1>1 DEF LoopOK
  <1>3. ReadOK
    BY <1>1, EmptySeq DEF ReadOK
  <1>4. BaseInv
    BY BaseInit
  <1>5. /\ Stream \in Seq(Places) /\ Len(Stream) = Len(Pending) + 1
        /\ Stream[Len(Pending) + 1] = Upcoming /\ Upcoming \in Places
        /\ Upcoming = <<current + 1, "size", 1>>
    BY <1>1, <1>2, <1>4, StreamFacts, UpcomingFacts DEF Parts
  <1>6. Len(Pending) = 0
    <2>1. Header = <<>> /\ Len(Header) = 0 /\ Len(storage) = 0 /\ Len(wire) = 0
      BY <1>1, EmptySeq DEF Header
    <2> QED
      BY <1>4, <2>1, PendingFacts
  <1>7. Len(Stream) = 1 /\ Stream[1] = Upcoming
    BY <1>5, <1>6
  <1>8. Stream[1] = <<Len(returned) + 1, "size", 1>>
    BY <1>1, <1>5, <1>7, EmptySeq
  <1>9. Chain(Stream) /\ Order(Stream)
    <2>1. Upcoming[1] \in Nat /\ Upcoming[1] <= Upcoming[1]
      BY <1>5, PlaceFacts
    <2>2. Chain(Stream)
      BY <1>7 DEF Chain
    <2> QED
      BY <1>7, <2>1, <2>2 DEF Order
  <1>10. Runs(Stream)
    <2>1. Upcoming = <<Upcoming[1], Upcoming[2], Upcoming[3]>> /\ Upcoming[3] \in Nat
      BY <1>5, PlaceFacts
    <2>2. Upcoming[3] + 0 = Upcoming[3]
      BY <2>1
    <2>3. \A i, j \in 1..1 : i = 1 /\ j = 1 /\ j - i = 0
      OBVIOUS
    <2> QED
      BY <1>7, <2>1, <2>2, <2>3 DEF Runs
  <1> QED
    BY <1>2, <1>3, <1>8, <1>9, <1>10 DEF StreamOK, InStream

LEMMA IInvNext ==
  ASSUME ShortSends <= 1
  PROVE  IInv /\ [Next]_vars => IInv'
  BY BaseNext, LoopNext, ReadNext, StreamNext DEF IInv

LEMMA InvariantHolds ==
  ASSUME ShortSends <= 1
  PROVE  Spec => []IInv
  BY IInvInit, IInvNext, PTL DEF Spec

\* While no loop of send() has more than one early return, what is between the
\* calls of sendMessage and receiveMessage is always the concatenated frames,
\* in order and without a gap: two early returns in one loop break it (see
\* NothingGarbled), for the offset is then set to the size of the last piece.
THEOREM FramesArriveInOrder ==
  ASSUME ShortSends <= 1
  PROVE  Spec => []FramesInOrder
  <1>1. IInv => FramesInOrder
    <2> SUFFICES ASSUME IInv, open["receiver"], receiver # "ended"
                 PROVE  /\ Stream[1] = <<Len(returned) + 1, "size", 1>>
                        /\ \A i \in 1..Len(Pending) : Stream[i + 1] = NextByte(Stream[i])
      BY DEF FramesInOrder, Stream
    <2>1. /\ Stream[1] = <<Len(returned) + 1, "size", 1>> /\ Chain(Stream)
          /\ Len(Stream) = Len(Pending) + 1 /\ Len(Pending) \in Nat
      BY StreamFacts DEF IInv, StreamOK, InStream
    <2>2. \A i \in 1..Len(Pending) : i \in 1..Len(Stream) /\ i + 1 \in 1..Len(Stream)
      BY <2>1
    <2> QED
      BY <2>1, <2>2 DEF Chain
  <1> QED
    BY <1>1, InvariantHolds, PTL

\* Then size_to_complete_send does not wrap around: what a send() has copied is
\* at most what is left, so that the subtraction of bson_socket.cpp:46 and 57 is
\* exact.  With two early returns in one loop it can be more.
NothingWraps == sender \in {"size", "body"} => copied <= left /\ AfterSend(copied) = left - copied
THEOREM SizeLeftIsExact ==
  ASSUME ShortSends <= 1
  PROVE  Spec => []NothingWraps
  <1>1. IInv => NothingWraps
    <2> SUFFICES ASSUME IInv, sender \in {"size", "body"}
                 PROVE  copied <= left /\ AfterSend(copied) = left - copied
      BY DEF NothingWraps
    <2>1. copied \in Nat /\ left \in 0..(Modulus - 1) /\ left \in Nat
      BY WidthAssumption DEF IInv, BaseInv, TypeOK
    <2>2. copied <= left
      BY <2>1 DEF IInv, LoopOK
    <2> QED
      BY <2>1, <2>2, AfterSendFacts
  <1> QED
    BY <1>1, InvariantHolds, PTL

\* Then no reader takes other bytes for a message, as bson_socket.hpp:34 says:
\* the run that refutes it needs a second early return in one loop.
THEOREM NothingIsGarbled ==
  ASSUME ShortSends <= 1
  PROVE  Spec => []NothingGarbled
  <1>1. IInv => NothingGarbled
    BY DEF IInv, ReadOK, NothingGarbled
  <1> QED
    BY <1>1, InvariantHolds, PTL

-----------------------------------------------------------------------------
(* The safety half of ImplementsChannel: every step of the connection is a   *)
(* step of the channel of messages, or leaves it alone.                      *)

Status == IF receiver = "ended" THEN "ended" ELSE IF open["receiver"] THEN "open" ELSE "broken"

\* What a step comes to for the channel.
ChannelStep ==
    \/ UNCHANGED <<Sent, returned, Status>>
    \/ /\ Status = "open" /\ UNCHANGED <<returned, Status>>
       /\ \E m \in Messages : Sent' = Append(Sent, m)
    \/ /\ Status = "open" /\ UNCHANGED <<Sent, Status>>
       /\ Len(returned) < Len(Sent)
       /\ returned' = Append(returned, Sent[Len(returned) + 1])
    \/ Status # "ended" /\ returned = Sent /\ Status' = "ended" /\ UNCHANGED <<Sent, returned>>
    \/ Status = "open" /\ Status' = "broken" /\ UNCHANGED <<Sent, returned>>

LEMMA SentFacts ==
  ASSUME Complete \in Nat
  PROVE  Sent \in Seq(Nat) /\ Len(Sent) = Complete /\ \A m \in 1..Complete : Sent[m] = m
  <1>1. Sent = [m \in 1..Complete |-> m]
    BY DEF Sent
  <1>2. Sent \in Seq(Nat)
    BY <1>1
  <1> QED
    BY <1>1, <1>2

\* A message is handed over when the last byte of its body is copied.
LEMMA CompleteFacts ==
  ASSUME BaseInv, LoopOK
  PROVE  /\ current \in Nat
         /\ sender \in Parts /\ ~(sender = "body" /\ left = copied) => Complete = current - 1
         /\ sender = "idle" => Complete = current
  <1>1. /\ left \in Nat /\ current \in Nat
        /\ sender \in Parts => left >= 1
        /\ sender = "idle" => left = 0
    BY LoopFacts DEF LoopOK
  <1> QED
    BY <1>1 DEF Complete

LEMMA SendingKeepsComplete ==
  ASSUME ShortSends <= 1, BaseInv, LoopOK,
         SendMessage \/ SendReturns \/ SendReturnsShort \/ SendFails
  PROVE  Complete' = Complete
  <1>1. /\ left \in Nat /\ current \in Nat /\ copied \in Nat
        /\ sender \in Parts => current \in Messages /\ left >= 1
    BY LoopFacts
  <1>2. CASE SendMessage
    <2>1. sender = "idle" /\ left = 0 /\ Complete = current
      BY <1>2, CompleteFacts DEF SendMessage, LoopOK
    <2>2. CASE open["receiver"]
      <3>1. sender' = "size" /\ left' = HeaderSize /\ current' = current + 1 /\ HeaderSize > 0
        BY <1>2, <2>2, SizeFacts DEF SendMessage, Enter
      <3>2. Complete' = (current + 1) - 1
        BY <3>1 DEF Complete
      <3> QED
        BY <1>1, <2>1, <3>2
    <2>3. CASE ~open["receiver"]
      <3>1. left' = 0 /\ current' = current
        BY <1>2, <2>1, <2>3 DEF SendMessage
      <3> QED
        BY <2>1, <3>1 DEF Complete
    <2> QED
      BY <2>2, <2>3
  <1>3. CASE SendReturns \/ SendReturnsShort
    <2>1. /\ sender \in Parts /\ current' = current
          /\ \/ copied = left /\ LoopEnds
             \/ copied > 0 /\ copied < left /\ LoopGoesOn
      BY <1>3, LoopStep
    <2>2. CASE copied < left /\ LoopGoesOn
      <3>1. left' > 0 /\ copied' = 0 /\ left' # copied' /\ copied # left /\ left > 0
        BY <1>1, <2>2 DEF LoopGoesOn
      <3> QED
        BY <2>1, <3>1 DEF Complete
    <2>3. CASE copied = left /\ sender = "size" /\ Enter("body", Size[current])
      <3>1. Size[current] > 0 /\ left > 0
        BY <1>1, <2>1, SizeFacts DEF Parts
      <3>2. left' > 0 /\ copied' = 0 /\ left' # copied'
        BY <2>3, <3>1 DEF Enter
      <3> QED
        BY <2>1, <2>3, <3>1, <3>2 DEF Complete
    <2>4. CASE copied = left /\ sender = "body" /\ Enter("idle", 0)
      BY <2>1, <2>4 DEF Complete, Enter
    <2> QED
      BY <2>1, <2>2, <2>3, <2>4 DEF LoopEnds
  <1>4. CASE SendFails
    <2>1. /\ sender \in Parts /\ copied = 0 /\ sender' = "failed"
          /\ UNCHANGED <<current, left, copied>>
      BY <1>4 DEF SendFails, InLoop, Parts
    <2>2. left > 0 /\ left # copied
      BY <1>1, <2>1
    <2> QED
      BY <2>1, <2>2 DEF Complete
  <1> QED
    BY <1>2, <1>3, <1>4

\* The message that is copied to its end is the next that the channel is given.
LEMMA CopySends ==
  ASSUME BaseInv, LoopOK, Copy
  PROVE  \/ Complete' = Complete
         \/ Complete \in Nat /\ Complete' = Complete + 1 /\ Complete + 1 \in Messages
  <1>1. /\ sender \in Parts /\ open["receiver"] /\ offset + copied < Total(sender)
        /\ copied' = copied + 1 /\ UNCHANGED <<sender, current, left>>
    BY DEF Copy, InLoop, Parts
  <1>2. /\ left \in Nat /\ current \in Nat /\ copied \in Nat /\ offset \in Nat
        /\ current \in Messages /\ current >= 1 /\ left >= 1 /\ Total(sender) \in Nat
    BY <1>1, LoopFacts, SizeFacts
  <1>3. offset + left = Total(sender)
    BY <1>1 DEF LoopOK, Parts
  <1>4. left # copied
    BY <1>1, <1>2, <1>3
  <1>5. Complete = current - 1
    BY <1>1, <1>4, CompleteFacts
  <1>6. Complete' = current - 1 \/ Complete' = current
    BY <1>1 DEF Complete
  <1> QED
    BY <1>2, <1>5, <1>6

\* No body is taken out before it was written to its end.
LEMMA ReturnedWasSent ==
  ASSUME IInv, DecodeBody
  PROVE  Complete \in Nat /\ Len(returned) \in Nat /\ Len(returned) < Complete
  <1>1. open["receiver"] /\ receiver # "ended"
    BY DEF DecodeBody
  <1>2. /\ Order(Stream) /\ Stream \in Seq(Places) /\ Len(Pending) \in Nat
        /\ Len(Stream) = Len(Pending) + 1 /\ Stream[Len(Pending) + 1] = Upcoming
        /\ Upcoming[1] = Complete + 1 /\ Complete \in Nat
    BY <1>1, StreamFacts, UpcomingFacts DEF IInv, StreamOK, InStream
  <1>3. PICK n \in Nat : /\ Len(Pending) = Len(Pending') + n
                         /\ Pending' \in Seq(Places)
                         /\ Stream[n + 1] = <<Len(returned) + 2, "size", 1>>
    BY DecodeBodyFacts
  <1>4. Len(Pending') \in Nat
    BY <1>3, LenProperties
  <1>5. n + 1 \in 1..Len(Stream) /\ Len(Stream) = Len(Pending) + 1
    BY <1>2, <1>3, <1>4
  <1>6. Stream[n + 1][1] <= Upcoming[1]
    BY <1>2, <1>5 DEF Order
  <1>7. Len(returned) \in Nat
    BY LenProperties DEF IInv, BaseInv, TypeOK
  <1> QED
    BY <1>2, <1>3, <1>6, <1>7

\* A sender that closed between two messages leaves none behind: when less than
\* a part is there and nothing more comes, the next byte to write is in the
\* message that receiveMessage waits for.
LEMMA NothingLeftBehind ==
  ASSUME IInv, RecvEnd
  PROVE  returned = Sent
  <1> DEFINE m == Len(returned) + 1
             L == Len(Pending) + 1
  <1>1. /\ open["receiver"] /\ receiver \in Parts /\ receiver # "ended"
        /\ Len(storage) < Wanted /\ wire = <<>>
    BY DEF RecvEnd, Reads, Parts
  <1>2. /\ Stream[1] = <<m, "size", 1>> /\ Chain(Stream) /\ Runs(Stream)
        /\ Len(Pending) \in Nat /\ Len(Stream) = L /\ Stream[L] = Upcoming
        /\ L = Len(Pending) + 1
        /\ Upcoming[1] = Complete + 1 /\ Complete \in Nat
    BY <1>1, StreamFacts, UpcomingFacts DEF IInv, StreamOK, InStream
  <1>3. /\ HeaderSize \in Nat /\ HeaderSize >= 1 /\ PartSize(m, "size") = HeaderSize
        /\ m \in Nat /\ Len(storage) \in Nat
        /\ Len(Pending) = Len(Header) + Len(storage)
    <2>1. Len(wire) = 0
      BY <1>1, EmptySeq
    <2>2. /\ Len(Header) \in Nat /\ Len(storage) \in Nat /\ Len(wire) \in Nat /\ m \in Nat
          /\ Len(Pending) = Len(Header) + Len(storage) + Len(wire)
      BY PendingFacts DEF IInv
    <2> QED
      BY <2>1, <2>2, SizeFacts
  <1>4. Upcoming[1] = m
    <2> HIDE DEF m, L
    <2>1. CASE receiver = "size"
      <3>1. Len(Header) = 0
        BY <2>1, EmptySeq DEF Header
      <3>2. /\ 1 \in 1..Len(Stream) /\ L \in 1..Len(Stream) /\ 1 <= L
            /\ 1 + (L - 1) <= PartSize(m, "size")
        BY <1>1, <1>2, <1>3, <2>1, <3>1 DEF Wanted
      <3>3. Stream[L] = <<m, "size", 1 + (L - 1)>>
        <4>1. Stream[1][1] = m /\ Stream[1][2] = "size" /\ Stream[1][3] = 1
          BY <1>2
        <4>2. \A j \in 1..Len(Stream) :
                  1 <= j /\ Stream[1][3] + (j - 1) <= PartSize(Stream[1][1], Stream[1][2]) =>
                      Stream[j] = <<Stream[1][1], Stream[1][2], Stream[1][3] + (j - 1)>>
          BY <1>2, <3>2 DEF Runs
        <4> QED
          BY <3>2, <4>1, <4>2
      <3> QED
        BY <1>2, <3>3
    <2>2. CASE receiver = "body"
      <3>1. m \in Messages /\ expected = Size[m] /\ expected \in Nat
            /\ PartSize(m, "body") = expected
        BY <2>2, SizeFacts DEF IInv, ReadOK, BaseInv, TypeOK, m
      <3>2. Len(Header) = HeaderSize
        BY <1>3, <2>2, <3>1, WholeFacts DEF Header, Parts, m
      <3>3. L = HeaderSize + Len(storage) + 1 /\ Len(storage) + 1 <= expected
        <4>1. Len(storage) < expected
          BY <1>1, <2>2 DEF Wanted
        <4> QED
          BY <1>2, <1>3, <3>1, <3>2, <4>1
      <3>4. /\ 1 \in 1..L /\ HeaderSize \in 1..L /\ HeaderSize + 1 \in 1..L /\ L \in 1..L
            /\ 1 <= HeaderSize /\ 1 + (HeaderSize - 1) = HeaderSize
            /\ HeaderSize <= PartSize(m, "size")
            /\ HeaderSize + 1 <= L /\ 1 + (L - (HeaderSize + 1)) = Len(storage) + 1
        BY <1>3, <3>3
      <3>5. Stream[HeaderSize] = <<m, "size", HeaderSize>>
        BY <1>2, <3>4 DEF Runs
      <3>6. Stream[HeaderSize + 1] = <<m, "body", 1>>
        <4>1. Stream[HeaderSize + 1] = NextByte(<<m, "size", HeaderSize>>)
          BY <1>2, <3>4, <3>5 DEF Chain
        <4>2. ~(HeaderSize + 1 <= PartSize(m, "size"))
          BY <1>3
        <4> QED
          BY <4>1, <4>2 DEF NextByte, Byte
      <3>7. 1 + (L - (HeaderSize + 1)) <= PartSize(m, "body")
        BY <3>1, <3>3, <3>4
      <3>8. HeaderSize + 1 \in 1..Len(Stream) /\ L \in 1..Len(Stream) /\ HeaderSize + 1 <= L
        BY <1>2, <3>4
      <3>9. Stream[L] = <<m, "body", 1 + (L - (HeaderSize + 1))>>
        <4>1. /\ Stream[HeaderSize + 1][1] = m /\ Stream[HeaderSize + 1][2] = "body"
              /\ Stream[HeaderSize + 1][3] = 1
          BY <3>6
        <4>2. \A j \in 1..Len(Stream) :
                  HeaderSize + 1 <= j /\
                  Stream[HeaderSize + 1][3] + (j - (HeaderSize + 1))
                      <= PartSize(Stream[HeaderSize + 1][1], Stream[HeaderSize + 1][2]) =>
                      Stream[j] =
                          <<Stream[HeaderSize + 1][1], Stream[HeaderSize + 1][2],
                            Stream[HeaderSize + 1][3] + (j - (HeaderSize + 1))>>
          BY <1>2, <3>8 DEF Runs
        <4> QED
          BY <3>7, <3>8, <4>1, <4>2
      <3> QED
        BY <1>2, <3>9
    <2> QED
      BY <1>1, <2>1, <2>2 DEF Parts
  <1>5. Len(returned) = Complete /\ Len(returned) \in Nat
    <2>1. Len(returned) \in Nat
      BY LenProperties DEF IInv, BaseInv, TypeOK
    <2> QED
      BY <1>2, <1>4, <2>1
  <1>6. /\ Sent \in Seq(Nat) /\ Len(Sent) = Complete /\ \A k \in 1..Complete : Sent[k] = k
    BY <1>5, SentFacts
  <1>7. returned \in Seq(Nat) /\ \A k \in 1..Len(returned) : returned[k] = k
    BY PlaceFacts, SeqMonotonic DEF IInv, BaseInv, TypeOK, ReadOK
  <1> QED
    BY <1>5, <1>6, <1>7, SeqEqual

LEMMA StepIsChannelStep ==
  ASSUME ShortSends <= 1, IInv, [Next]_vars
  PROVE  ChannelStep
  <1>1. /\ BaseInv /\ LoopOK /\ returned \in Seq(Messages) /\ receiver # "garbled"
        /\ receiver = "ended" => ~open["sender"]
        /\ \A k \in 1..Len(returned) : returned[k] = k
        /\ open \in [{"sender", "receiver"} -> BOOLEAN]
    BY DEF IInv, BaseInv, TypeOK, ReadOK
  <1>2. ASSUME UNCHANGED sending PROVE Complete' = Complete
    BY <1>2 DEF sending, Complete
  <1>3. ASSUME Complete' = Complete PROVE Sent' = Sent
    BY <1>3 DEF Sent
  <1>4. CASE SendMessage \/ SendReturns \/ SendReturnsShort \/ SendFails
    <2>1. UNCHANGED <<receiving, open>>
      BY <1>4 DEF SendMessage, SendReturns, SendReturnsShort, SendFails
    <2>2. returned' = returned /\ Status' = Status
      BY <2>1 DEF receiving, Status
    <2>3. Sent' = Sent
      BY <1>1, <1>3, <1>4, SendingKeepsComplete
    <2> QED
      BY <2>2, <2>3 DEF ChannelStep
  <1>5. CASE Copy
    <2>1. /\ open["sender"] /\ open["receiver"] /\ UNCHANGED <<receiving, open>>
      BY <1>5 DEF Copy, InLoop
    <2>2. returned' = returned /\ Status' = Status /\ Status = "open"
      BY <1>1, <2>1 DEF receiving, Status
    <2>3. CASE Complete' = Complete
      BY <1>3, <2>2, <2>3 DEF ChannelStep
    <2>4. CASE Complete \in Nat /\ Complete' = Complete + 1 /\ Complete + 1 \in Messages
      <3>1. Sent' = Append(Sent, Complete + 1)
        <4> DEFINE c == Complete
                   t == [k \in 1..(c + 1) |-> k]
        <4>1. Sent' = t
          BY <2>4 DEF Sent
        <4>2. Sent \in Seq(Nat) /\ Len(Sent) = c /\ c \in Nat /\ \A k \in 1..c : Sent[k] = k
          BY <2>4, SentFacts
        <4> HIDE DEF c
        <4>3. /\ Append(Sent, c + 1) \in Seq(Nat) /\ Len(Append(Sent, c + 1)) = c + 1
              /\ \A k \in 1..(c + 1) : Append(Sent, c + 1)[k] = k
          BY <4>2, AppendProperties
        <4>4. t \in Seq(Nat) /\ Len(t) = c + 1 /\ \A k \in 1..(c + 1) : t[k] = k
          BY <4>2
        <4> HIDE DEF t
        <4>5. t = Append(Sent, c + 1)
          BY <4>3, <4>4, SeqEqual
        <4> QED
          BY <4>1, <4>5 DEF c
      <3> QED
        BY <2>2, <2>4, <3>1 DEF ChannelStep
    <2> QED
      BY <1>1, <1>5, <2>3, <2>4, CopySends
  <1>6. CASE Recv \/ DecodeSize
    <2>1. UNCHANGED <<sending, returned, open>> /\ receiver # "ended" /\ receiver' # "ended"
      BY <1>1, <1>6, DecodeSizeFacts DEF Recv, Reads, DecodeSize
    <2>2. Sent' = Sent /\ Status' = Status
      BY <1>2, <1>3, <2>1 DEF Status
    <2> QED
      BY <2>1, <2>2 DEF ChannelStep
  <1>7. CASE RecvEnd
    <2>1. /\ receiver # "ended" /\ receiver' = "ended" /\ UNCHANGED <<sending, returned, open>>
      BY <1>7 DEF RecvEnd, Reads
    <2>2. Status # "ended" /\ Status' = "ended" /\ Sent' = Sent
      BY <1>2, <1>3, <2>1 DEF Status
    <2>3. returned = Sent
      BY <1>7, NothingLeftBehind
    <2> QED
      BY <2>1, <2>2, <2>3 DEF ChannelStep
  <1>8. CASE DecodeBody
    <2>1. /\ returned' = Append(returned, Len(returned) + 1) /\ receiver' = "size"
          /\ UNCHANGED <<sending, open>> /\ open["receiver"] /\ receiver # "ended"
      BY <1>8, DecodeBodyFacts DEF DecodeBody
    <2>2. Status = "open" /\ Status' = Status /\ Sent' = Sent
      BY <1>2, <1>3, <2>1 DEF Status
    <2>3. Complete \in Nat /\ Len(returned) \in Nat /\ Len(returned) < Complete
      BY <1>8, ReturnedWasSent
    <2>4. Len(Sent) = Complete /\ Sent[Len(returned) + 1] = Len(returned) + 1
      <3>1. Len(returned) + 1 \in 1..Complete
        BY <2>3
      <3> QED
        BY <2>3, <3>1, SentFacts
    <2> QED
      BY <2>1, <2>2, <2>3, <2>4 DEF ChannelStep
  <1>9. ASSUME NEW e \in {"sender", "receiver"}, Close(e) PROVE ChannelStep
    <2>1. open[e] /\ open' = [open EXCEPT ![e] = FALSE] /\ UNCHANGED <<sending, receiving>>
      BY <1>9 DEF Close
    <2>2. Sent' = Sent /\ returned' = returned /\ receiver' = receiver
      BY <1>2, <1>3, <2>1 DEF receiving
    <2>3. CASE receiver = "ended" \/ e = "sender"
      <3>1. Status' = Status
        BY <1>1, <2>1, <2>2, <2>3 DEF Status
      <3> QED
        BY <2>2, <3>1 DEF ChannelStep
    <2>4. CASE receiver # "ended" /\ e = "receiver"
      <3>1. Status = "open" /\ Status' = "broken"
        BY <1>1, <2>1, <2>2, <2>4 DEF Status
      <3> QED
        BY <2>2, <3>1 DEF ChannelStep
    <2> QED
      BY <2>3, <2>4
  <1>10. CASE Stopped \/ UNCHANGED vars
    <2>1. UNCHANGED <<sending, receiver, returned, open>>
      BY <1>10 DEF Stopped, vars, receiving
    <2>2. Sent' = Sent /\ Status' = Status
      BY <1>2, <1>3, <2>1 DEF Status
    <2> QED
      BY <2>1, <2>2 DEF ChannelStep
  <1> QED
    BY <1>4, <1>5, <1>6, <1>7, <1>8, <1>9, <1>10 DEF Next, SendingThread, ReceivingThread

\* With that hypothesis a BsonSocket never does what a channel of whole
\* messages could not do: each message that is returned is the next of those
\* handed over, whatever the sizes of messages and buffers, and the peer's end
\* is only reported when none of those is left.
THEOREM MessagesAreChannel ==
  ASSUME ShortSends <= 1
  PROVE  Spec => C!SafeSpec
  <1>1. Init => C!Init
    <2> SUFFICES ASSUME Init PROVE C!Init
      OBVIOUS
    <2>1. left = 0 /\ current = 0 /\ receiver = "size" /\ returned = <<>> /\ open["receiver"]
      BY DEF Init
    <2>2. Complete = 0
      BY <2>1 DEF Complete
    <2>3. Sent = <<>>
      BY <2>2, SentFacts, EmptySeq
    <2> QED
      BY <2>1, <2>3 DEF C!Init
  <1>2. IInv /\ [Next]_vars => [C!Next]_C!channelVars
    <2> SUFFICES ASSUME IInv, [Next]_vars PROVE [C!Next]_C!channelVars
      OBVIOUS
    <2>1. ChannelStep
      BY StepIsChannelStep
    <2> QED
      BY <2>1 DEF ChannelStep, Status, C!Next, C!Send, C!Deliver, C!End, C!Break, C!channelVars
  <1> QED
    BY <1>1, <1>2, InvariantHolds, PTL DEF Spec, C!SafeSpec
=============================================================================
