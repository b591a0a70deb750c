------------------------- MODULE MessagePassingProofs -------------------------
(***************************************************************************)
(* Proofs about MessagePassing for every number of pointers, every size of *)
(* a pointer and every room in the socket.                                 *)
(*                                                                         *)
(* The argument: number the bytes of all the messages in the order they    *)
(* are sent.  The receiver has the first Received of them, the socket the  *)
(* next ones in order, and the sender goes on where the socket ends.       *)
(***************************************************************************)
EXTENDS MessagePassing, TLAPS

Byte == (Nat \ {0}) \X (1 .. Word)

\* The number of a byte, from 1 on.
Pos(b) == (b[1] - 1) * Word + b[2]

Received == Len(payloads) * Word + r_msg.offset

StreamInv == \A j \in 1 .. Len(stream) : Pos(stream[j]) = Received + j

\* The sender is at message p.
SenderAt(p) ==
  /\ w_msg.buffer = Bytes(p)
  /\ Received + Len(stream) = (p - 1) * Word + w_msg.offset

\* The part of the message at hand that has been read.
BufferInv ==
  \A i \in 1 .. Word :
    i <= r_msg.offset => r_msg.buffer[i] = <<Len(payloads) + 1, i>>

StateInv ==
  /\ w_state = "WRITE_FINISH" <=> w_msg.offset = Word
  /\ r_state = "READ_FINISH" <=> r_msg.offset = Word

IndInv ==
  /\ TypeOK
  /\ \A k \in 1 .. Len(payloads) : payloads[k] = Bytes(k)
  /\ StreamInv
  /\ \E p \in 1 .. Pointers : SenderAt(p)
  /\ BufferInv
  /\ StateInv

------------------------------------------------------------------------------
(* Numbers of bytes *)

\* A message more is Word bytes more.
LEMMA OneMore ==
  ASSUME NEW k \in Nat
  PROVE  (k + 1) * Word = k * Word + Word /\ k * Word \in Nat
BY PassingAssumption

\* More bytes are no fewer messages.
LEMMA MulOrder ==
  ASSUME NEW a \in Nat, NEW b \in Nat, a * Word <= b * Word
  PROVE  a <= b
<1>0. Word \in Nat \ {0}
  BY PassingAssumption
<1> SUFFICES ASSUME b + 1 <= a PROVE FALSE
  OBVIOUS
<1>1. PICK c \in Nat : a = b + 1 + c
  <2>1. a - (b + 1) \in Nat /\ a = b + 1 + (a - (b + 1))
    OBVIOUS
  <2> QED BY <2>1
<1>2. a * Word = b * Word + Word + c * Word
  BY <1>0, <1>1
<1>3. c * Word \in Nat /\ b * Word \in Nat
  BY <1>0
<1> QED BY <1>0, <1>2, <1>3

\* A byte is known by its number.
LEMMA PosInjective ==
  ASSUME NEW b \in Byte, NEW c \in Byte, Pos(b) = Pos(c)
  PROVE  b = c
<1>0. Word \in Nat \ {0}
  BY PassingAssumption
<1>1. PICK p \in Nat, i \in 1 .. Word : b = <<p + 1, i>>
  <2>1. b[1] - 1 \in Nat /\ b = <<(b[1] - 1) + 1, b[2]>> /\ b[2] \in 1 .. Word
    BY DEF Byte
  <2> QED BY <2>1
<1>2. PICK q \in Nat, j \in 1 .. Word : c = <<q + 1, j>>
  <2>1. c[1] - 1 \in Nat /\ c = <<(c[1] - 1) + 1, c[2]>> /\ c[2] \in 1 .. Word
    BY DEF Byte
  <2> QED BY <2>1
<1>3. p * Word + i = q * Word + j
  BY <1>1, <1>2 DEF Pos
<1>4. ~(p < q)
  <2> SUFFICES ASSUME p < q PROVE FALSE
    OBVIOUS
  <2>1. PICK d \in Nat : q = p + 1 + d
    <3>1. q - (p + 1) \in Nat /\ q = p + 1 + (q - (p + 1))
      OBVIOUS
    <3> QED BY <3>1
  <2>2. q * Word = p * Word + Word + d * Word /\ d * Word \in Nat /\ p * Word \in Nat
    BY <1>0, <2>1
  <2> QED BY <1>0, <1>3, <2>2
<1>5. ~(q < p)
  <2> SUFFICES ASSUME q < p PROVE FALSE
    OBVIOUS
  <2>1. PICK d \in Nat : p = q + 1 + d
    <3>1. p - (q + 1) \in Nat /\ p = q + 1 + (p - (q + 1))
      OBVIOUS
    <3> QED BY <3>1
  <2>2. p * Word = q * Word + Word + d * Word /\ d * Word \in Nat /\ q * Word \in Nat
    BY <1>0, <2>1
  <2> QED BY <1>0, <1>3, <2>2
<1>6. p = q
  BY <1>4, <1>5
<1>7. i = j
  <2>1. p * Word \in Nat
    BY <1>0
  <2> QED BY <1>0, <1>3, <1>6, <2>1
<1> QED BY <1>1, <1>2, <1>6, <1>7

\* The bytes of a message are the ones after those of the messages before it.
LEMMA BytesPos ==
  ASSUME NEW k \in Nat, NEW i \in 1 .. Word
  PROVE  /\ Bytes(k + 1)[i] = <<k + 1, i>>
         /\ <<k + 1, i>> \in Byte
         /\ Pos(<<k + 1, i>>) = k * Word + i
BY PassingAssumption DEF Bytes, Byte, Pos

------------------------------------------------------------------------------
(* The stream *)

\* What is written goes behind what is there.
LEMMA Concat ==
  ASSUME NEW S, NEW s \in Seq(S), NEW t \in Seq(S)
  PROVE  /\ s \o t \in Seq(S)
         /\ Len(s \o t) = Len(s) + Len(t)
         /\ \A j \in 1 .. Len(s) : (s \o t)[j] = s[j]
         /\ \A j \in 1 .. Len(t) : (s \o t)[Len(s) + j] = t[j]
OBVIOUS

\* What is read leaves the rest in order.
LEMMA Rest ==
  ASSUME NEW S, NEW s \in Seq(S), NEW n \in Nat, n <= Len(s)
  PROVE  /\ SubSeq(s, n + 1, Len(s)) \in Seq(S)
         /\ Len(SubSeq(s, n + 1, Len(s))) = Len(s) - n
         /\ \A j \in 1 .. Len(s) - n : SubSeq(s, n + 1, Len(s))[j] = s[n + j]
<1>1. Len(s) \in Nat
  OBVIOUS
<1>2. SubSeq(s, n + 1, Len(s)) \in Seq(S)
  BY <1>1
<1>3. Len(SubSeq(s, n + 1, Len(s))) = Len(s) - n
  BY <1>1
<1>4. \A j \in 1 .. Len(s) - n : SubSeq(s, n + 1, Len(s))[j] = s[n + j]
  BY <1>1
<1> QED BY <1>2, <1>3, <1>4

------------------------------------------------------------------------------
(* The steps *)

\* Types as the steps use them.
LEMMA Facts ==
  ASSUME TypeOK
  PROVE  /\ Word \in Nat \ {0} /\ Pointers \in Nat \ {0} /\ Room \in Nat \ {0}
         /\ w_msg \in Message /\ r_msg \in Message
         /\ w_msg.offset \in 0 .. Word /\ r_msg.offset \in 0 .. Word
         /\ Len(stream) \in Nat /\ Len(payloads) \in Nat
         /\ Received \in Nat
         /\ \A j \in 1 .. Len(stream) : stream[j] \in Byte
<1>1. /\ Word \in Nat \ {0} /\ Pointers \in Nat \ {0} /\ Room \in Nat \ {0}
      /\ w_msg \in Message /\ r_msg \in Message
      /\ Len(stream) \in Nat /\ Len(payloads) \in Nat
  BY PassingAssumption DEF TypeOK
<1>2. w_msg.offset \in 0 .. Word /\ r_msg.offset \in 0 .. Word
  BY <1>1 DEF Message
<1>3. Received \in Nat
  <2>1. Len(payloads) * Word \in Nat
    BY <1>1, OneMore
  <2> QED BY <1>1, <1>2, <2>1 DEF Received
<1>4. \A j \in 1 .. Len(stream) : stream[j] \in (1 .. Pointers) \X (1 .. Word)
  BY DEF TypeOK
<1>5. (1 .. Pointers) \X (1 .. Word) \subseteq Byte
  BY <1>1 DEF Byte
<1> QED BY <1>1, <1>2, <1>3, <1>4, <1>5

\* Nothing is sent yet.
LEMMA InitInv == Init => IndInv
<1> SUFFICES ASSUME Init PROVE IndInv
  OBVIOUS
<1>0. Word \in Nat \ {0} /\ Pointers \in Nat \ {0} /\ Room \in Nat \ {0}
  BY PassingAssumption
<1>1. /\ w_msg.buffer = Bytes(1) /\ w_msg.offset = 0 /\ r_msg.offset = 0
      /\ stream = << >> /\ payloads = << >> /\ Len(stream) = 0 /\ Len(payloads) = 0
  BY DEF Init, message_init
<1>2. w_msg \in Message /\ r_msg \in Message
  <2>1. Bytes(1) \in [1 .. Word -> ((1 .. Pointers) \X (1 .. Word)) \cup {Stale}]
    BY <1>0 DEF Bytes
  <2>2. [i \in 1 .. Word |-> Stale] \in [1 .. Word -> ((1 .. Pointers) \X (1 .. Word)) \cup {Stale}]
    OBVIOUS
  <2> HIDE DEF Stale
  <2> QED BY <1>0, <2>1, <2>2 DEF Init, message_init, Message
<1>3. TypeOK
  BY <1>0, <1>1, <1>2 DEF Init, TypeOK
<1>4. Received = 0
  BY <1>0, <1>1 DEF Received
<1>5. SenderAt(1) /\ 1 \in 1 .. Pointers
  BY <1>0, <1>1, <1>4 DEF SenderAt
<1>6. StreamInv /\ BufferInv
  BY <1>0, <1>1 DEF StreamInv, BufferInv
<1>7. StateInv
  BY <1>0, <1>1 DEF StateInv, Init
<1> QED BY <1>1, <1>3, <1>5, <1>6, <1>7 DEF IndInv

\* Calls, returns and the end of the sender move no byte.
LEMMA QuietStep ==
  ASSUME IndInv, UNCHANGED <<stream, w_mode, r_mode, w_msg, r_msg, payloads>>,
         open' \in BOOLEAN,
         w_state' \in {"CALL", "WRITE_BUSY", "WRITE_FINISH", "WRITE_ERROR"},
         r_state' \in {"CALL", "READ_BUSY", "READ_FINISH", "READ_ERROR"},
         w_state' = "WRITE_FINISH" <=> w_state = "WRITE_FINISH",
         r_state' = "READ_FINISH" <=> r_state = "READ_FINISH"
  PROVE  IndInv'
<1>1. TypeOK'
  BY DEF IndInv, TypeOK
<1>2. Received' = Received
  BY DEF Received
<1>3. \A p \in 1 .. Pointers : SenderAt(p) => SenderAt(p)'
  BY <1>2 DEF SenderAt
<1>4. StreamInv' /\ BufferInv' /\ StateInv'
  BY <1>2 DEF IndInv, StreamInv, BufferInv, StateInv
<1>5. \A k \in 1 .. Len(payloads)' : payloads'[k] = Bytes(k)
  BY DEF IndInv
<1> QED BY <1>1, <1>3, <1>4, <1>5 DEF IndInv

\* write takes some bytes of the message.
LEMMA WriteInv ==
  ASSUME IndInv, NEW n \in 1 .. Word, WriteSome(n)
  PROVE  IndInv'
<1>0. TypeOK /\ StreamInv /\ BufferInv /\ StateInv
  BY DEF IndInv
<1>1. /\ Word \in Nat \ {0} /\ Pointers \in Nat \ {0} /\ Room \in Nat \ {0}
      /\ w_msg \in Message /\ Len(stream) \in Nat /\ Received \in Nat
  BY <1>0, Facts
<1>2. PICK o \in 0 .. Word : o = w_msg.offset
  BY <1>0, Facts
<1>3. PICK p \in 1 .. Pointers : SenderAt(p)
  BY DEF IndInv
<1>4. PICK m \in Nat : m = Len(stream)
  BY <1>1
<1>5. /\ n \in 1 .. Word - o /\ m + n <= Room /\ o + n \in 1 .. Word
      /\ w_state' = IF o + n < Word THEN "CALL" ELSE "WRITE_FINISH"
      /\ w_msg' = [w_msg EXCEPT !.offset = o + n]
      /\ UNCHANGED <<open, w_mode, r_mode, r_msg, r_state, payloads>>
  BY <1>1, <1>2, <1>4 DEF WriteSome
<1>5a. n \in Nat /\ n >= 1 /\ o + n <= Word /\ Word \in Nat
  BY <1>1, <1>5
<1>6. w_msg' \in Message /\ w_msg'.offset = o + n /\ w_msg'.buffer = Bytes(p)
  <2>1. o + n \in 0 .. Word /\ w_msg.buffer = Bytes(p)
    BY <1>1, <1>3, <1>5 DEF SenderAt
  <2> QED BY <1>1, <1>5, <2>1 DEF Message
<1> DEFINE more == WriteFrom(w_msg, n)
<1>7. /\ more \in Seq((1 .. Pointers) \X (1 .. Word)) /\ Len(more) = n
      /\ \A j \in 1 .. n : more[j] = <<p, o + j>>
  <2>1. Bytes(p) \in Seq((1 .. Pointers) \X (1 .. Word)) /\ Len(Bytes(p)) = Word
    BY <1>1 DEF Bytes
  <2>2. more = SubSeq(Bytes(p), o + 1, o + n)
    BY <1>2, <1>3 DEF WriteFrom, SenderAt
  <2>3. ASSUME NEW j \in 1 .. n
        PROVE  o + j \in 1 .. Word /\ Bytes(p)[o + j] = <<p, o + j>>
    <3>1. o + j \in 1 .. Word
      BY <1>5a
    <3> QED BY <3>1 DEF Bytes
  <2>4. o + 1 \in 1 .. Word /\ o + n \in 1 .. Word /\ (o + n) - (o + 1) + 1 = n
    BY <1>5a
  <2> HIDE DEF more
  <2>5. Len(more) = n /\ \A j \in 1 .. n : more[j] = Bytes(p)[o + j]
    BY <1>1, <2>1, <2>2, <2>4
  <2>6. more \in Seq((1 .. Pointers) \X (1 .. Word))
    BY <1>1, <2>1, <2>2, <2>4
  <2> QED BY <2>3, <2>5, <2>6
<1> HIDE DEF more
<1>8. stream' = stream \o more
  BY DEF WriteSome, more
<1>9. /\ stream' \in Seq((1 .. Pointers) \X (1 .. Word)) /\ Len(stream') = m + n
      /\ \A j \in 1 .. m : stream'[j] = stream[j]
      /\ \A j \in 1 .. n : stream'[m + j] = more[j]
  <2>1. stream \in Seq((1 .. Pointers) \X (1 .. Word))
    BY <1>0 DEF TypeOK
  <2> DEFINE S == (1 .. Pointers) \X (1 .. Word)
  <2> HIDE DEF S
  <2>2. stream \in Seq(S) /\ more \in Seq(S)
    BY <1>7, <2>1 DEF S
  <2>3. /\ stream \o more \in Seq(S)
        /\ Len(stream \o more) = Len(stream) + Len(more)
        /\ \A j \in 1 .. Len(stream) : (stream \o more)[j] = stream[j]
        /\ \A j \in 1 .. Len(more) : (stream \o more)[Len(stream) + j] = more[j]
    BY <2>2, Concat
  <2> QED BY <1>4, <1>7, <1>8, <2>3 DEF S
<1>10. TypeOK'
  BY <1>0, <1>5, <1>6, <1>9 DEF TypeOK
<1>11. Received' = Received
  BY <1>5 DEF Received
<1>12. SenderAt(p)'
  <2>1. (p - 1) * Word \in Nat
    BY <1>1, OneMore
  <2>2. Received + m = (p - 1) * Word + o
    BY <1>2, <1>3, <1>4 DEF SenderAt
  <2> DEFINE x == (p - 1) * Word
  <2> HIDE DEF x
  <2>3. Received + (m + n) = x + (o + n)
    BY <1>1, <2>1, <2>2 DEF x
  <2>4. Received' + Len(stream') = (p - 1) * Word + w_msg'.offset
    BY <1>6, <1>9, <1>11, <2>3 DEF x
  <2> QED BY <1>6, <2>4 DEF SenderAt, Bytes
<1>13. StreamInv'
  <2> SUFFICES ASSUME NEW j \in 1 .. m + n
               PROVE  Pos(stream'[j]) = Received + j
    BY <1>9, <1>11 DEF StreamInv
  <2>1. CASE j <= m
    <3>1. j \in 1 .. Len(stream) /\ stream'[j] = stream[j]
      BY <1>4, <1>9, <2>1
    <3> QED BY <1>0, <3>1 DEF StreamInv
  <2>2. CASE j > m
    <3>0. PICK i \in 1 .. n : j = m + i
      <4>1. j - m \in 1 .. n /\ j = m + (j - m)
        BY <2>2
      <4> QED BY <4>1
    <3>1. stream'[j] = more[i]
      BY <1>9, <3>0
    <3>2. stream'[j] = <<p, o + i>> /\ o + i \in 1 .. Word
      <4>1. more[i] = <<p, o + i>>
        BY <1>7
      <4>2. o + i \in 1 .. Word
        BY <1>5a
      <4> QED BY <3>1, <4>1, <4>2
    <3>3. p - 1 \in Nat /\ (p - 1) + 1 = p
      BY <1>1
    <3>4. Pos(stream'[j]) = (p - 1) * Word + (o + i)
      BY <3>2, <3>3, BytesPos
    <3>5. Received + m = (p - 1) * Word + o /\ (p - 1) * Word \in Nat
      BY <1>2, <1>3, <1>4, <3>3, OneMore DEF SenderAt
    <3> DEFINE x == (p - 1) * Word
    <3> HIDE DEF x
    <3>6. x + (o + i) = Received + (m + i)
      BY <1>1, <3>5 DEF x
    <3> QED BY <3>0, <3>4, <3>6 DEF x
  <2> QED BY <2>1, <2>2
<1>14. BufferInv' /\ StateInv'
  <2>1. BufferInv'
    BY <1>0, <1>5 DEF BufferInv
  <2>2. w_state' = "WRITE_FINISH" <=> o + n = Word
    BY <1>1, <1>5
  <2> QED BY <1>0, <1>5, <1>6, <2>1, <2>2 DEF StateInv
<1>15. \A k \in 1 .. Len(payloads)' : payloads'[k] = Bytes(k)
  BY <1>5 DEF IndInv
<1> QED BY <1>10, <1>12, <1>13, <1>14, <1>15 DEF IndInv

\* message_init for the next pointer.
LEMMA NextMessageInv ==
  ASSUME IndInv, NextMessage
  PROVE  IndInv'
<1>0. TypeOK /\ StreamInv /\ BufferInv /\ StateInv
  BY DEF IndInv
<1>1. /\ Word \in Nat \ {0} /\ Pointers \in Nat \ {0}
      /\ w_msg \in Message /\ Len(stream) \in Nat /\ Received \in Nat
  BY <1>0, Facts
<1>2. PICK p \in 2 .. Pointers : w_msg.buffer = Bytes(p - 1) /\ w_msg' = message_init(p)
  BY DEF NextMessage
<1>3. PICK q \in 1 .. Pointers : SenderAt(q)
  BY DEF IndInv
<1>4. q = p - 1
  <2>1. Bytes(q)[1] = <<q, 1>> /\ Bytes(p - 1)[1] = <<p - 1, 1>>
    BY <1>1 DEF Bytes
  <2>2. Bytes(q) = Bytes(p - 1)
    BY <1>2, <1>3 DEF SenderAt
  <2> QED BY <2>1, <2>2
<1>5. w_msg.offset = Word /\ w_state' = "WRITE_BUSY"
      /\ UNCHANGED <<stream, open, w_mode, r_mode, r_msg, r_state, payloads>>
  BY <1>0 DEF NextMessage, StateInv
<1>6. w_msg' \in Message /\ w_msg'.offset = 0 /\ w_msg'.buffer = Bytes(p)
  <2>1. Bytes(p) \in [1 .. Word -> ((1 .. Pointers) \X (1 .. Word)) \cup {Stale}]
    BY <1>1 DEF Bytes
  <2> QED BY <1>1, <1>2, <2>1 DEF message_init, Message
<1>7. TypeOK'
  BY <1>0, <1>5, <1>6 DEF TypeOK
<1>8. Received' = Received
  BY <1>5 DEF Received
<1>9. SenderAt(p)' /\ p \in 1 .. Pointers
  <2>1. PICK k \in Nat : k = q - 1 /\ p - 1 = k + 1
    <3>1. q - 1 \in Nat /\ p - 1 = (q - 1) + 1
      BY <1>4
    <3> QED BY <3>1
  <2>2. Received + Len(stream) = k * Word + Word
    BY <1>3, <1>5, <2>1 DEF SenderAt
  <2>3. (p - 1) * Word = k * Word + Word /\ k * Word \in Nat
    BY <2>1, OneMore
  <2>4. Received' + Len(stream)' = (p - 1) * Word + w_msg'.offset
    <3>1. Len(stream)' = Len(stream)
      BY <1>5
    <3> DEFINE x == k * Word
               y == (p - 1) * Word
    <3>2. x \in Nat /\ y = x + Word /\ Received + Len(stream) = x + Word
      BY <2>2, <2>3
    <3> HIDE DEF x, y
    <3>3. Received' + Len(stream)' = y + w_msg'.offset
      BY <1>1, <1>6, <1>8, <3>1, <3>2
    <3> QED BY <3>3 DEF y
  <2> QED BY <1>6, <2>4 DEF SenderAt, Bytes
<1>10. StreamInv' /\ BufferInv'
  BY <1>0, <1>5, <1>8 DEF StreamInv, BufferInv
<1>11. StateInv'
  BY <1>0, <1>1, <1>5, <1>6 DEF StateInv
<1>12. \A k \in 1 .. Len(payloads)' : payloads'[k] = Bytes(k)
  BY <1>5 DEF IndInv
<1> QED BY <1>7, <1>9, <1>10, <1>11, <1>12 DEF IndInv

\* read stores some bytes in the message.
LEMMA ReadInv ==
  ASSUME IndInv, NEW n \in 1 .. Word, ReadSome(n)
  PROVE  IndInv'
<1>0. TypeOK /\ StreamInv /\ BufferInv /\ StateInv
  BY DEF IndInv
<1>1. /\ Word \in Nat \ {0} /\ Pointers \in Nat \ {0} /\ Room \in Nat \ {0}
      /\ r_msg \in Message /\ w_msg \in Message
      /\ \A j \in 1 .. Len(stream) : stream[j] \in Byte
  BY <1>0, Facts
<1>2. PICK o \in 0 .. Word : o = r_msg.offset
  BY <1>0, Facts
<1>3. PICK k \in Nat, x \in Nat : k = Len(payloads) /\ x = k * Word /\ Received = x + o
  BY <1>0, <1>2, Facts, OneMore DEF Received
<1>4. PICK m \in Nat : m = Len(stream)
  BY <1>0, Facts
<1>5. /\ n \in 1 .. Word - o /\ n <= m /\ o + n \in 1 .. Word
      /\ r_state' = IF o + n < Word THEN "CALL" ELSE "READ_FINISH"
      /\ r_msg' = [buffer |-> StoredAt(r_msg, n), offset |-> o + n]
      /\ stream' = SubSeq(stream, n + 1, m)
      /\ UNCHANGED <<open, w_mode, r_mode, w_msg, w_state, payloads>>
  BY <1>1, <1>2, <1>4 DEF ReadSome, num_to_read
<1> DEFINE S == (1 .. Pointers) \X (1 .. Word)
           B == StoredAt(r_msg, n)
<1>6. stream \in Seq(S) /\ m <= Room
  BY <1>0, <1>4 DEF TypeOK
<1>7. /\ stream' \in Seq(S) /\ Len(stream') = m - n
      /\ \A j \in 1 .. m - n : stream'[j] = stream[n + j]
  <2> HIDE DEF S
  <2>1. n \in Nat /\ n <= Len(stream)
    BY <1>1, <1>4, <1>5
  <2> QED BY <1>4, <1>5, <1>6, <2>1, Rest
<1>8. \A i \in 1 .. Word :
        /\ o < i /\ i <= o + n => B[i] = stream[i - o] /\ i - o \in 1 .. n
        /\ ~(o < i /\ i <= o + n) => B[i] = r_msg.buffer[i]
  BY <1>1, <1>2, <1>5 DEF StoredAt
<1>9. B \in [1 .. Word -> S \cup {Stale}]
  <2>1. r_msg.buffer \in [1 .. Word -> S \cup {Stale}]
    BY <1>1 DEF Message
  <2>2. \A j \in 1 .. m : stream[j] \in S
    <3> HIDE DEF S
    <3> QED BY <1>4, <1>6
  <2>3. DOMAIN B = 1 .. Word /\ B = [i \in 1 .. Word |-> B[i]]
    BY DEF StoredAt
  <2> HIDE DEF S, B
  <2>4. ASSUME NEW i \in 1 .. Word PROVE B[i] \in S \cup {Stale}
    <3>1. CASE o < i /\ i <= o + n
      <4>1. i - o \in 1 .. m
        BY <1>1, <1>5, <3>1
      <4> QED BY <1>8, <2>2, <3>1, <4>1
    <3>2. CASE ~(o < i /\ i <= o + n)
      BY <1>8, <2>1, <3>2
    <3> QED BY <3>1, <3>2
  <2> QED BY <2>3, <2>4
<1> HIDE DEF B
<1>10. r_msg' \in Message /\ r_msg'.offset = o + n /\ r_msg'.buffer = B
  <2>1. o + n \in 0 .. Word /\ r_msg' = [buffer |-> B, offset |-> o + n]
    BY <1>1, <1>5 DEF B
  <2> QED BY <1>9, <2>1 DEF Message
<1>11. TypeOK'
  <2>1. Len(stream') <= Room
    BY <1>1, <1>6, <1>7
  <2> QED BY <1>0, <1>1, <1>5, <1>7, <1>10, <2>1 DEF TypeOK
<1>12. Received' = x + (o + n) /\ Len(payloads') = k
  BY <1>3, <1>5, <1>10 DEF Received
<1>13. \A p \in 1 .. Pointers : SenderAt(p) => SenderAt(p)'
  <2> SUFFICES ASSUME NEW p \in 1 .. Pointers, SenderAt(p) PROVE SenderAt(p)'
    OBVIOUS
  <2>1. (x + o) + m = (p - 1) * Word + w_msg.offset
    BY <1>3, <1>4 DEF SenderAt
  <2>2. (x + (o + n)) + (m - n) = (x + o) + m
    OBVIOUS
  <2>3. Received' + Len(stream') = (p - 1) * Word + w_msg'.offset
    BY <1>5, <1>7, <1>12, <2>1, <2>2
  <2> QED BY <1>5, <2>3 DEF SenderAt, Bytes
<1>14. StreamInv'
  <2> SUFFICES ASSUME NEW j \in 1 .. m - n
               PROVE  Pos(stream'[j]) = (x + (o + n)) + j
    BY <1>7, <1>12 DEF StreamInv
  <2>1. n + j \in 1 .. m /\ stream'[j] = stream[n + j]
    BY <1>5, <1>7
  <2>2. Pos(stream[n + j]) = (x + o) + (n + j)
    BY <1>0, <1>3, <1>4, <2>1 DEF StreamInv
  <2> QED BY <2>1, <2>2
<1>15. BufferInv'
  <2> SUFFICES ASSUME NEW i \in 1 .. Word, i <= o + n
               PROVE  B[i] = <<k + 1, i>>
    BY <1>10, <1>12 DEF BufferInv
  <2>1. CASE o < i
    <3>1. PICK j \in 1 .. m : j = i - o /\ B[i] = stream[j]
      <4>1. i - o \in 1 .. m /\ B[i] = stream[i - o]
        BY <1>1, <1>5, <1>8, <2>1
      <4> QED BY <4>1
    <3>2. Pos(stream[j]) = (x + o) + j /\ stream[j] \in Byte
      BY <1>0, <1>1, <1>3, <1>4 DEF StreamInv
    <3>3. Pos(<<k + 1, i>>) = x + i /\ <<k + 1, i>> \in Byte
      BY <1>3, BytesPos
    <3>4. x + i = (x + o) + j
      BY <3>1
    <3> QED BY <3>1, <3>2, <3>3, <3>4, PosInjective
  <2>2. CASE ~(o < i)
    <3>1. B[i] = r_msg.buffer[i]
      BY <1>8, <2>2, Zenon
    <3>2. i <= r_msg.offset
      BY <1>2, <2>2
    <3>3. r_msg.buffer[i] = <<Len(payloads) + 1, i>>
      BY <1>0, <3>2, Zenon DEF BufferInv
    <3> QED BY <1>3, <3>1, <3>3, Zenon
  <2> QED BY <2>1, <2>2
<1>16. StateInv'
  <2>1. r_state' = "READ_FINISH" <=> o + n = Word
    BY <1>1, <1>5
  <2> QED BY <1>0, <1>5, <1>10, <2>1 DEF StateInv
<1>17. \A i \in 1 .. Len(payloads)' : payloads'[i] = Bytes(i)
  BY <1>5 DEF IndInv
<1> QED BY <1>11, <1>13, <1>14, <1>15, <1>16, <1>17 DEF IndInv

\* message_get_payload and message_reset.
LEMMA PayloadInv ==
  ASSUME IndInv, GetPayload
  PROVE  IndInv'
<1>0. TypeOK /\ StreamInv /\ BufferInv /\ StateInv
  BY DEF IndInv
<1>1. /\ Word \in Nat \ {0} /\ Pointers \in Nat \ {0} /\ Room \in Nat \ {0}
      /\ r_msg \in Message /\ w_msg \in Message /\ Len(stream) \in Nat
  BY <1>0, Facts
<1>2. PICK k \in Nat, x \in Nat : k = Len(payloads) /\ x = k * Word /\ Received = x + Word
  <2>1. PICK k \in Nat : k = Len(payloads)
    BY <1>0, Facts
  <2>2. PICK x \in Nat : x = k * Word
    BY OneMore
  <2>3. r_msg.offset = Word
    BY <1>0 DEF StateInv, GetPayload
  <2>4. Received = x + Word
    BY <2>1, <2>2, <2>3 DEF Received
  <2> QED BY <2>1, <2>2, <2>4
<1>3. /\ payloads' = Append(payloads, r_msg.buffer) /\ r_msg' = [r_msg EXCEPT !.offset = 0]
      /\ r_state' = "READ_BUSY" /\ UNCHANGED <<stream, open, w_mode, r_mode, w_msg, w_state>>
  BY DEF GetPayload, message_reset
<1>4. r_msg' \in Message /\ r_msg'.offset = 0
  <2> DEFINE F == [1 .. Word -> ((1 .. Pointers) \X (1 .. Word)) \cup {Stale}]
             O == 0 .. Word
  <2>1. Message = [buffer : F, offset : O] /\ 0 \in O
    BY <1>1 DEF Message
  <2> HIDE DEF F, O
  <2>2. [r_msg EXCEPT !.offset = 0] \in [buffer : F, offset : O]
        /\ [r_msg EXCEPT !.offset = 0].offset = 0
    BY <1>1, <2>1
  <2> QED BY Zenon, <1>3, <2>1, <2>2
<1>5. r_msg.buffer = Bytes(k + 1)
  <2>1. r_msg.offset = Word
    BY <1>0 DEF GetPayload, StateInv
  <2>2. \A i \in 1 .. Word : r_msg.buffer[i] = <<k + 1, i>>
    BY <1>0, <1>1, <1>2, <2>1 DEF BufferInv
  <2>3. r_msg.buffer = [i \in 1 .. Word |-> r_msg.buffer[i]]
    BY <1>1 DEF Message
  <2> QED BY <2>2, <2>3 DEF Bytes
<1>6. k + 1 <= Pointers
  <2>1. PICK p \in 1 .. Pointers : SenderAt(p)
    BY DEF IndInv
  <2>2. PICK j \in Nat, y \in Nat : j + 1 = p /\ y = (p - 1) * Word /\ p * Word = y + Word
    <3>1. p - 1 \in Nat /\ (p - 1) + 1 = p
      OBVIOUS
    <3> QED BY <3>1, OneMore
  <2>3. (x + Word) + Len(stream) = y + w_msg.offset
    BY <1>2, <2>1, <2>2 DEF SenderAt
  <2>4. w_msg.offset \in 0 .. Word
    BY <1>0, Facts
  <2>5. x + Word <= y + Word
    BY <1>1, <2>3, <2>4
  <2>6. (k + 1) * Word = x + Word
    BY <1>2, OneMore
  <2>7. (k + 1) * Word <= p * Word
    BY <2>2, <2>5, <2>6
  <2>8. k + 1 <= p
    BY <2>7, MulOrder
  <2> QED BY <1>1, <2>8
<1>7. /\ payloads' \in Seq([1 .. Word -> (1 .. Pointers) \X (1 .. Word)])
      /\ Len(payloads') = k + 1 /\ payloads'[k + 1] = Bytes(k + 1)
      /\ \A i \in 1 .. k : payloads'[i] = payloads[i]
  <2> DEFINE S == [1 .. Word -> (1 .. Pointers) \X (1 .. Word)]
  <2>1. Bytes(k + 1) \in S
    BY <1>1, <1>6 DEF Bytes
  <2>2. payloads \in Seq(S)
    BY <1>0 DEF TypeOK
  <2> HIDE DEF S
  <2>3. /\ payloads' \in Seq(S)
        /\ Len(payloads') = k + 1 /\ payloads'[k + 1] = Bytes(k + 1)
        /\ \A i \in 1 .. k : payloads'[i] = payloads[i]
    BY <1>2, <1>3, <1>5, <2>1, <2>2
  <2> QED BY <2>3 DEF S
<1>8. TypeOK'
  BY <1>0, <1>1, <1>3, <1>4, <1>7 DEF TypeOK
<1>9. Received' = Received
  <2>1. Received' = (k + 1) * Word + 0
    BY <1>4, <1>7 DEF Received
  <2> QED BY <1>2, <2>1, OneMore
<1>10. \A p \in 1 .. Pointers : SenderAt(p) => SenderAt(p)'
  BY <1>3, <1>9 DEF SenderAt, Bytes
<1>11. StreamInv' /\ BufferInv'
  BY <1>0, <1>1, <1>3, <1>4, <1>9 DEF StreamInv, BufferInv, Pos
<1>12. StateInv'
  BY <1>0, <1>1, <1>3, <1>4 DEF StateInv
<1>13. \A i \in 1 .. Len(payloads)' : payloads'[i] = Bytes(i)
  <2>1. \A i \in 1 .. k : payloads[i] = Bytes(i)
    BY <1>2 DEF IndInv
  <2>2. \A i \in 1 .. k + 1 : i \in 1 .. k \/ i = k + 1
    OBVIOUS
  <2> QED BY <1>7, <2>1, <2>2
<1> QED BY <1>8, <1>10, <1>11, <1>12, <1>13 DEF IndInv, Bytes

\* Every step of the sender or the receiver keeps the invariant.
LEMMA NextInv == IndInv /\ [Next]_vars => IndInv'
<1> SUFFICES ASSUME IndInv, [Next]_vars PROVE IndInv'
  OBVIOUS
<1>0. TypeOK
  BY DEF IndInv
<1>1. CASE WriteCall
  BY <1>0, <1>1, QuietStep DEF WriteCall, TypeOK
<1>2. CASE WriteBlocks
  BY <1>0, <1>2, QuietStep DEF WriteBlocks, TypeOK
<1>3. CASE WriteFails
  BY <1>0, <1>3, QuietStep DEF WriteFails, TypeOK
<1>4. CASE Close
  BY <1>0, <1>4, QuietStep DEF Close, TypeOK
<1>5. CASE ReadCall
  BY <1>0, <1>5, QuietStep DEF ReadCall, TypeOK
<1>6. CASE ReadNothing
  BY <1>0, <1>6, QuietStep DEF ReadNothing, TypeOK
<1>7. CASE ReadFails
  BY <1>0, <1>7, QuietStep DEF ReadFails, TypeOK
<1>8. CASE UNCHANGED vars
  BY <1>0, <1>8, QuietStep DEF vars, TypeOK
<1> QED BY <1>1, <1>2, <1>3, <1>4, <1>5, <1>6, <1>7, <1>8, WriteInv, NextMessageInv,
           ReadInv, PayloadInv DEF Next, Writer, Reader

\* The inductive invariant holds in every state.
THEOREM Invariance == Spec => []IndInv
BY InitInv, NextInv, PTL DEF Spec

\* PayloadsIntact: message_get_payload returns the pointers that were sent,
\* whole and in order, however write and read cut the stream.
THEOREM PayloadsAlwaysIntact == Spec => []PayloadsIntact
<1>1. ASSUME IndInv PROVE PayloadsIntact
  <2>0. TypeOK
    BY <1>1 DEF IndInv
  <2>1. PICK k \in Nat, x \in Nat : k = Len(payloads) /\ x = k * Word
    BY <2>0, Facts, OneMore
  <2>2. PICK p \in 1 .. Pointers : SenderAt(p)
    BY <1>1 DEF IndInv
  <2>3. PICK y \in Nat : y = (p - 1) * Word /\ p * Word = y + Word
    <3>1. p - 1 \in Nat /\ (p - 1) + 1 = p
      OBVIOUS
    <3> QED BY <3>1, OneMore
  <2>4. /\ r_msg.offset \in Nat /\ w_msg.offset \in 0 .. Word /\ Len(stream) \in Nat
        /\ Word \in Nat /\ Pointers \in Nat
    BY <2>0, Facts
  <2>5. (x + r_msg.offset) + Len(stream) = y + w_msg.offset
    BY <2>1, <2>2, <2>3 DEF SenderAt, Received
  <2>6. x <= y + Word
    BY <2>4, <2>5
  <2>7. k <= p
    BY <2>1, <2>3, <2>6, MulOrder
  <2>8. Len(payloads) <= Pointers
    BY <2>1, <2>4, <2>7
  <2>9. \A j \in DOMAIN payloads : payloads[j] = Bytes(j)
    <3>1. DOMAIN payloads = 1 .. Len(payloads)
      BY <2>0 DEF TypeOK
    <3> QED BY <1>1, <3>1 DEF IndInv
  <2> QED BY <2>0, <2>8, <2>9 DEF PayloadsIntact
<1> QED BY <1>1, Invariance, PTL

==============================================================================
