------------------------- MODULE ChunkedDecoderProofs -------------------------
(***************************************************************************)
(* Proofs about ChunkedDecoder: for every message and every way to cut it  *)
(* into segments, decoding it in place comes to what ChunkedCoding reads   *)
(* in it byte by byte.                                                     *)
(*                                                                         *)
(* The argument: Place counts the bytes that have been consumed.  There    *)
(* the decoder's state is that of the reader (or it has already turned to  *)
(* the extension of a size that the reader is still in), what is ahead in  *)
(* the buffer is still as it was supplied, and what is behind dst is the   *)
(* body.                                                                   *)
(***************************************************************************)
EXTENDS ChunkedDecoder, FiniteSetTheorems, WellFoundedInduction, TLAPS

\* The bytes supplied to earlier calls, and all that have been consumed.
Taken == Len(msg.bytes) - Len(rest) - Len(buf)
Place == Taken + src

\* Where the reader is after as many bytes.
Run == Reading[msg]
Here == Run[Place]

SameState == {<<"size", "SIZE">>, <<"ext", "EXT">>, <<"data", "DATA">>, <<"crlf", "CRLF">>,
              <<"head", "TRAILERS_HEAD">>, <<"line", "TRAILERS_MIDDLE">>}

Agree(d, r) == d.left = r.size /\ d.hex = r.digits /\ <<r.at, d.state>> \in SameState

\* The decoder has seen that the size ends here.
Turned(d, r) ==
  /\ d.state = "EXT" /\ d.hex = 0 /\ d.left = r.size
  /\ r.at = "size" /\ r.digits # 0
  /\ pc = "call" /\ src < Len(buf) /\ Current \notin Hex

SizeRight(d) ==
  /\ d.state = "SIZE" => d.left < 2 ^ (4 * d.hex)
  /\ d.state # "SIZE" => d.hex = 0
  /\ d.state = "DATA" => d.left > 0
  /\ d.state \in {"CRLF", "TRAILERS_HEAD", "TRAILERS_MIDDLE"} => d.left = 0

StreamInv ==
  /\ msg \in Messages
  /\ Taken \in Nat
  /\ \A i \in 1 .. Len(rest) : rest[i] = msg.bytes[Taken + Len(buf) + i]
  /\ pc = "call" => \A i \in src + 1 .. Len(buf) : buf[i] = msg.bytes[Taken + i]

BodyInv ==
  /\ Len(got) + dst = Here.body
  /\ Here.body <= Len(msg.body)
  /\ \A i \in 1 .. Len(got) : got[i] = msg.body[i]
  /\ \A i \in 1 .. dst : buf[i] = msg.body[Len(got) + i]

ResultInv ==
  /\ ret >= -2
  /\ pc = "call" => ret = -2
  /\ ret = -2 => Agree(decoder, Here) \/ Turned(decoder, Here)
  /\ ret = -2 /\ pc = "caller" => src = Len(buf)
  /\ ret = -1 => Place < Len(msg.bytes) /\ Run[Place + 1].at = "bad"
  /\ ret >= 0 => /\ Place > 0 /\ Here.at = "done" /\ Run[Place - 1].at # "done"
                 /\ ret = Len(buf) - src
                 /\ \A i \in 1 .. ret : buf[dst + i] = msg.bytes[Place + i]

\* The inductive invariant.
IndInv == TypeOK /\ SizeRight(decoder) /\ StreamInv /\ BodyInv /\ ResultInv

------------------------------------------------------------------------------
(* Numbers *)

\* A set of numbers that is not empty has a least element.
LEMMA Least ==
  ASSUME NEW T \in SUBSET Nat, T # {}
  PROVE  \E l \in T : \A m \in T : l <= m
<1>1. PICK l \in T : \A m \in T : ~(<<m, l>> \in OpToRel(<, Nat))
  BY WFMin, NatLessThanWellFounded, Zenon
<1>2. \A m \in T : ~(m < l)
  BY <1>1 DEF OpToRel
<1> QED BY <1>2

\* A power of two counts the sets of so many numbers.
LEMMA PowerCounts ==
  ASSUME NEW n \in Nat
  PROVE  /\ IsFiniteSet(SUBSET (1 .. n))
         /\ Cardinality(SUBSET (1 .. n)) = 2 ^ n
         /\ 2 ^ n \in Nat
<1> DEFINE S == 1 .. n
<1>1. IsFiniteSet(S) /\ Cardinality(S) = n
  BY 1 \in Int, n \in Int, FS_Interval
<1> HIDE DEF S
<1>2. IsFiniteSet(SUBSET S) /\ Cardinality(SUBSET S) = 2 ^ n
  BY <1>1, FS_SUBSET
<1>3. Cardinality(SUBSET S) \in Nat
  BY <1>2, FS_CardinalityType
<1> QED BY <1>2, <1>3 DEF S

\* One number more makes for twice as many sets: those without it and with it.
LEMMA Doubling ==
  ASSUME NEW n \in Nat
  PROVE  2 ^ (n + 1) = 2 * 2 ^ n
<1> DEFINE A == SUBSET (1 .. n)
           B == {X \cup {n + 1} : X \in A}
           f == [X \in A |-> X \cup {n + 1}]
<1>1. \A i \in 1 .. n : i \in 1 .. n + 1 /\ i # n + 1
  OBVIOUS
<1>2. \A i \in 1 .. n + 1 : i \in 1 .. n \/ i = n + 1
  OBVIOUS
<1>3. n + 1 \in 1 .. n + 1
  OBVIOUS
<1>4. SUBSET (1 .. n + 1) = A \cup B
  <2>1. ASSUME NEW X \in SUBSET (1 .. n + 1), n + 1 \in X
        PROVE  X \in B
    <3>1. X \ {n + 1} \in A /\ X = (X \ {n + 1}) \cup {n + 1}
      BY Zenon, <1>2, <2>1
    <3> QED BY Zenon, <3>1
  <2>2. ASSUME NEW X \in SUBSET (1 .. n + 1), n + 1 \notin X
        PROVE  X \in A
    BY Zenon, <1>2, <2>2
  <2>3. ASSUME NEW X \in A \cup B
        PROVE  X \in SUBSET (1 .. n + 1)
    BY Zenon, <1>1, <1>3
  <2> QED BY Zenon, <2>1, <2>2, <2>3
<1>5. A \cap B = {}
  BY Zenon, <1>1
<1>6. f \in Bijection(A, B)
  <2>1. f \in [A -> B]
    BY Zenon
  <2>2. ASSUME NEW X \in A, NEW Y \in A, f[X] = f[Y]
        PROVE  X = Y
    <3>1. n + 1 \notin X /\ n + 1 \notin Y
      BY Zenon, <1>1
    <3>2. X \cup {n + 1} = Y \cup {n + 1}
      BY Zenon, <2>2
    <3>3. \A x : x \in X <=> x \in Y
      BY Zenon, <3>1, <3>2
    <3> QED BY Zenon, <3>3
  <2>3. \A Y \in B : \E X \in A : f[X] = Y
    BY Zenon
  <2> HIDE DEF A, B, f
  <2>4. DOMAIN f = A
    BY <2>1
  <2> QED BY <2>1, <2>2, <2>3, <2>4 DEF Bijection, Injection, Surjection, IsInjective
<1>7. /\ IsFiniteSet(A) /\ Cardinality(A) = 2 ^ n /\ 2 ^ n \in Nat
      /\ Cardinality(SUBSET (1 .. n + 1)) = 2 ^ (n + 1)
  <2>1. n + 1 \in Nat
    OBVIOUS
  <2> QED BY Zenon, <2>1, PowerCounts
<1> HIDE DEF A, B, f
<1>8. IsFiniteSet(B) /\ Cardinality(B) = Cardinality(A)
  BY Zenon, <1>6, <1>7, FS_Bijection DEF ExistsBijection
<1>9. Cardinality(A \cup B) = Cardinality(A) + Cardinality(B) - Cardinality(A \cap B)
  BY Zenon, <1>7, <1>8, FS_Union
<1>10. Cardinality(A \cap B) = 0
  BY Zenon, <1>5, FS_EmptySet
<1>11. PICK b \in Nat : b = 2 ^ n
  BY <1>7
<1>12. 2 ^ (n + 1) = b + b - 0
  BY Zenon, <1>4, <1>7, <1>8, <1>9, <1>10, <1>11
<1> QED BY <1>11, <1>12

\* One more digit makes for sixteen times as many sizes.
LEMMA DigitPower ==
  ASSUME NEW h \in Nat
  PROVE  2 ^ (4 * (h + 1)) = 16 * 2 ^ (4 * h)
<1> DEFINE n == 4 * h
<1>1. /\ n \in Nat /\ n + 1 \in Nat /\ n + 2 \in Nat /\ n + 3 \in Nat
      /\ (n + 1) + 1 = n + 2 /\ (n + 2) + 1 = n + 3 /\ (n + 3) + 1 = 4 * (h + 1)
  OBVIOUS
<1> HIDE DEF n
<1>2. /\ 2 ^ (n + 1) = 2 * 2 ^ n /\ 2 ^ (n + 2) = 2 * 2 ^ (n + 1)
      /\ 2 ^ (n + 3) = 2 * 2 ^ (n + 2) /\ 2 ^ (4 * (h + 1)) = 2 * 2 ^ (n + 3)
  BY <1>1, Doubling
<1>3. PICK b \in Nat : b = 2 ^ n
  BY <1>1, PowerCounts
<1> QED BY <1>2, <1>3 DEF n

\* More digits never make for fewer sizes.
LEMMA PowerGrows ==
  ASSUME NEW n \in Nat, NEW k \in 0 .. n
  PROVE  2 ^ (4 * k) <= 2 ^ (4 * n)
<1> DEFINE A == SUBSET (1 .. 4 * k)
           B == SUBSET (1 .. 4 * n)
<1>1. A \in SUBSET B
  <2>1. \A i \in 1 .. 4 * k : i \in 1 .. 4 * n
    OBVIOUS
  <2> QED BY Zenon, <2>1
<1>2. IsFiniteSet(B) /\ Cardinality(A) = 2 ^ (4 * k) /\ Cardinality(B) = 2 ^ (4 * n)
  BY 4 * k \in Nat, 4 * n \in Nat, PowerCounts
<1> HIDE DEF A, B
<1>3. Cardinality(A) <= Cardinality(B)
  BY <1>1, <1>2, FS_Subset
<1> QED BY <1>2, <1>3

------------------------------------------------------------------------------
(* Reading a message byte by byte *)

\* What the assumption says of a message.
LEMMA MessageFacts ==
  ASSUME NEW m \in Messages
  PROVE  /\ m.bytes \in Seq(Chars) /\ m.body \in Seq(Chars) /\ m.tail \in Seq(Chars)
         /\ m.ok \in BOOLEAN
         /\ \A k \in 0 .. Len(m.bytes) : Reading[m][k] \in Position
         /\ Reading[m][0] = Start
         /\ \A k \in 1 .. Len(m.bytes) :
              Reading[m][k] = After(Reading[m][k - 1], m.bytes[k], m.consume)
         /\ IsMeaning(m, Reading[m])
BY MessagesAssumption DEF IsReading

\* One byte on.
LEMMA ReadOne ==
  ASSUME NEW m \in Messages, NEW k \in 0 .. Len(m.bytes) - 1
  PROVE  /\ Reading[m][k] \in Position /\ Reading[m][k + 1] \in Position
         /\ Reading[m][k + 1] = After(Reading[m][k], m.bytes[k + 1], m.consume)
<1>1. Len(m.bytes) \in Nat
  BY MessageFacts
<1>2. /\ k \in 0 .. Len(m.bytes) /\ k + 1 \in 0 .. Len(m.bytes)
      /\ k + 1 \in 1 .. Len(m.bytes) /\ (k + 1) - 1 = k
  BY <1>1
<1> QED BY Zenon, <1>2, MessageFacts

\* What a reader does with a character that is not data.
LEMMA AfterKeeps ==
  ASSUME NEW r \in Position, NEW c, NEW consume, r.at # "data"
  PROVE  After(r, c, consume).body = r.body
BY CharsAssumption DEF After, Position

\* s is the position one byte of a chunk behind r.
DataRead(r, s) ==
  /\ s.size = r.size - 1 /\ s.body = r.body + 1 /\ s.digits = r.digits
  /\ r.size = 1 => s.at = "crlf"
  /\ r.size # 1 => s.at = "data"

\* A byte of a chunk.
LEMMA AfterData ==
  ASSUME NEW r \in Position, NEW c, NEW consume, r.at = "data"
  PROVE  DataRead(r, After(r, c, consume))
BY DEF After, Position, DataRead

\* The end of the coding and an error are for good.
LEMMA EndStays ==
  ASSUME NEW m \in Messages, NEW k \in 0 .. Len(m.bytes),
         Reading[m][k].at \in {"done", "bad"}
  PROVE  Reading[m][Len(m.bytes)].at = Reading[m][k].at
<1> DEFINE n == Len(m.bytes)
           f == Reading[m]
           T == {j \in k .. n : f[j].at # f[k].at}
<1>1. n \in Nat
  BY MessageFacts
<1> SUFFICES ASSUME T # {} PROVE FALSE
  BY <1>1
<1>0. T \in SUBSET Nat
  BY <1>1
<1>2. PICK l \in T : \A j \in T : l <= j
  BY Zenon, <1>0, Least
<1>3. l \in k .. n /\ l # k /\ f[l].at # f[k].at
  BY <1>2
<1>4. /\ l - 1 \in 0 .. n - 1 /\ l - 1 \in k .. n /\ (l - 1) + 1 = l
      /\ ~(l <= l - 1)
  BY <1>1, <1>3
<1>5. f[l - 1].at = f[k].at
  BY Zenon, <1>2, <1>4
<1>6. f[l - 1] \in Position /\ f[l] = After(f[l - 1], m.bytes[l], m.consume)
  <2> DEFINE i == l - 1
  <2>1. i \in 0 .. Len(m.bytes) - 1 /\ i + 1 = l
    BY <1>4
  <2> HIDE DEF i
  <2>2. f[i] \in Position /\ f[l] = After(f[i], m.bytes[l], m.consume)
    BY Zenon, <2>1, ReadOne
  <2> QED BY Zenon, <2>2 DEF i
<1> HIDE DEF f, T, n
<1>7. f[l] = f[l - 1]
  BY <1>5, <1>6 DEF After, Position, f
<1> QED BY Zenon, <1>3, <1>5, <1>7

\* s is the position i bytes behind r inside of a chunk.
DataAhead(r, s, i) ==
  /\ s.size = r.size - i /\ s.body = r.body + i /\ s.digits = r.digits
  /\ i = r.size => s.at = "crlf"
  /\ i # r.size => s.at = "data"

\* Reading on inside of a chunk.
LEMMA ReadData ==
  ASSUME NEW m \in Messages, NEW p \in 0 .. Len(m.bytes), Reading[m][p].at = "data",
         Reading[m][p].size > 0, NEW i \in 0 .. Reading[m][p].size, p + i <= Len(m.bytes)
  PROVE  DataAhead(Reading[m][p], Reading[m][p + i], i)
<1> DEFINE f == Reading[m]
           r == f[p]
           Good(j) == DataAhead(r, f[p + j], j)
           T == {j \in 0 .. i : ~Good(j)}
<1>1. Len(m.bytes) \in Nat /\ r \in Position /\ r.size \in Nat /\ r.body \in Nat
  BY MessageFacts DEF Position
<1> SUFFICES Good(i)
  OBVIOUS
<1> HIDE DEF Good, DataAhead
<1> SUFFICES ASSUME T # {} PROVE FALSE
  <2>1. i \in 0 .. i
    BY <1>1
  <2> QED BY Zenon, <2>1
<1>0. T \in SUBSET Nat
  BY <1>1
<1>2. PICK l \in T : \A j \in T : l <= j
  BY Zenon, <1>0, Least
<1>3. l \in 0 .. i /\ ~Good(l)
  BY <1>2
<1>4. l # 0
  BY <1>1, <1>3 DEF Good, DataAhead
<1>5. PICK j \in Nat : l = j + 1
  BY <1>1, <1>3, <1>4
<1>6. /\ j \in 0 .. i /\ j < l /\ j < r.size /\ p + j \in 0 .. Len(m.bytes) - 1
      /\ (p + j) + 1 = p + l
  <2> DEFINE z == r.size
             b == Len(m.bytes)
  <2>1. z \in Nat /\ b \in Nat /\ i \in 0 .. z /\ p \in 0 .. b /\ p + i <= b
        /\ l \in 0 .. i
    BY Zenon, <1>1, <1>3
  <2> HIDE DEF z, b
  <2>2. /\ j \in 0 .. i /\ j < l /\ j < z /\ p + j \in 0 .. b - 1
        /\ (p + j) + 1 = p + l
    BY <1>5, <2>1
  <2> QED BY Zenon, <2>2 DEF z, b
<1>7. Good(j)
  BY <1>2, <1>6
<1>8. /\ f[p + j] \in Position /\ f[p + l] = After(f[p + j], m.bytes[p + l], m.consume)
  BY Zenon, <1>6, ReadOne
<1>9. f[p + j].at = "data" /\ f[p + j].size = r.size - j /\ f[p + j].body = r.body + j
      /\ f[p + j].digits = r.digits
  BY <1>1, <1>6, <1>7 DEF Good, DataAhead
<1> HIDE DEF f, r
<1>10. /\ f[p + l].size = (r.size - j) - 1 /\ f[p + l].body = (r.body + j) + 1
       /\ f[p + l].digits = r.digits
       /\ r.size - j = 1 => f[p + l].at = "crlf"
       /\ r.size - j # 1 => f[p + l].at = "data"
  <2> DEFINE q == f[p + j]
             t == After(q, m.bytes[p + l], m.consume)
  <2>1. q \in Position /\ q.at = "data"
    BY <1>8, <1>9
  <2> HIDE DEF q
  <2>2. DataRead(q, t)
    BY Zenon, <2>1, AfterData
  <2> QED BY Zenon, <1>8, <1>9, <2>2 DEF q, DataRead
<1>11. Good(l)
  <2>1. \A z, b \in Nat : /\ (z - j) - 1 = z - (j + 1) /\ (b + j) + 1 = b + (j + 1)
                          /\ z - j = 1 <=> j + 1 = z
    OBVIOUS
  <2>2. /\ (r.size - j) - 1 = r.size - l /\ (r.body + j) + 1 = r.body + l
        /\ r.size - j = 1 <=> l = r.size
    BY Zenon, <1>1, <1>5, <2>1
  <2> QED BY Zenon, <1>10, <2>2 DEF Good, DataAhead
<1> QED BY Zenon, <1>3, <1>11

------------------------------------------------------------------------------
(* Where the decoder is in the message *)

LEMMA StateFacts ==
  ASSUME IndInv
  PROVE  /\ msg \in Messages
         /\ Len(rest) \in Nat /\ Len(buf) \in Nat /\ Len(got) \in Nat
         /\ Len(msg.bytes) \in Nat /\ Len(msg.body) \in Nat
         /\ src \in Nat /\ dst \in Nat /\ dst <= src /\ src <= Len(buf)
         /\ Taken \in Nat /\ Place \in Nat /\ Place = Taken + src
         /\ Taken + Len(buf) + Len(rest) = Len(msg.bytes)
         /\ Place <= Len(msg.bytes)
         /\ Here \in Position
<1>1. msg \in Messages /\ Taken \in Nat
  BY DEF IndInv, StreamInv
<1>2. /\ Len(rest) \in Nat /\ Len(buf) \in Nat /\ Len(got) \in Nat
      /\ src \in Nat /\ dst \in Nat /\ dst <= src /\ src <= Len(buf)
  <2>1. rest \in Seq(Chars) /\ buf \in Seq(Chars) /\ got \in Seq(Chars)
    BY DEF IndInv, TypeOK
  <2>2. src \in 0 .. Len(buf) /\ dst \in 0 .. src
    BY DEF IndInv, TypeOK
  <2> QED BY <2>1, <2>2
<1>3. Len(msg.bytes) \in Nat /\ Len(msg.body) \in Nat
  BY <1>1, MessageFacts
<1>4. /\ Place \in Nat /\ Place = Taken + src /\ Place <= Len(msg.bytes)
      /\ Taken + Len(buf) + Len(rest) = Len(msg.bytes)
  BY <1>1, <1>2, <1>3 DEF Place, Taken
<1>5. Place \in 0 .. Len(msg.bytes)
  BY <1>3, <1>4
<1>6. Here \in Position
  BY Zenon, <1>1, <1>5, MessageFacts DEF Here, Run
<1> QED BY Zenon, <1>1, <1>2, <1>3, <1>4, <1>6

\* The byte at src is the next one that the reader reads.
LEMMA NextByte ==
  ASSUME IndInv, pc = "call", ~AtEnd
  PROVE  /\ src < Len(buf) /\ Place + 1 \in 0 .. Len(msg.bytes)
         /\ Current \in Chars
         /\ Run[Place + 1] \in Position
         /\ Run[Place + 1] = After(Here, Current, msg.consume)
<1>1. src < Len(buf) /\ Place \in 0 .. Len(msg.bytes) - 1 /\ Place + 1 \in 0 .. Len(msg.bytes)
  <2> DEFINE n == Len(msg.bytes)
             l == Len(buf)
             e == Len(rest)
  <2>1. /\ n \in Nat /\ l \in Nat /\ e \in Nat /\ src \in Nat /\ Taken \in Nat
        /\ src <= l /\ src # l /\ Place = Taken + src /\ Taken + l + e = n
    BY Zenon, StateFacts DEF AtEnd
  <2> HIDE DEF n, l, e
  <2>2. src < l /\ Place \in 0 .. n - 1 /\ Place + 1 \in 0 .. n
    BY <2>1
  <2> QED BY Zenon, <2>2 DEF n, l
<1>2. src + 1 \in src + 1 .. Len(buf) /\ src + 1 \in 1 .. Len(buf)
      /\ Taken + (src + 1) = Place + 1
  <2> DEFINE l == Len(buf)
  <2>1. l \in Nat /\ src \in Nat /\ Taken \in Nat /\ Place = Taken + src /\ src < l
    BY Zenon, <1>1, StateFacts
  <2> HIDE DEF l
  <2>2. src + 1 \in src + 1 .. l /\ src + 1 \in 1 .. l /\ Taken + (src + 1) = Place + 1
    BY <2>1
  <2> QED BY Zenon, <2>2 DEF l
<1>3. Current = msg.bytes[Place + 1]
  <2>1. \A i \in src + 1 .. Len(buf) : buf[i] = msg.bytes[Taken + i]
    BY DEF IndInv, StreamInv
  <2>2. buf[src + 1] = msg.bytes[Taken + (src + 1)]
    BY Zenon, <1>2, <2>1
  <2> QED BY Zenon, <1>2, <2>2 DEF Current
<1>4. Current \in Chars
  <2>1. buf \in Seq(Chars)
    BY DEF IndInv, TypeOK
  <2> QED BY <1>2, <2>1 DEF Current
<1>5. msg \in Messages
  BY StateFacts
<1>6. /\ Run[Place + 1] \in Position
      /\ Run[Place + 1] = After(Here, msg.bytes[Place + 1], msg.consume)
  BY Zenon, <1>1, <1>5, ReadOne DEF Run, Here
<1> QED BY Zenon, <1>1, <1>3, <1>4, <1>6

\* A function on 1 .. n is a sequence of n elements.
LEMMA AsSequence ==
  ASSUME NEW S, NEW n \in Nat, NEW f \in [1 .. n -> S]
  PROVE  f \in Seq(S) /\ Len(f) = n
OBVIOUS

\* g is the buffer with the n bytes from offset "from" on moved down to "to".
IsMoved(g, to, from, n) ==
  /\ g \in Seq(Chars) /\ Len(g) = Len(buf)
  /\ \A i \in 1 .. to : g[i] = buf[i]
  /\ \A i \in 1 .. n : g[to + i] = buf[from + i]
  /\ \A i \in from + n + 1 .. Len(buf) : g[i] = buf[i]

\* What memmove does to the buffer.
LEMMA MovedFacts ==
  ASSUME buf \in Seq(Chars), NEW to \in Nat, NEW from \in Nat, NEW n \in Nat,
         to <= from, from + n <= Len(buf)
  PROVE  IsMoved(Moved(to, from, n), to, from, n)
<1> DEFINE g == Moved(to, from, n)
<1>1. Len(buf) \in Nat /\ \A i \in 1 .. Len(buf) : buf[i] \in Chars
  OBVIOUS
<1>2. \A i \in 1 .. Len(buf) : to < i /\ i <= to + n => from + i - to \in 1 .. Len(buf)
  BY <1>1
<1>3. g \in [1 .. Len(buf) -> Chars]
  BY <1>1, <1>2 DEF Moved
<1>4. g \in Seq(Chars) /\ Len(g) = Len(buf)
  BY Zenon, <1>1, <1>3, AsSequence
<1>7. \A i \in 1 .. to : g[i] = buf[i]
  BY <1>1 DEF Moved
<1>8. \A i \in 1 .. n : g[to + i] = buf[from + i]
  <2> SUFFICES ASSUME NEW i \in 1 .. n PROVE g[to + i] = buf[from + i]
    OBVIOUS
  <2>1. to + i \in 1 .. Len(buf) /\ to < to + i /\ to + i <= to + n
        /\ from + (to + i) - to = from + i
    BY <1>1
  <2> QED BY Zenon, <2>1 DEF Moved
<1>9. \A i \in from + n + 1 .. Len(buf) : g[i] = buf[i]
  BY <1>1 DEF Moved
<1> HIDE DEF g
<1> QED BY Zenon, <1>4, <1>7, <1>8, <1>9 DEF g, IsMoved

------------------------------------------------------------------------------
(* The steps *)

\* The values of the decoder's fields.
DecoderStates == {"SIZE", "EXT", "DATA", "CRLF", "TRAILERS_HEAD", "TRAILERS_MIDDLE"}
Sizes == 0 .. 2 ^ (4 * HexMax) - 1

\* A decoder with other values in its fields.
LEMMA DecoderWith ==
  ASSUME NEW d \in Decoder, NEW s \in DecoderStates, NEW l \in Sizes, NEW h \in 0 .. HexMax
  PROVE  /\ d = [state |-> d.state, left |-> d.left, hex |-> d.hex]
         /\ [state |-> s, left |-> l, hex |-> h] \in Decoder
         /\ d.state \in DecoderStates /\ d.left \in Sizes /\ d.hex \in 0 .. HexMax
         /\ [d EXCEPT !.state = s] = [state |-> s, left |-> d.left, hex |-> d.hex]
         /\ [d EXCEPT !.left = l] = [state |-> d.state, left |-> l, hex |-> d.hex]
         /\ [d EXCEPT !.state = s, !.hex = h] = [state |-> s, left |-> d.left, hex |-> h]
         /\ [d EXCEPT !.left = l, !.hex = h] = [state |-> d.state, left |-> l, hex |-> h]
         /\ [d EXCEPT !.left = l, !.state = s] = [state |-> s, left |-> l, hex |-> d.hex]
<1> DEFINE H == 0 .. HexMax
           R == [state : DecoderStates, left : Sizes, hex : H]
<1>1. Decoder = R
  BY Zenon DEF Decoder, DecoderStates, Sizes
<1>2. d \in R /\ h \in H
  BY Zenon, <1>1
<1> HIDE DEF H
<1>3. d.state \in DecoderStates /\ d.left \in Sizes /\ d.hex \in H
  BY <1>2
<1>4. d = [state |-> d.state, left |-> d.left, hex |-> d.hex]
  BY <1>2
<1>5. [state |-> s, left |-> l, hex |-> h] \in R
  BY <1>2
<1>6. /\ [d EXCEPT !.state = s] = [state |-> s, left |-> d.left, hex |-> d.hex]
      /\ [d EXCEPT !.left = l] = [state |-> d.state, left |-> l, hex |-> d.hex]
  BY <1>2
<1>7. [d EXCEPT !.state = s, !.hex = h] = [state |-> s, left |-> d.left, hex |-> h]
  <2> DEFINE e == [d EXCEPT !.state = s, !.hex = h]
  <2>1. e \in R /\ e.state = s /\ e.left = d.left /\ e.hex = h
    BY <1>2
  <2> HIDE DEF e
  <2>2. e = [state |-> s, left |-> d.left, hex |-> h]
    BY <2>1
  <2> QED BY Zenon, <2>2 DEF e
<1>8. [d EXCEPT !.left = l, !.hex = h] = [state |-> d.state, left |-> l, hex |-> h]
  <2> DEFINE e == [d EXCEPT !.left = l, !.hex = h]
  <2>1. e \in R /\ e.state = d.state /\ e.left = l /\ e.hex = h
    BY <1>2
  <2> HIDE DEF e
  <2>2. e = [state |-> d.state, left |-> l, hex |-> h]
    BY <2>1
  <2> QED BY Zenon, <2>2 DEF e
<1>9. [d EXCEPT !.left = l, !.state = s] = [state |-> s, left |-> l, hex |-> d.hex]
  <2> DEFINE e == [d EXCEPT !.left = l, !.state = s]
  <2>1. e \in R /\ e.state = s /\ e.left = l /\ e.hex = d.hex
    BY <1>2
  <2> HIDE DEF e
  <2>2. e = [state |-> s, left |-> l, hex |-> d.hex]
    BY <2>1
  <2> QED BY Zenon, <2>2 DEF e
<1> QED BY Zenon, <1>1, <1>3, <1>4, <1>5, <1>6, <1>7, <1>8, <1>9 DEF H

\* One byte on, with a decoder that agrees with the reader there.
LEMMA GoKeeps ==
  ASSUME IndInv, pc = "call", ~AtEnd, Here.at # "data",
         NEW d \in Decoder, SizeRight(d), Agree(d, Run[Place + 1]), Go(src + 1, d)
  PROVE  IndInv'
<1>1. /\ msg' = msg /\ rest' = rest /\ buf' = buf /\ dst' = dst /\ ret' = ret
      /\ pc' = pc /\ got' = got /\ src' = src + 1 /\ decoder' = d
  BY DEF Go
<1>2. /\ src \in Nat /\ dst \in Nat /\ dst <= src /\ src < Len(buf) /\ Len(buf) \in Nat
      /\ Place = Taken + src /\ Taken \in Nat
  BY Zenon, StateFacts, NextByte
<1>3. Taken' = Taken
  BY Zenon, <1>1 DEF Taken
<1>4. Place' = Place + 1
  <2>1. Place' = Taken + (src + 1)
    BY Zenon, <1>1, <1>3 DEF Place
  <2> QED BY <1>2, <2>1
<1>5. Run' = Run /\ Here' = Run[Place + 1]
  BY Zenon, <1>1, <1>4 DEF Run, Here
<1>6. Here'.body = Here.body
  <2>1. Here \in Position /\ Here' = After(Here, Current, msg.consume)
    BY Zenon, <1>5, StateFacts, NextByte
  <2> QED BY Zenon, <2>1, AfterKeeps
<1>7. TypeOK'
  <2>1. src' \in 0 .. Len(buf') /\ dst' \in 0 .. src'
    BY <1>1, <1>2
  <2> QED BY Zenon, <1>1, <2>1 DEF IndInv, TypeOK
<1>8. SizeRight(decoder)'
  BY Zenon, <1>1 DEF SizeRight
<1>9. StreamInv'
  <2>1. msg' \in Messages /\ Taken' \in Nat
    BY Zenon, <1>1, <1>3 DEF IndInv, StreamInv
  <2>2. \A i \in 1 .. Len(rest) : rest[i] = msg.bytes[Taken + Len(buf) + i]
    BY Zenon DEF IndInv, StreamInv
  <2>3. \A i \in src + 1 .. Len(buf) : buf[i] = msg.bytes[Taken + i]
    BY Zenon DEF IndInv, StreamInv
  <2>4. \A i \in (src + 1) + 1 .. Len(buf) : i \in src + 1 .. Len(buf)
    BY <1>2
  <2> QED BY Zenon, <1>1, <1>3, <2>1, <2>2, <2>3, <2>4 DEF StreamInv
<1>10. BodyInv'
  BY Zenon, <1>1, <1>6 DEF IndInv, BodyInv
<1>11. ResultInv'
  <2>1. ret' = -2 /\ pc' # "caller" /\ ret' >= -2
    BY <1>1 DEF IndInv, ResultInv
  <2>2. Agree(decoder', Here')
    BY Zenon, <1>1, <1>5
  <2>3. ~(ret' = -1) /\ ~(ret' >= 0)
    BY <2>1
  <2> QED BY Zenon, <2>1, <2>2, <2>3 DEF ResultInv, Agree
<1> QED BY Zenon, <1>7, <1>8, <1>9, <1>10, <1>11 DEF IndInv

\* The decoder turns to the extension without using up a byte.
LEMMA TurnKeeps ==
  ASSUME IndInv, In("SIZE"), ~AtEnd, Current \notin Hex, decoder.hex # 0,
         Go(src, SizeEnd(decoder))
  PROVE  IndInv'
<1>1. /\ msg' = msg /\ rest' = rest /\ buf' = buf /\ dst' = dst /\ ret' = ret
      /\ pc' = pc /\ got' = got /\ src' = src /\ decoder' = SizeEnd(decoder)
  BY DEF Go
<1>2. pc = "call" /\ decoder.state = "SIZE" /\ src < Len(buf)
  BY Zenon, NextByte DEF In
<1>3. /\ Taken' = Taken /\ Place' = Place /\ Run' = Run /\ Here' = Here
      /\ Current' = Current
  BY Zenon, <1>1 DEF Taken, Place, Run, Here, Current
<1>4. decoder \in Decoder
  BY Zenon DEF IndInv, TypeOK
<1>5. /\ decoder' \in Decoder /\ decoder'.state = "EXT" /\ decoder'.hex = 0
      /\ decoder'.left = decoder.left
  <2>1. "EXT" \in DecoderStates /\ 0 \in 0 .. HexMax
    BY CharsAssumption DEF DecoderStates
  <2>2. decoder.left \in Sizes
    BY Zenon, <1>4 DEF Decoder, Sizes
  <2>3. decoder' = [state |-> "EXT", left |-> decoder.left, hex |-> 0]
    BY Zenon, <1>1, <1>4, <2>1, <2>2, DecoderWith DEF SizeEnd
  <2>4. [state |-> "EXT", left |-> decoder.left, hex |-> 0] \in Decoder
    BY Zenon, <1>4, <2>1, <2>2, DecoderWith
  <2> QED BY <2>3, <2>4
<1>6. TypeOK'
  BY Zenon, <1>1, <1>5 DEF IndInv, TypeOK
<1>7. SizeRight(decoder')
  BY <1>5 DEF SizeRight
<1>8. StreamInv'
  BY Zenon, <1>1, <1>3 DEF IndInv, StreamInv
<1>9. BodyInv'
  BY Zenon, <1>1, <1>3 DEF IndInv, BodyInv
<1>10. ret = -2 /\ ret >= -2
  BY <1>2 DEF IndInv, ResultInv
<1>11. Agree(decoder, Here)
  BY <1>2, <1>10 DEF IndInv, ResultInv, Turned
<1>12. Here.at = "size" /\ Here.digits # 0 /\ decoder.left = Here.size
  BY <1>2, <1>11 DEF Agree, SameState
<1>13. Turned(decoder, Here)'
  BY Zenon, <1>1, <1>2, <1>3, <1>5, <1>12 DEF Turned
<1>14. ResultInv'
  <2>1. ret' = -2 /\ ret' >= -2 /\ pc' # "caller"
    BY <1>1, <1>2, <1>10
  <2>2. ~(ret' = -1) /\ ~(ret' >= 0)
    BY <2>1
  <2> QED BY Zenon, <1>13, <2>1, <2>2 DEF ResultInv
<1> QED BY Zenon, <1>6, <1>7, <1>8, <1>9, <1>14 DEF IndInv, SizeRight

\* The tail behind the data after a return.
LEMMA LeftFacts ==
  ASSUME IndInv, NEW s \in src .. Len(buf)
  PROVE  /\ Left(s) \in Seq(Chars) /\ Len(Left(s)) = Len(buf)
         /\ \A i \in 1 .. dst : Left(s)[i] = buf[i]
         /\ \A i \in 1 .. Len(buf) - s : Left(s)[dst + i] = buf[s + i]
<1>1. buf \in Seq(Chars)
  BY Zenon DEF IndInv, TypeOK
<1>2. /\ dst \in Nat /\ s \in Nat /\ Len(buf) - s \in Nat
      /\ dst <= s /\ s + (Len(buf) - s) <= Len(buf)
  BY StateFacts
<1>3. IsMoved(Left(s), dst, s, Len(buf) - s)
  BY Zenon, <1>1, <1>2, MovedFacts DEF Left
<1> QED BY Zenon, <1>3 DEF IsMoved

\* What a return at offset s leaves to show: that the result is right.
LEMMA ExitKeeps ==
  ASSUME IndInv, NEW s \in src .. Len(buf), NEW result \in Int, Exit(result, s),
         decoder' = decoder, Run[Taken + s].body = Here.body
  PROVE  /\ TypeOK' /\ SizeRight(decoder)' /\ StreamInv' /\ BodyInv'
         /\ Place' = Taken + s /\ Run' = Run /\ Here' = Run[Taken + s]
         /\ Len(buf') = Len(buf) /\ pc' = "caller" /\ ret' = result /\ src' = s
<1>1. /\ msg' = msg /\ rest' = rest /\ buf' = Left(s) /\ dst' = dst /\ ret' = result
      /\ pc' = "caller" /\ got' = got /\ src' = s /\ decoder' = decoder
  BY Zenon DEF Exit
<1>2. /\ buf' \in Seq(Chars) /\ Len(buf') = Len(buf)
      /\ \A i \in 1 .. dst : buf'[i] = buf[i]
  BY Zenon, <1>1, LeftFacts
<1>3. Taken' = Taken
  BY Zenon, <1>1, <1>2 DEF Taken
<1>4. Place' = Taken + s /\ Run' = Run /\ Here' = Run[Taken + s]
  BY Zenon, <1>1, <1>3 DEF Place, Run, Here
<1>5. TypeOK'
  <2>1. s \in 0 .. Len(buf) /\ dst \in 0 .. s
    BY StateFacts
  <2>2. {rest', buf', got'} \subseteq Seq(Chars)
    BY Zenon, <1>1, <1>2 DEF IndInv, TypeOK
  <2> QED BY Zenon, <1>1, <1>2, <2>1, <2>2 DEF IndInv, TypeOK
<1>6. SizeRight(decoder)'
  BY Zenon, <1>1 DEF IndInv, SizeRight
<1>7. StreamInv'
  <2>1. pc' # "call"
    BY <1>1
  <2> QED BY Zenon, <1>1, <1>2, <1>3, <2>1 DEF IndInv, StreamInv
<1>8. BodyInv'
  BY Zenon, <1>1, <1>2, <1>4 DEF IndInv, BodyInv
<1> QED BY Zenon, <1>1, <1>2, <1>4, <1>5, <1>6, <1>7, <1>8

\* -2 at the end of the segment.
LEMMA UsedUpKeeps ==
  ASSUME IndInv, UsedUp
  PROVE  IndInv'
<1>1. pc = "call" /\ src = Len(buf) /\ Exit(-2, src) /\ decoder' = decoder
  BY Zenon DEF UsedUp, AtEnd
<1>2. src \in src .. Len(buf) /\ -2 \in Int /\ Taken + src = Place /\ ~(src < Len(buf))
  BY <1>1, StateFacts
<1>3. Run[Taken + src].body = Here.body
  BY Zenon, <1>2 DEF Here
<1>4. /\ TypeOK' /\ SizeRight(decoder)' /\ StreamInv' /\ BodyInv'
      /\ Here' = Here /\ Len(buf') = Len(buf) /\ pc' = "caller" /\ ret' = -2 /\ src' = src
  BY Zenon, <1>1, <1>2, <1>3, ExitKeeps DEF Here
<1>5. ret = -2
  BY <1>1 DEF IndInv, ResultInv
<1>6. Agree(decoder, Here)
  BY Zenon, <1>2, <1>5 DEF IndInv, ResultInv, Turned
<1>7. Agree(decoder, Here)'
  BY Zenon, <1>1, <1>4, <1>6 DEF Agree
<1>8. ret' >= -2 /\ ~(ret' = -1) /\ ~(ret' >= 0) /\ pc' # "call"
  BY <1>4
<1>9. ResultInv'
  BY Zenon, <1>1, <1>4, <1>7, <1>8 DEF ResultInv
<1> QED BY Zenon, <1>4, <1>9 DEF IndInv

\* -1 at a byte that the reader does not accept either.
LEMMA RefusedKeeps ==
  ASSUME IndInv, pc = "call", ~AtEnd, Run[Place + 1].at = "bad",
         Exit(-1, src), decoder' = decoder
  PROVE  IndInv'
<1>1. /\ src \in src .. Len(buf) /\ -1 \in Int /\ Taken + src = Place
      /\ Place < Len(msg.bytes)
  <2> DEFINE l == Len(buf)
             n == Len(msg.bytes)
  <2>1. /\ l \in Nat /\ n \in Nat /\ src \in Nat /\ Taken \in Nat /\ src <= l
        /\ Place = Taken + src /\ Place \in Nat /\ Place + 1 \in 0 .. n
    BY Zenon, StateFacts, NextByte
  <2> HIDE DEF l, n
  <2>2. src \in src .. l /\ -1 \in Int /\ Taken + src = Place /\ Place < n
    BY <2>1
  <2> QED BY Zenon, <2>2 DEF l, n
<1>2. Run[Taken + src].body = Here.body
  BY Zenon, <1>1 DEF Here
<1>3. /\ TypeOK' /\ SizeRight(decoder)' /\ StreamInv' /\ BodyInv'
      /\ Place' = Place /\ Run' = Run /\ ret' = -1 /\ pc' = "caller"
  BY Zenon, <1>1, <1>2, ExitKeeps
<1>4. ret' >= -2 /\ ~(ret' = -2) /\ ~(ret' >= 0) /\ pc' # "call"
  BY <1>3
<1>5. msg' = msg
  BY Zenon DEF Exit
<1>6. ResultInv'
  BY Zenon, <1>1, <1>3, <1>4, <1>5 DEF ResultInv
<1> QED BY Zenon, <1>3, <1>6 DEF IndInv

\* The number of bytes behind the last one of the coding.
LEMMA CompleteKeeps ==
  ASSUME IndInv, pc = "call", ~AtEnd, Here.at \notin {"data", "done"},
         Run[Place + 1].at = "done",
         Exit(Len(buf) - (src + 1), src + 1), decoder' = decoder
  PROVE  IndInv'
<1> DEFINE s == src + 1
           result == Len(buf) - s
<1>1. /\ s \in src .. Len(buf) /\ result \in Int /\ result >= 0 /\ Taken + s = Place + 1
      /\ Place + 1 > 0 /\ (Place + 1) - 1 = Place
  <2> DEFINE l == Len(buf)
  <2>1. l \in Nat /\ src \in Nat /\ Taken \in Nat /\ Place = Taken + src /\ src < l
    BY Zenon, StateFacts, NextByte
  <2> HIDE DEF l
  <2>2. src + 1 \in src .. l /\ l - (src + 1) \in Int /\ l - (src + 1) >= 0
    BY <2>1
  <2>3. Taken + (src + 1) = Place + 1
    BY <2>1
  <2>4. Place + 1 > 0 /\ (Place + 1) - 1 = Place
    BY <2>1
  <2> QED BY Zenon, <2>2, <2>3, <2>4 DEF l
<1>2. Run[Taken + s].body = Here.body
  <2>1. Here \in Position /\ Run[Place + 1] = After(Here, Current, msg.consume)
    BY Zenon, StateFacts, NextByte
  <2>2. Here.at # "data"
    OBVIOUS
  <2>3. After(Here, Current, msg.consume).body = Here.body
    BY Zenon, <2>1, <2>2, AfterKeeps
  <2> QED BY Zenon, <1>1, <2>1, <2>3
<1>3. Exit(result, s)
  OBVIOUS
<1>4. /\ buf' = Left(s) /\ dst' = dst /\ msg' = msg
  BY Zenon, <1>3 DEF Exit
<1>5. \A i \in 1 .. result : buf'[dst + i] = msg.bytes[(Place + 1) + i]
  <2> SUFFICES ASSUME NEW i \in 1 .. result
               PROVE  buf'[dst + i] = msg.bytes[(Place + 1) + i]
    OBVIOUS
  <2>1. buf'[dst + i] = buf[s + i]
    BY Zenon, <1>1, <1>4, LeftFacts
  <2>2. s + i \in src + 1 .. Len(buf) /\ Taken + (s + i) = (Place + 1) + i
    <3> DEFINE l == Len(buf)
    <3>1. l \in Nat /\ src \in Nat /\ Taken \in Nat /\ Place = Taken + src
      BY Zenon, StateFacts
    <3>2. i \in 1 .. l - (src + 1)
      BY Zenon
    <3> HIDE DEF l
    <3>3. (src + 1) + i \in src + 1 .. l /\ Taken + ((src + 1) + i) = (Place + 1) + i
      BY <3>1, <3>2
    <3> QED BY Zenon, <3>3 DEF l
  <2>3. buf[s + i] = msg.bytes[Taken + (s + i)]
    BY Zenon, <2>2 DEF IndInv, StreamInv
  <2> QED BY Zenon, <2>1, <2>2, <2>3
<1> HIDE DEF s, result
<1>6. /\ TypeOK' /\ SizeRight(decoder)' /\ StreamInv' /\ BodyInv'
      /\ Place' = Place + 1 /\ Run' = Run /\ Here' = Run[Place + 1]
      /\ ret' = result /\ pc' = "caller" /\ src' = s /\ Len(buf') = Len(buf)
  BY Zenon, <1>1, <1>2, <1>3, ExitKeeps
<1>7. ret' >= -2 /\ ~(ret' = -2) /\ ~(ret' = -1) /\ pc' # "call"
  BY <1>1, <1>6
<1>8. ret' = Len(buf') - src'
  BY Zenon, <1>6 DEF result
<1>9. Place' > 0 /\ Here'.at = "done" /\ Run'[Place' - 1].at # "done"
  BY Zenon, <1>1, <1>6 DEF Here
<1>10. ResultInv'
  BY Zenon, <1>4, <1>5, <1>6, <1>7, <1>8, <1>9 DEF ResultInv
<1> QED BY Zenon, <1>6, <1>10 DEF IndInv

\* In a call the decoder is where the reader is.
LEMMA CallFacts ==
  ASSUME IndInv, pc = "call"
  PROVE  /\ ret = -2 /\ decoder \in Decoder /\ SizeRight(decoder)
         /\ decoder.state \in DecoderStates /\ decoder.left \in Sizes
         /\ decoder.hex \in 0 .. HexMax
         /\ Agree(decoder, Here) \/ Turned(decoder, Here)
         /\ decoder.state # "EXT" => Agree(decoder, Here)
<1>1. ret = -2 /\ decoder \in Decoder /\ SizeRight(decoder)
  BY Zenon DEF IndInv, TypeOK, ResultInv
<1>2. Agree(decoder, Here) \/ Turned(decoder, Here)
  BY Zenon, <1>1 DEF IndInv, ResultInv
<1>3. /\ decoder.state \in DecoderStates /\ decoder.left \in Sizes
      /\ decoder.hex \in 0 .. HexMax
  BY Zenon, <1>1 DEF Decoder, DecoderStates, Sizes
<1> QED BY Zenon, <1>1, <1>2, <1>3 DEF Turned

\* A digit of a size, or what is wrong there.
LEMMA AfterSize ==
  ASSUME NEW r \in Position, NEW c, NEW consume, r.at = "size"
  PROVE  /\ c \in Hex /\ r.digits # HexMax =>
              /\ After(r, c, consume).at = "size"
              /\ After(r, c, consume).size = 16 * r.size + HexValue[c]
              /\ After(r, c, consume).digits = r.digits + 1
         /\ c \in Hex /\ r.digits = HexMax => After(r, c, consume).at = "bad"
         /\ c \notin Hex /\ r.digits = 0 => After(r, c, consume).at = "bad"
<1>1. HexMax \in Nat /\ r.digits \in 0 .. HexMax
  BY CharsAssumption DEF Position
<1>2. r.digits # HexMax => r.digits < HexMax
  BY <1>1
<1> QED BY <1>1, <1>2 DEF After, Position

\* A character behind the digits of a size.
LEMMA AfterExt ==
  ASSUME NEW r \in Position, NEW c, NEW consume \in BOOLEAN,
         r.at = "ext" \/ (r.at = "size" /\ c \notin Hex /\ r.digits # 0)
  PROVE  /\ After(r, c, consume).size = r.size /\ After(r, c, consume).digits = 0
         /\ c # "lf" => After(r, c, consume).at = "ext"
         /\ c = "lf" /\ r.size > 0 => After(r, c, consume).at = "data"
         /\ c = "lf" /\ ~(r.size > 0) /\ consume => After(r, c, consume).at = "head"
         /\ c = "lf" /\ ~(r.size > 0) /\ ~consume => After(r, c, consume).at = "done"
<1> DEFINE s == [r EXCEPT !.at = IF c = "lf" THEN BehindSize(r, consume) ELSE "ext",
                         !.digits = 0]
<1>1. After(r, c, consume) = s
  BY CharsAssumption DEF After, Position
<1>2. s.size = r.size /\ s.digits = 0
      /\ s.at = IF c = "lf" THEN BehindSize(r, consume) ELSE "ext"
  BY DEF Position
<1> HIDE DEF s
<1> QED BY Zenon, <1>1, <1>2 DEF BehindSize

\* A character behind a chunk or in a trailer.
LEMMA AfterLine ==
  ASSUME NEW r \in Position, NEW c, NEW consume, r.at \in {"crlf", "head", "line"}
  PROVE  LET s == After(r, c, consume)
         IN /\ s.size = r.size /\ s.digits = r.digits
            /\ r.at = "crlf" /\ c = "cr" => s.at = "crlf"
            /\ r.at = "crlf" /\ c = "lf" => s.at = "size"
            /\ r.at = "crlf" /\ c \notin {"cr", "lf"} => s.at = "bad"
            /\ r.at = "head" /\ c = "cr" => s.at = "head"
            /\ r.at = "head" /\ c = "lf" => s.at = "done"
            /\ r.at = "head" /\ c \notin {"cr", "lf"} => s.at = "line"
            /\ r.at = "line" /\ c = "lf" => s.at = "head"
            /\ r.at = "line" /\ c # "lf" => s.at = "line"
BY DEF After, Position

\* A size with one more digit still fits.
LEMMA DigitFits ==
  ASSUME NEW h \in 0 .. HexMax - 1, NEW l \in Nat, l < 2 ^ (4 * h), NEW v \in 0 .. 15
  PROVE  /\ h + 1 \in 0 .. HexMax /\ l * 16 + v \in Sizes
         /\ l * 16 + v < 2 ^ (4 * (h + 1))
<1>1. HexMax \in Nat /\ h \in Nat /\ h + 1 \in 0 .. HexMax
  BY CharsAssumption
<1>2. PICK a \in Nat : a = 2 ^ (4 * h)
  BY 4 * h \in Nat, PowerCounts
<1>3. 2 ^ (4 * (h + 1)) = 16 * a
  BY Zenon, <1>1, <1>2, DigitPower
<1>4. PICK b \in Nat : b = 2 ^ (4 * HexMax)
  BY <1>1, 4 * HexMax \in Nat, PowerCounts
<1>5. 16 * a <= b
  BY Zenon, <1>1, <1>3, <1>4, PowerGrows
<1>6. l < a
  BY Zenon, <1>2
<1>7. l * 16 + v < 16 * a /\ l * 16 + v \in 0 .. b - 1
  BY <1>5, <1>6
<1> QED BY Zenon, <1>1, <1>3, <1>4, <1>7 DEF Sizes

LEMMA ChunkSizeKeeps ==
  ASSUME IndInv, ChunkSize
  PROVE  IndInv'
<1> DEFINE v == decode_hex(Current)
           next == Run[Place + 1]
<1>1. In("SIZE") /\ pc = "call" /\ decoder.state = "SIZE" /\ ~AtEnd
  BY Zenon DEF ChunkSize, In
<1>2. /\ decoder \in Decoder /\ SizeRight(decoder) /\ Agree(decoder, Here)
      /\ decoder.left \in Sizes /\ decoder.hex \in 0 .. HexMax
  <2>1. decoder.state # "EXT"
    BY <1>1
  <2> QED BY Zenon, <1>1, <2>1, CallFacts
<1>3. /\ Here \in Position /\ next \in Position
      /\ next = After(Here, Current, msg.consume)
  BY Zenon, <1>1, StateFacts, NextByte
<1>4. Here.at = "size" /\ Here.size = decoder.left /\ Here.digits = decoder.hex
  BY <1>1, <1>2 DEF Agree, SameState
<1>5. /\ Current \in Hex => v = HexValue[Current] /\ v \in 0 .. 15
      /\ Current \notin Hex => v = -1
  BY CharsAssumption DEF decode_hex
<1>6. v # -1 <=> Current \in Hex
  BY <1>5
<1> HIDE DEF v
<1>7. \/ v # -1 /\ decoder.hex # HexMax
         /\ Go(src + 1, [decoder EXCEPT !.left = @ * 16 + v, !.hex = @ + 1])
      \/ decoder.hex = (IF v = -1 THEN 0 ELSE HexMax) /\ Exit(-1, src) /\ decoder' = decoder
      \/ v = -1 /\ decoder.hex # 0 /\ Go(src, SizeEnd(decoder))
  BY Zenon DEF ChunkSize, v
<1>8. CASE v # -1 /\ decoder.hex # HexMax
           /\ Go(src + 1, [decoder EXCEPT !.left = @ * 16 + v, !.hex = @ + 1])
  <2> DEFINE l == decoder.left * 16 + v
             h == decoder.hex + 1
             d == [state |-> "SIZE", left |-> l, hex |-> h]
  <2>1. decoder.hex \in 0 .. HexMax - 1 /\ decoder.left \in Nat /\ v \in 0 .. 15
    <3>1. HexMax \in Nat /\ decoder.hex \in 0 .. HexMax - 1
      BY <1>2, <1>8, CharsAssumption
    <3>2. 4 * HexMax \in Nat
      BY <3>1
    <3>3. 2 ^ (4 * HexMax) \in Nat
      BY Zenon, <3>2, PowerCounts
    <3>4. decoder.left \in Nat
      BY <1>2, <3>3 DEF Sizes
    <3> QED BY Zenon, <1>5, <1>6, <1>8, <3>1, <3>4
  <2>2. decoder.left < 2 ^ (4 * decoder.hex)
    BY Zenon, <1>1, <1>2 DEF SizeRight
  <2>3. h \in 0 .. HexMax /\ l \in Sizes /\ l < 2 ^ (4 * h)
    BY Zenon, <2>1, <2>2, DigitFits
  <2>4. /\ next.at = "size" /\ next.size = 16 * Here.size + HexValue[Current]
        /\ next.digits = Here.digits + 1
    <3> DEFINE t == After(Here, Current, msg.consume)
    <3>1. Current \in Hex /\ Here.digits # HexMax
      BY Zenon, <1>4, <1>6, <1>8
    <3>2. t.at = "size" /\ t.size = 16 * Here.size + HexValue[Current]
          /\ t.digits = Here.digits + 1
      BY <1>3, <1>4, <3>1, AfterSize
    <3> QED BY Zenon, <1>3, <3>2
  <2>5. l = next.size /\ h = next.digits
    <3>1. decoder.left * 16 + v = 16 * decoder.left + v
      BY <2>1
    <3> QED BY Zenon, <1>4, <1>5, <1>6, <1>8, <2>4, <3>1
  <2> HIDE DEF l, h
  <2>6. d \in Decoder /\ [decoder EXCEPT !.left = l, !.hex = h] = d
    <3>1. "SIZE" \in DecoderStates
      BY DEF DecoderStates
    <3>2. [decoder EXCEPT !.left = l, !.hex = h]
            = [state |-> decoder.state, left |-> l, hex |-> h]
      BY Zenon, <1>2, <2>3, <3>1, DecoderWith
    <3>3. d \in Decoder
      BY Zenon, <1>2, <2>3, <3>1, DecoderWith
    <3> QED BY Zenon, <1>1, <3>2, <3>3
  <2>7. Go(src + 1, d)
    BY Zenon, <1>8, <2>6 DEF l, h
  <2>8. SizeRight(d)
    BY <2>3 DEF SizeRight
  <2>9. Agree(d, next) /\ Here.at # "data"
    BY <1>4, <2>4, <2>5 DEF Agree, SameState
  <2> HIDE DEF d
  <2> QED BY Zenon, <1>1, <2>6, <2>7, <2>8, <2>9, GoKeeps
<1>9. CASE decoder.hex = (IF v = -1 THEN 0 ELSE HexMax) /\ Exit(-1, src) /\ decoder' = decoder
  <2>1. next.at = "bad"
    <3>1. \/ Current \in Hex /\ Here.digits = HexMax
          \/ Current \notin Hex /\ Here.digits = 0
      BY Zenon, <1>4, <1>6, <1>9
    <3>2. After(Here, Current, msg.consume).at = "bad"
      BY <1>3, <1>4, <3>1, AfterSize
    <3> QED BY Zenon, <1>3, <3>2
  <2> QED BY Zenon, <1>1, <1>9, <2>1, RefusedKeeps
<1>10. CASE v = -1 /\ decoder.hex # 0 /\ Go(src, SizeEnd(decoder))
  BY Zenon, <1>1, <1>6, <1>10, TurnKeeps
<1> QED BY Zenon, <1>7, <1>8, <1>9, <1>10

\* The decoder in another state, with what is left unchanged.
LEMMA InState ==
  ASSUME NEW d \in Decoder, NEW s \in DecoderStates
  PROVE  /\ [d EXCEPT !.state = s] \in Decoder
         /\ [d EXCEPT !.state = s].state = s
         /\ [d EXCEPT !.state = s].left = d.left
         /\ [d EXCEPT !.state = s].hex = d.hex
<1> DEFINE e == [d EXCEPT !.state = s]
<1>1. d.left \in Sizes /\ d.hex \in 0 .. HexMax
  BY Zenon DEF Decoder, Sizes
<1>2. e = [state |-> s, left |-> d.left, hex |-> d.hex]
  BY Zenon, <1>1, DecoderWith
<1>3. [state |-> s, left |-> d.left, hex |-> d.hex] \in Decoder
  BY Zenon, <1>1, DecoderWith
<1> HIDE DEF e
<1>4. e \in Decoder /\ e.state = s /\ e.left = d.left /\ e.hex = d.hex
  BY <1>2, <1>3
<1> QED BY Zenon, <1>4 DEF e

LEMMA ChunkExtKeeps ==
  ASSUME IndInv, ChunkExt
  PROVE  IndInv'
<1> DEFINE next == Run[Place + 1]
           data == [decoder EXCEPT !.state = "DATA"]
           head == [decoder EXCEPT !.state = "TRAILERS_HEAD"]
<1>1. pc = "call" /\ decoder.state = "EXT" /\ ~AtEnd
  BY Zenon DEF ChunkExt, In
<1>2. /\ decoder \in Decoder /\ SizeRight(decoder) /\ decoder.left \in Sizes
      /\ Agree(decoder, Here) \/ Turned(decoder, Here)
  BY Zenon, <1>1, CallFacts
<1>3. /\ Here \in Position /\ next = After(Here, Current, msg.consume)
      /\ msg \in Messages
  BY Zenon, <1>1, StateFacts, NextByte
<1>4. /\ decoder.hex = 0 /\ Here.size = decoder.left
      /\ Here.at = "ext" \/ (Here.at = "size" /\ Current \notin Hex /\ Here.digits # 0)
      /\ Here.at \notin {"data", "done"}
  BY <1>1, <1>2 DEF SizeRight, Agree, Turned, SameState
<1>5. msg.consume \in BOOLEAN
  BY Zenon, <1>3, MessagesAssumption
<1>6. /\ next.size = Here.size /\ next.digits = 0
      /\ Current # "lf" => next.at = "ext"
      /\ Current = "lf" /\ Here.size > 0 => next.at = "data"
      /\ Current = "lf" /\ ~(Here.size > 0) /\ msg.consume => next.at = "head"
      /\ Current = "lf" /\ ~(Here.size > 0) /\ ~msg.consume => next.at = "done"
  <2> DEFINE t == After(Here, Current, msg.consume)
  <2>1. /\ t.size = Here.size /\ t.digits = 0
        /\ Current # "lf" => t.at = "ext"
        /\ Current = "lf" /\ Here.size > 0 => t.at = "data"
        /\ Current = "lf" /\ ~(Here.size > 0) /\ msg.consume => t.at = "head"
        /\ Current = "lf" /\ ~(Here.size > 0) /\ ~msg.consume => t.at = "done"
    BY <1>3, <1>4, <1>5, AfterExt
  <2> HIDE DEF next
  <2> QED BY Zenon, <1>3, <2>1
<1> HIDE DEF next
<1>7. decoder.left = 0 => ~(Here.size > 0)
  BY <1>4
<1>8. /\ data \in Decoder /\ data.state = "DATA" /\ data.left = decoder.left
      /\ data.hex = decoder.hex
      /\ head \in Decoder /\ head.state = "TRAILERS_HEAD" /\ head.left = decoder.left
      /\ head.hex = decoder.hex
  <2>1. {"DATA", "TRAILERS_HEAD"} \subseteq DecoderStates
    BY DEF DecoderStates
  <2> QED BY Zenon, <1>2, <2>1, InState
<1> HIDE DEF data, head
<1>9. \/ Current # "lf" /\ Go(src + 1, decoder)
      \/ Current = "lf" /\ decoder.left > 0 /\ Go(src + 1, data)
      \/ Current = "lf" /\ decoder.left = 0 /\ msg.consume /\ Go(src + 1, head)
      \/ Current = "lf" /\ decoder.left = 0 /\ ~msg.consume
         /\ Exit(Len(buf) - (src + 1), src + 1) /\ decoder' = decoder
  BY Zenon DEF ChunkExt, data, head
<1>10. CASE Current # "lf" /\ Go(src + 1, decoder)
  <2>1. Agree(decoder, next) /\ Here.at # "data"
    BY <1>1, <1>4, <1>6, <1>10 DEF Agree, SameState
  <2> QED BY Zenon, <1>1, <1>2, <1>10, <2>1, GoKeeps DEF next
<1>11. CASE Current = "lf" /\ decoder.left > 0 /\ Go(src + 1, data)
  <2>1. Agree(data, next) /\ Here.at # "data"
    BY <1>4, <1>6, <1>8, <1>11 DEF Agree, SameState
  <2>2. SizeRight(data)
    BY <1>4, <1>8, <1>11 DEF SizeRight
  <2> QED BY Zenon, <1>1, <1>8, <1>11, <2>1, <2>2, GoKeeps DEF next
<1>12. CASE Current = "lf" /\ decoder.left = 0 /\ msg.consume /\ Go(src + 1, head)
  <2>1. Agree(head, next) /\ Here.at # "data"
    BY <1>4, <1>6, <1>7, <1>8, <1>12 DEF Agree, SameState
  <2>2. SizeRight(head)
    BY <1>4, <1>8, <1>12 DEF SizeRight
  <2> QED BY Zenon, <1>1, <1>8, <1>12, <2>1, <2>2, GoKeeps DEF next
<1>13. CASE Current = "lf" /\ decoder.left = 0 /\ ~msg.consume
            /\ Exit(Len(buf) - (src + 1), src + 1) /\ decoder' = decoder
  <2>1. next.at = "done"
    BY Zenon, <1>6, <1>7, <1>13
  <2> QED BY Zenon, <1>1, <1>4, <1>13, <2>1, CompleteKeeps DEF next
<1> QED BY Zenon, <1>9, <1>10, <1>11, <1>12, <1>13

\* Behind a chunk and in a trailer, the decoder and the reader are at one.
LEMMA LineFacts ==
  ASSUME IndInv, pc = "call", ~AtEnd,
         decoder.state \in {"CRLF", "TRAILERS_HEAD", "TRAILERS_MIDDLE"}
  PROVE  /\ decoder \in Decoder /\ SizeRight(decoder) /\ decoder.left = 0 /\ decoder.hex = 0
         /\ decoder.state = "CRLF" => Here.at = "crlf"
         /\ decoder.state = "TRAILERS_HEAD" => Here.at = "head"
         /\ decoder.state = "TRAILERS_MIDDLE" => Here.at = "line"
         /\ Here.at \notin {"data", "done"}
         /\ Run[Place + 1].size = 0 /\ Run[Place + 1].digits = 0
         /\ Here.at = "crlf" /\ Current = "cr" => Run[Place + 1].at = "crlf"
         /\ Here.at = "crlf" /\ Current = "lf" => Run[Place + 1].at = "size"
         /\ Here.at = "crlf" /\ Current \notin {"cr", "lf"} => Run[Place + 1].at = "bad"
         /\ Here.at = "head" /\ Current = "cr" => Run[Place + 1].at = "head"
         /\ Here.at = "head" /\ Current = "lf" => Run[Place + 1].at = "done"
         /\ Here.at = "head" /\ Current \notin {"cr", "lf"} => Run[Place + 1].at = "line"
         /\ Here.at = "line" /\ Current = "lf" => Run[Place + 1].at = "head"
         /\ Here.at = "line" /\ Current # "lf" => Run[Place + 1].at = "line"
<1> DEFINE next == Run[Place + 1]
           t == After(Here, Current, msg.consume)
<1>1. decoder \in Decoder /\ SizeRight(decoder) /\ Agree(decoder, Here)
  <2>1. decoder.state # "EXT"
    OBVIOUS
  <2> QED BY Zenon, <2>1, CallFacts
<1>2. decoder.left = 0 /\ decoder.hex = 0
  BY <1>1 DEF SizeRight
<1>3. /\ Here.size = 0 /\ Here.digits = 0
      /\ decoder.state = "CRLF" => Here.at = "crlf"
      /\ decoder.state = "TRAILERS_HEAD" => Here.at = "head"
      /\ decoder.state = "TRAILERS_MIDDLE" => Here.at = "line"
      /\ Here.at \in {"crlf", "head", "line"}
      /\ Here.at \notin {"data", "done"}
  BY <1>1, <1>2 DEF Agree, SameState
<1>4. Here \in Position /\ next = t
  BY Zenon, StateFacts, NextByte
<1>5. /\ t.size = 0 /\ t.digits = 0
      /\ Here.at = "crlf" /\ Current = "cr" => t.at = "crlf"
      /\ Here.at = "crlf" /\ Current = "lf" => t.at = "size"
      /\ Here.at = "crlf" /\ Current \notin {"cr", "lf"} => t.at = "bad"
      /\ Here.at = "head" /\ Current = "cr" => t.at = "head"
      /\ Here.at = "head" /\ Current = "lf" => t.at = "done"
      /\ Here.at = "head" /\ Current \notin {"cr", "lf"} => t.at = "line"
      /\ Here.at = "line" /\ Current = "lf" => t.at = "head"
      /\ Here.at = "line" /\ Current # "lf" => t.at = "line"
  BY <1>3, <1>4, AfterLine
<1> HIDE DEF t, next
<1> QED BY Zenon, <1>1, <1>2, <1>3, <1>4, <1>5 DEF next

\* One byte on behind a chunk or in a trailer.
LEMMA LineGoKeeps ==
  ASSUME IndInv, pc = "call", ~AtEnd,
         decoder.state \in {"CRLF", "TRAILERS_HEAD", "TRAILERS_MIDDLE"},
         NEW d \in Decoder, Go(src + 1, d), d.left = 0, d.hex = 0,
         <<Run[Place + 1].at, d.state>> \in SameState, d.state # "DATA"
  PROVE  IndInv'
<1>1. Here.at # "data" /\ Run[Place + 1].size = 0 /\ Run[Place + 1].digits = 0
  <2>1. Here.at \notin {"data", "done"} /\ Run[Place + 1].size = 0 /\ Run[Place + 1].digits = 0
    BY Zenon, LineFacts
  <2> QED BY <2>1
<1>2. SizeRight(d)
  BY DEF SizeRight
<1>3. Agree(d, Run[Place + 1])
  BY Zenon, <1>1 DEF Agree
<1> QED BY Zenon, <1>1, <1>2, <1>3, GoKeeps

LEMMA ChunkCrlfKeeps ==
  ASSUME IndInv, ChunkCrlf
  PROVE  IndInv'
<1> DEFINE size == [decoder EXCEPT !.state = "SIZE"]
<1>1. /\ pc = "call" /\ decoder.state = "CRLF" /\ ~AtEnd
      /\ \/ Current = "cr" /\ Go(src + 1, decoder)
         \/ Current = "lf" /\ Go(src + 1, size)
         \/ Current \notin {"cr", "lf"} /\ Exit(-1, src) /\ decoder' = decoder
  BY Zenon DEF ChunkCrlf, In
<1>2. decoder.state \in {"CRLF", "TRAILERS_HEAD", "TRAILERS_MIDDLE"}
  BY <1>1
<1>3. /\ decoder \in Decoder /\ decoder.left = 0 /\ decoder.hex = 0
      /\ Current = "cr" => Run[Place + 1].at = "crlf"
      /\ Current = "lf" => Run[Place + 1].at = "size"
      /\ Current \notin {"cr", "lf"} => Run[Place + 1].at = "bad"
  BY Zenon, <1>1, <1>2, LineFacts
<1>4. CASE Current = "cr" /\ Go(src + 1, decoder)
  <2>1. <<Run[Place + 1].at, decoder.state>> \in SameState /\ decoder.state # "DATA"
    BY <1>1, <1>3, <1>4 DEF SameState
  <2> QED BY Zenon, <1>1, <1>2, <1>3, <1>4, <2>1, LineGoKeeps
<1>5. CASE Current = "lf" /\ Go(src + 1, size)
  <2>1. "SIZE" \in DecoderStates
    BY DEF DecoderStates
  <2>2. size \in Decoder /\ size.state = "SIZE" /\ size.left = 0 /\ size.hex = 0
    BY Zenon, <1>3, <2>1, InState
  <2> HIDE DEF size
  <2>3. <<Run[Place + 1].at, size.state>> \in SameState /\ size.state # "DATA"
    BY <1>3, <1>5, <2>2 DEF SameState
  <2> QED BY Zenon, <1>1, <1>2, <1>5, <2>2, <2>3, LineGoKeeps
<1>6. CASE Current \notin {"cr", "lf"} /\ Exit(-1, src) /\ decoder' = decoder
  BY Zenon, <1>1, <1>3, <1>6, RefusedKeeps
<1> QED BY Zenon, <1>1, <1>4, <1>5, <1>6

LEMMA TrailersHeadKeeps ==
  ASSUME IndInv, TrailersHead
  PROVE  IndInv'
<1> DEFINE line == [decoder EXCEPT !.state = "TRAILERS_MIDDLE"]
<1>1. /\ pc = "call" /\ decoder.state = "TRAILERS_HEAD" /\ ~AtEnd
      /\ \/ Current = "cr" /\ Go(src + 1, decoder)
         \/ /\ Current = "lf" /\ Exit(Len(buf) - (src + 1), src + 1)
            /\ decoder' = decoder
         \/ Current \notin {"cr", "lf"} /\ Go(src + 1, line)
  BY Zenon DEF TrailersHead, In
<1>2. decoder.state \in {"CRLF", "TRAILERS_HEAD", "TRAILERS_MIDDLE"}
  BY <1>1
<1>3. /\ decoder \in Decoder /\ decoder.left = 0 /\ decoder.hex = 0
      /\ Here.at \notin {"data", "done"}
      /\ Current = "cr" => Run[Place + 1].at = "head"
      /\ Current = "lf" => Run[Place + 1].at = "done"
      /\ Current \notin {"cr", "lf"} => Run[Place + 1].at = "line"
  BY Zenon, <1>1, <1>2, LineFacts
<1>4. CASE Current = "cr" /\ Go(src + 1, decoder)
  <2>1. <<Run[Place + 1].at, decoder.state>> \in SameState /\ decoder.state # "DATA"
    BY <1>1, <1>3, <1>4 DEF SameState
  <2> QED BY Zenon, <1>1, <1>2, <1>3, <1>4, <2>1, LineGoKeeps
<1>5. CASE Current = "lf" /\ Exit(Len(buf) - (src + 1), src + 1) /\ decoder' = decoder
  BY Zenon, <1>1, <1>3, <1>5, CompleteKeeps
<1>6. CASE Current \notin {"cr", "lf"} /\ Go(src + 1, line)
  <2>1. "TRAILERS_MIDDLE" \in DecoderStates
    BY DEF DecoderStates
  <2>2. line \in Decoder /\ line.state = "TRAILERS_MIDDLE" /\ line.left = 0 /\ line.hex = 0
    BY Zenon, <1>3, <2>1, InState
  <2> HIDE DEF line
  <2>3. <<Run[Place + 1].at, line.state>> \in SameState /\ line.state # "DATA"
    BY <1>3, <1>6, <2>2 DEF SameState
  <2> QED BY Zenon, <1>1, <1>2, <1>6, <2>2, <2>3, LineGoKeeps
<1> QED BY Zenon, <1>1, <1>4, <1>5, <1>6

LEMMA TrailersMiddleKeeps ==
  ASSUME IndInv, TrailersMiddle
  PROVE  IndInv'
<1> DEFINE head == [decoder EXCEPT !.state = "TRAILERS_HEAD"]
<1>1. /\ pc = "call" /\ decoder.state = "TRAILERS_MIDDLE" /\ ~AtEnd
      /\ Go(src + 1, IF Current = "lf" THEN head ELSE decoder)
  BY Zenon DEF TrailersMiddle, In, Past
<1>2. decoder.state \in {"CRLF", "TRAILERS_HEAD", "TRAILERS_MIDDLE"}
  BY <1>1
<1>3. /\ decoder \in Decoder /\ decoder.left = 0 /\ decoder.hex = 0
      /\ Current = "lf" => Run[Place + 1].at = "head"
      /\ Current # "lf" => Run[Place + 1].at = "line"
  BY Zenon, <1>1, <1>2, LineFacts
<1>4. CASE Current = "lf"
  <2>1. "TRAILERS_HEAD" \in DecoderStates
    BY DEF DecoderStates
  <2>2. head \in Decoder /\ head.state = "TRAILERS_HEAD" /\ head.left = 0 /\ head.hex = 0
    BY Zenon, <1>3, <2>1, InState
  <2> HIDE DEF head
  <2>3. <<Run[Place + 1].at, head.state>> \in SameState /\ head.state # "DATA"
    BY <1>3, <1>4, <2>2 DEF SameState
  <2>4. Go(src + 1, head)
    BY Zenon, <1>1, <1>4
  <2> QED BY Zenon, <1>1, <1>2, <2>2, <2>3, <2>4, LineGoKeeps
<1>5. CASE Current # "lf"
  <2>1. <<Run[Place + 1].at, decoder.state>> \in SameState /\ decoder.state # "DATA"
    BY <1>1, <1>3, <1>5 DEF SameState
  <2>2. Go(src + 1, decoder)
    BY Zenon, <1>1, <1>5
  <2> QED BY Zenon, <1>1, <1>2, <1>3, <2>1, <2>2, LineGoKeeps
<1> QED BY Zenon, <1>4, <1>5

\* The next n bytes of a chunk, as the reader reads them.
LEMMA DataFacts ==
  ASSUME IndInv, In("DATA"), NEW n \in 0 .. decoder.left, src + n <= Len(buf)
  PROVE  /\ Place + n \in 0 .. Len(msg.bytes)
         /\ Run[Place + n].size = decoder.left - n /\ Run[Place + n].digits = 0
         /\ Run[Place + n].body = Here.body + n
         /\ n = decoder.left => Run[Place + n].at = "crlf"
         /\ n # decoder.left => Run[Place + n].at = "data"
         /\ Here.body + n <= Len(msg.body)
         /\ \A i \in 1 .. n : buf[src + i] = msg.body[Here.body + i]
<1>1. pc = "call" /\ decoder.state = "DATA"
  BY Zenon DEF In
<1>2. decoder.left \in Nat /\ decoder.left > 0
  <2>1. decoder.left \in Sizes /\ SizeRight(decoder)
    BY Zenon, <1>1, CallFacts
  <2>2. HexMax \in Nat /\ 4 * HexMax \in Nat
    BY CharsAssumption
  <2>3. 2 ^ (4 * HexMax) \in Nat
    BY Zenon, <2>2, PowerCounts
  <2>4. decoder.left > 0
    BY Zenon, <1>1, <2>1 DEF SizeRight
  <2> QED BY <2>1, <2>3, <2>4 DEF Sizes
<1>3. /\ Here.at = "data" /\ Here.size = decoder.left /\ Here.digits = 0
  <2>1. decoder.state # "EXT"
    BY <1>1
  <2>2. Agree(decoder, Here) /\ SizeRight(decoder)
    BY Zenon, <1>1, <2>1, CallFacts
  <2>3. decoder.hex = 0
    BY <1>1, <2>2 DEF SizeRight
  <2> QED BY <1>1, <2>2, <2>3 DEF Agree, SameState
<1>4. /\ msg \in Messages /\ Place \in 0 .. Len(msg.bytes) /\ Place = Taken + src
      /\ Taken \in Nat /\ src \in Nat /\ Len(buf) \in Nat /\ Len(msg.bytes) \in Nat
      /\ Here.body \in Nat /\ Here.body <= Len(msg.body) /\ Len(msg.body) \in Nat
  <2>1. Here \in Position /\ Here.body <= Len(msg.body)
    BY Zenon, StateFacts DEF IndInv, BodyInv
  <2>2. Here.body \in Nat
    BY <2>1 DEF Position
  <2>3. Place \in 0 .. Len(msg.bytes)
    BY StateFacts
  <2> QED BY Zenon, <2>1, <2>2, <2>3, StateFacts
<1>5. ASSUME NEW i \in 0 .. n
      PROVE  Place + i \in Nat /\ Place + i <= Len(msg.bytes)
  <2> DEFINE l == Len(buf)
             b == Len(msg.bytes)
             e == Len(rest)
  <2>1. l \in Nat /\ b \in Nat /\ e \in Nat /\ Taken + l + e = b /\ src + n <= l
    BY Zenon, StateFacts
  <2> HIDE DEF l, b, e
  <2>2. Place + i \in Nat /\ Place + i <= b
    BY <1>2, <1>4, <2>1
  <2> QED BY Zenon, <2>2 DEF b
<1>6. ASSUME NEW i \in 0 .. n
      PROVE  /\ Run[Place + i].size = decoder.left - i /\ Run[Place + i].digits = 0
             /\ Run[Place + i].body = Here.body + i
             /\ i = decoder.left => Run[Place + i].at = "crlf"
             /\ i # decoder.left => Run[Place + i].at = "data"
  <2>1. i \in 0 .. decoder.left
    BY <1>2
  <2>2. /\ Reading[msg][Place].at = "data" /\ Reading[msg][Place].size = decoder.left
        /\ Reading[msg][Place].digits = 0 /\ Reading[msg][Place].body = Here.body
    BY Zenon, <1>3 DEF Here, Run
  <2>3. Reading[msg][Place].size > 0 /\ i \in 0 .. Reading[msg][Place].size
    BY Zenon, <1>2, <2>1, <2>2
  <2>4. DataAhead(Reading[msg][Place], Reading[msg][Place + i], i)
    <3>1. Place + i <= Len(msg.bytes)
      BY Zenon, <1>5
    <3> QED BY Zenon, <1>4, <2>2, <2>3, <3>1, ReadData
  <2> QED BY Zenon, <2>2, <2>4 DEF Run, DataAhead
<1>7. ASSUME NEW i \in 1 .. n
      PROVE  /\ Here.body + i <= Len(msg.body)
             /\ buf[src + i] = msg.body[Here.body + i]
  <2>1. /\ i \in 0 .. n /\ i - 1 \in 0 .. n /\ i - 1 # decoder.left
        /\ Place + (i - 1) = (Place + i) - 1
    BY <1>2, <1>4
  <2>2. Run[(Place + i) - 1].at = "data"
    BY Zenon, <1>6, <2>1
  <2>3. Place + i \in 1 .. Len(msg.bytes)
    <3>1. Place + i <= Len(msg.bytes)
      BY Zenon, <1>5, <2>1
    <3> QED BY <1>4, <3>1
  <2>4. Run[Place + i].body = Here.body + i
    BY Zenon, <1>6, <2>1
  <2>5. \A k \in 1 .. Len(msg.bytes) : Run[k - 1].at = "data" =>
          Run[k].body <= Len(msg.body) /\ msg.body[Run[k].body] = msg.bytes[k]
    BY Zenon, <1>4, MessageFacts DEF IsMeaning, Run
  <2>6. /\ Here.body + i <= Len(msg.body)
        /\ msg.body[Here.body + i] = msg.bytes[Place + i]
    BY Zenon, <2>2, <2>3, <2>4, <2>5
  <2>7. src + i \in src + 1 .. Len(buf) /\ Taken + (src + i) = Place + i
    BY <1>2, <1>4
  <2>8. buf[src + i] = msg.bytes[Taken + (src + i)]
    BY Zenon, <1>1, <2>7 DEF IndInv, StreamInv
  <2> QED BY Zenon, <2>6, <2>7, <2>8
<1>8. n \in 0 .. n /\ (n = 0 \/ n \in 1 .. n) /\ Here.body + 0 = Here.body
  BY <1>2, <1>4
<1>9. Here.body + n <= Len(msg.body)
  BY Zenon, <1>4, <1>7, <1>8
<1>10. Place + n \in 0 .. Len(msg.bytes)
  <2>1. Place + n \in Nat /\ Place + n <= Len(msg.bytes)
    BY Zenon, <1>5, <1>8
  <2> QED BY <1>4, <2>1
<1> QED BY Zenon, <1>6, <1>7, <1>8, <1>9, <1>10

LEMMA ChunkDataKeeps ==
  ASSUME IndInv, ChunkData
  PROVE  IndInv'
<1> DEFINE avail == Len(buf) - src
           n == IF avail < decoder.left THEN avail ELSE decoder.left
<1>1. /\ In("DATA") /\ pc = "call" /\ decoder.state = "DATA"
      /\ buf' = Moved(dst, src, n) /\ src' = src + n /\ dst' = dst + n
      /\ msg' = msg /\ rest' = rest /\ got' = got
  BY Zenon DEF ChunkData, In
<1>2. /\ decoder \in Decoder /\ SizeRight(decoder) /\ ret = -2 /\ decoder.left \in Sizes
      /\ decoder.hex \in 0 .. HexMax
  BY Zenon, <1>1, CallFacts
<1>3. /\ decoder.left \in Nat /\ decoder.left > 0 /\ decoder.hex = 0
      /\ \A k \in 0 .. decoder.left : k \in Sizes
  <2>1. HexMax \in Nat /\ 4 * HexMax \in Nat
    BY CharsAssumption
  <2>2. 2 ^ (4 * HexMax) \in Nat
    BY Zenon, <2>1, PowerCounts
  <2>3. decoder.left > 0 /\ decoder.hex = 0
    BY <1>1, <1>2 DEF SizeRight
  <2> QED BY <1>2, <2>2, <2>3 DEF Sizes
<1>4. /\ src \in Nat /\ dst \in Nat /\ dst <= src /\ src <= Len(buf) /\ Len(buf) \in Nat
      /\ Place = Taken + src /\ Taken \in Nat /\ Len(got) \in Nat
  BY Zenon, StateFacts
<1>5. /\ n \in Nat /\ n \in 0 .. decoder.left /\ src + n <= Len(buf)
      /\ avail < decoder.left => n # decoder.left /\ src + n = Len(buf)
      /\ ~(avail < decoder.left) => n = decoder.left
  <2> DEFINE l == Len(buf)
  <2>1. l \in Nat /\ src <= l
    BY Zenon, <1>4
  <2> HIDE DEF l
  <2>2. avail = l - src
    BY Zenon DEF l
  <2>3. src + n <= l /\ n \in Nat /\ n \in 0 .. decoder.left
        /\ (avail < decoder.left => n # decoder.left /\ src + n = l)
        /\ (~(avail < decoder.left) => n = decoder.left)
    BY <1>3, <1>4, <2>1, <2>2
  <2> QED BY Zenon, <2>3 DEF l
<1>6. \/ /\ avail < decoder.left /\ decoder' = [decoder EXCEPT !.left = decoder.left - n]
         /\ ret' = -2 /\ pc' = "caller"
      \/ /\ ~(avail < decoder.left) /\ decoder' = [decoder EXCEPT !.left = 0, !.state = "CRLF"]
         /\ ret' = ret /\ pc' = pc
  BY Zenon DEF ChunkData, LeftAfter
<1> HIDE DEF n, avail
<1>7. /\ buf' \in Seq(Chars) /\ Len(buf') = Len(buf)
      /\ \A i \in 1 .. dst : buf'[i] = buf[i]
      /\ \A i \in 1 .. n : buf'[dst + i] = buf[src + i]
      /\ \A i \in src + n + 1 .. Len(buf) : buf'[i] = buf[i]
  <2>1. buf \in Seq(Chars)
    BY Zenon DEF IndInv, TypeOK
  <2>2. IsMoved(buf', dst, src, n)
    BY Zenon, <1>1, <1>4, <1>5, <2>1, MovedFacts
  <2> QED BY Zenon, <2>2 DEF IsMoved
<1>8. /\ Run[Place + n].size = decoder.left - n /\ Run[Place + n].digits = 0
      /\ Run[Place + n].body = Here.body + n
      /\ n = decoder.left => Run[Place + n].at = "crlf"
      /\ n # decoder.left => Run[Place + n].at = "data"
      /\ Here.body + n <= Len(msg.body)
      /\ \A i \in 1 .. n : buf[src + i] = msg.body[Here.body + i]
  BY Zenon, <1>1, <1>5, DataFacts
<1>9. Taken' = Taken
  BY Zenon, <1>1, <1>7 DEF Taken
<1>10. Place' = Place + n
  <2>1. Place' = Taken + (src + n)
    BY Zenon, <1>1, <1>9 DEF Place
  <2> QED BY <1>4, <1>5, <2>1
<1>11. Run' = Run /\ Here' = Run[Place + n]
  BY Zenon, <1>1, <1>10 DEF Run, Here
<1>12. /\ decoder' \in Decoder /\ SizeRight(decoder')
       /\ decoder'.left = decoder.left - n /\ decoder'.hex = 0
       /\ n = decoder.left => decoder'.state = "CRLF"
       /\ n # decoder.left => decoder'.state = "DATA"
  <2>1. /\ "CRLF" \in DecoderStates /\ "DATA" \in DecoderStates
        /\ 0 \in Sizes /\ decoder.left - n \in Sizes
    <3>1. decoder.left - n \in 0 .. decoder.left /\ 0 \in 0 .. decoder.left
      BY <1>3, <1>5
    <3>2. "CRLF" \in DecoderStates /\ "DATA" \in DecoderStates
      BY DEF DecoderStates
    <3> QED BY Zenon, <1>3, <3>1, <3>2
  <2>2. CASE avail < decoder.left
    <3> DEFINE l == decoder.left - n
    <3>1. decoder' = [decoder EXCEPT !.left = l] /\ n # decoder.left
      BY Zenon, <1>5, <1>6, <2>2
    <3>2. l \in Sizes /\ l > 0
      BY <1>3, <1>5, <2>1, <3>1
    <3> HIDE DEF l
    <3>3. [decoder EXCEPT !.left = l] = [state |-> decoder.state, left |-> l, hex |-> decoder.hex]
      BY Zenon, <1>2, <2>1, <3>2, DecoderWith
    <3>4. [state |-> "DATA", left |-> l, hex |-> decoder.hex] \in Decoder
      BY Zenon, <1>2, <2>1, <3>2, DecoderWith
    <3>5. decoder' = [state |-> "DATA", left |-> l, hex |-> 0] /\ decoder' \in Decoder
      BY Zenon, <1>1, <1>3, <3>1, <3>3, <3>4
    <3>6. decoder'.state = "DATA" /\ decoder'.left = l /\ decoder'.hex = 0
      BY <3>5
    <3>7. SizeRight(decoder')
      BY <3>2, <3>6 DEF SizeRight
    <3> QED BY Zenon, <3>1, <3>5, <3>6, <3>7 DEF l
  <2>3. CASE ~(avail < decoder.left)
    <3>1. decoder' = [decoder EXCEPT !.left = 0, !.state = "CRLF"] /\ n = decoder.left
      BY Zenon, <1>5, <1>6, <2>3
    <3>2. [decoder EXCEPT !.left = 0, !.state = "CRLF"]
            = [state |-> "CRLF", left |-> 0, hex |-> decoder.hex]
      BY Zenon, <1>2, <2>1, DecoderWith
    <3>3. [state |-> "CRLF", left |-> 0, hex |-> decoder.hex] \in Decoder
      BY Zenon, <1>2, <2>1, DecoderWith
    <3>4. decoder' = [state |-> "CRLF", left |-> 0, hex |-> 0] /\ decoder' \in Decoder
      BY Zenon, <1>3, <3>1, <3>2, <3>3
    <3>5. decoder'.state = "CRLF" /\ decoder'.left = 0 /\ decoder'.hex = 0
      BY <3>4
    <3>6. SizeRight(decoder')
      BY <3>5 DEF SizeRight
    <3>7. decoder.left - n = 0
      BY <1>3, <3>1
    <3> QED BY Zenon, <3>1, <3>4, <3>5, <3>6, <3>7
  <2> QED BY Zenon, <2>2, <2>3
<1>13. TypeOK'
  <2>1. src' \in 0 .. Len(buf') /\ dst' \in 0 .. src'
    BY <1>1, <1>4, <1>5, <1>7
  <2>2. ret' = -2 /\ pc' \in {"call", "caller"}
    BY Zenon, <1>1, <1>2, <1>6
  <2>3. -2 \in Int
    OBVIOUS
  <2>4. {rest', buf', got'} \subseteq Seq(Chars)
    BY Zenon, <1>1, <1>7 DEF IndInv, TypeOK
  <2> QED BY Zenon, <1>12, <2>1, <2>2, <2>3, <2>4 DEF TypeOK
<1>14. StreamInv'
  <2>1. \A i \in src + 1 .. Len(buf) : buf[i] = msg.bytes[Taken + i]
    BY Zenon, <1>1 DEF IndInv, StreamInv
  <2>2. \A i \in (src + n) + 1 .. Len(buf) : i \in src + 1 .. Len(buf)
    BY <1>4, <1>5
  <2>3. \A i \in src' + 1 .. Len(buf') : buf'[i] = msg'.bytes[Taken' + i]
    BY Zenon, <1>1, <1>7, <1>9, <2>1, <2>2
  <2> QED BY Zenon, <1>1, <1>7, <1>9, <2>3 DEF IndInv, StreamInv
<1>15. BodyInv'
  <2>1. /\ Len(got) + dst = Here.body /\ Here.body <= Len(msg.body)
        /\ \A i \in 1 .. Len(got) : got[i] = msg.body[i]
        /\ \A i \in 1 .. dst : buf[i] = msg.body[Len(got) + i]
    BY Zenon DEF IndInv, BodyInv
  <2>2. Len(got) + (dst + n) = Here.body + n
    BY <1>4, <1>5, <2>1
  <2>3. ASSUME NEW i \in 1 .. dst + n
        PROVE  buf'[i] = msg.body[Len(got) + i]
    <3>1. CASE i \in 1 .. dst
      BY Zenon, <1>7, <2>1, <3>1
    <3>2. CASE i \notin 1 .. dst
      <4>1. PICK j \in 1 .. n : i = dst + j /\ Here.body + j = Len(got) + i
        <5> DEFINE j == i - dst
        <5>1. i - dst \in 1 .. n /\ i = dst + (i - dst)
          BY <1>4, <1>5, <3>2
        <5>2. Here.body + (i - dst) = Len(got) + i
          BY <1>4, <2>1, <5>1
        <5> QED BY Zenon, <5>1, <5>2
      <4> QED BY Zenon, <1>7, <1>8, <4>1
    <3> QED BY Zenon, <3>1, <3>2
  <2> QED BY Zenon, <1>1, <1>8, <1>11, <2>1, <2>2, <2>3 DEF BodyInv
<1>16. ResultInv'
  <2>1. ret' = -2 /\ (pc' = "caller" => src' = Len(buf'))
    <3>1. pc # "caller"
      BY <1>1
    <3> QED BY Zenon, <1>1, <1>2, <1>5, <1>6, <1>7, <3>1
  <2>2. ret' >= -2 /\ ~(ret' = -1) /\ ~(ret' >= 0)
    BY <2>1
  <2>3. Agree(decoder', Here')
    <3>1. decoder'.left = Here'.size /\ decoder'.hex = Here'.digits
      BY Zenon, <1>8, <1>11, <1>12
    <3>2. \/ Here'.at = "crlf" /\ decoder'.state = "CRLF"
          \/ Here'.at = "data" /\ decoder'.state = "DATA"
      BY Zenon, <1>8, <1>11, <1>12
    <3>3. <<Here'.at, decoder'.state>> \in SameState
      BY <3>2 DEF SameState
    <3> QED BY Zenon, <3>1, <3>3 DEF Agree
  <2> QED BY Zenon, <2>1, <2>2, <2>3 DEF ResultInv, Agree
<1> QED BY Zenon, <1>12, <1>13, <1>14, <1>15, <1>16 DEF IndInv, SizeRight

\* p is the part of s from a to b; j is t behind s.
IsPart(p, s, a, b) ==
  Len(p) = b - a + 1 /\ \A i \in 1 .. b - a + 1 : p[i] = s[a + i - 1]
IsJoin(j, s, t) ==
  /\ Len(j) = Len(s) + Len(t)
  /\ \A i \in 1 .. Len(s) : j[i] = s[i]
  /\ \A i \in 1 .. Len(t) : j[Len(s) + i] = t[i]

\* The part of a sequence from a to b.
LEMMA PartFacts ==
  ASSUME NEW S, NEW s \in Seq(S), NEW a \in 1 .. Len(s) + 1, NEW b \in a - 1 .. Len(s)
  PROVE  SubSeq(s, a, b) \in Seq(S) /\ IsPart(SubSeq(s, a, b), s, a, b)
<1>1. Len(s) \in Nat /\ \A i \in 1 .. Len(s) : s[i] \in S
  OBVIOUS
<1>2. /\ b - a + 1 \in Nat
      /\ \A i \in 1 .. b - a + 1 : a + i - 1 \in 1 .. Len(s)
  BY <1>1
<1>3. SubSeq(s, a, b) = [i \in 1 .. b - a + 1 |-> s[a + i - 1]]
  BY <1>1, <1>2
<1>4. [i \in 1 .. b - a + 1 |-> s[a + i - 1]] \in [1 .. b - a + 1 -> S]
  BY <1>1, <1>2
<1> QED BY <1>2, <1>3, <1>4, AsSequence DEF IsPart

\* One sequence behind another.
LEMMA JoinFacts ==
  ASSUME NEW S, NEW s \in Seq(S), NEW t \in Seq(S)
  PROVE  s \o t \in Seq(S) /\ IsJoin(s \o t, s, t)
BY DEF IsJoin

\* Sequences of the same elements are the same.
LEMMA SameElements ==
  ASSUME NEW S, NEW s \in Seq(S), NEW t \in Seq(S), Len(s) = Len(t),
         \A i \in 1 .. Len(s) : s[i] = t[i]
  PROVE  s = t
OBVIOUS

\* What has been decoded, in terms of the body.
LEMMA DecodedFacts ==
  ASSUME IndInv
  PROVE  /\ Decoded \in Seq(Chars) /\ Len(Decoded) = Here.body
         /\ \A i \in 1 .. Len(Decoded) : Decoded[i] = msg.body[i]
<1> DEFINE part == SubSeq(buf, 1, dst)
<1>1. got \in Seq(Chars) /\ buf \in Seq(Chars)
  BY Zenon DEF IndInv, TypeOK
<1>2. /\ dst \in Nat /\ dst <= Len(buf) /\ Len(buf) \in Nat /\ Len(got) \in Nat
  BY StateFacts
<1>3. /\ Len(got) + dst = Here.body
      /\ \A i \in 1 .. Len(got) : got[i] = msg.body[i]
      /\ \A i \in 1 .. dst : buf[i] = msg.body[Len(got) + i]
  BY Zenon DEF IndInv, BodyInv
<1>4. /\ 1 \in 1 .. Len(buf) + 1 /\ dst \in 1 - 1 .. Len(buf) /\ dst - 1 + 1 = dst
      /\ \A i \in 1 .. dst : 1 + i - 1 = i
  BY <1>2
<1>5. part \in Seq(Chars) /\ Len(part) = dst /\ \A i \in 1 .. dst : part[i] = buf[i]
  <2>1. part \in Seq(Chars) /\ IsPart(part, buf, 1, dst)
    BY Zenon, <1>1, <1>4, PartFacts
  <2> QED BY Zenon, <1>4, <2>1 DEF IsPart
<1> HIDE DEF part
<1>6. /\ got \o part \in Seq(Chars) /\ Len(got \o part) = Len(got) + Len(part)
      /\ \A i \in 1 .. Len(got) : (got \o part)[i] = got[i]
      /\ \A i \in 1 .. Len(part) : (got \o part)[Len(got) + i] = part[i]
  <2>1. got \o part \in Seq(Chars) /\ IsJoin(got \o part, got, part)
    BY Zenon, <1>1, <1>5, JoinFacts
  <2> QED BY Zenon, <2>1 DEF IsJoin
<1>7. Decoded = got \o part
  BY Zenon DEF Decoded, part
<1>8. Decoded \in Seq(Chars) /\ Len(Decoded) = Here.body /\ Len(Decoded) = Len(got) + dst
  BY Zenon, <1>3, <1>5, <1>6, <1>7
<1>9. ASSUME NEW i \in 1 .. Len(got) + dst
      PROVE  Decoded[i] = msg.body[i]
  <2>1. CASE i \in 1 .. Len(got)
    BY Zenon, <1>3, <1>6, <1>7, <2>1
  <2>2. CASE i \notin 1 .. Len(got)
    <3>1. i - Len(got) \in 1 .. dst /\ i = Len(got) + (i - Len(got))
      BY <1>2, <2>2
    <3>2. PICK j \in 1 .. dst : i = Len(got) + j
      BY Zenon, <3>1
    <3>3. Decoded[Len(got) + j] = part[j] /\ part[j] = buf[j]
          /\ buf[j] = msg.body[Len(got) + j]
      BY Zenon, <1>3, <1>5, <1>6, <1>7
    <3> QED BY Zenon, <3>2, <3>3
  <2> QED BY Zenon, <2>1, <2>2
<1> QED BY Zenon, <1>8, <1>9

LEMMA SupplyKeeps ==
  ASSUME IndInv, NEW n \in 1 .. Len(rest), Supply(n)
  PROVE  IndInv'
<1>1. /\ pc = "caller" /\ ret = -2 /\ got' = Decoded
      /\ buf' = SubSeq(rest, 1, n) /\ rest' = SubSeq(rest, n + 1, Len(rest))
      /\ src' = 0 /\ dst' = 0 /\ pc' = "call"
      /\ msg' = msg /\ decoder' = decoder /\ ret' = ret
  BY Zenon DEF Supply, Decoded
<1>2. /\ rest \in Seq(Chars) /\ Len(rest) \in Nat /\ Len(buf) \in Nat /\ Taken \in Nat
      /\ Len(msg.bytes) \in Nat /\ msg \in Messages /\ Place = Taken + src
      /\ Taken + Len(buf) + Len(rest) = Len(msg.bytes)
  BY Zenon, StateFacts DEF IndInv, TypeOK
<1>3. src = Len(buf)
  BY Zenon, <1>1 DEF IndInv, ResultInv
<1>4. /\ n \in Nat /\ 1 \in 1 .. Len(rest) + 1 /\ n \in 1 - 1 .. Len(rest)
      /\ n + 1 \in 1 .. Len(rest) + 1 /\ Len(rest) \in (n + 1) - 1 .. Len(rest)
      /\ n - 1 + 1 = n /\ Len(rest) - (n + 1) + 1 = Len(rest) - n
      /\ \A i \in 1 .. n : 1 + i - 1 = i
      /\ \A i \in 1 .. Len(rest) - n : (n + 1) + i - 1 = n + i /\ n + i \in 1 .. Len(rest)
      /\ \A i \in 1 .. n : i \in 1 .. Len(rest)
  BY <1>2
<1>5. buf' \in Seq(Chars) /\ Len(buf') = n /\ \A i \in 1 .. n : buf'[i] = rest[i]
  <2>1. buf' \in Seq(Chars) /\ IsPart(buf', rest, 1, n)
    BY Zenon, <1>1, <1>2, <1>4, PartFacts
  <2> QED BY Zenon, <1>4, <2>1 DEF IsPart
<1>6. /\ rest' \in Seq(Chars) /\ Len(rest') = Len(rest) - n
      /\ \A i \in 1 .. Len(rest) - n : rest'[i] = rest[n + i]
  <2>1. rest' \in Seq(Chars) /\ IsPart(rest', rest, n + 1, Len(rest))
    BY Zenon, <1>1, <1>2, <1>4, PartFacts
  <2> QED BY Zenon, <1>4, <2>1 DEF IsPart
<1>7. Taken' = Taken + Len(buf) /\ Taken' \in Nat
  <2>1. Taken' = Len(msg.bytes) - (Len(rest) - n) - n
    BY Zenon, <1>1, <1>5, <1>6 DEF Taken
  <2> DEFINE l == Len(buf)
             b == Len(msg.bytes)
             e == Len(rest)
  <2>2. l \in Nat /\ b \in Nat /\ e \in Nat /\ Taken + l + e = b
    BY Zenon, <1>2
  <2> HIDE DEF l, b, e
  <2>3. b - (e - n) - n = Taken + l /\ Taken + l \in Nat
    BY <1>2, <1>4, <2>2
  <2> QED BY Zenon, <2>1, <2>3 DEF l, b, e
<1>8. Place' = Place
  <2>1. Place' = Taken' + 0
    BY Zenon, <1>1 DEF Place
  <2> QED BY <1>2, <1>3, <1>7, <2>1
<1>9. Run' = Run /\ Here' = Here
  BY Zenon, <1>1, <1>8 DEF Run, Here
<1>10. got' \in Seq(Chars) /\ Len(got') = Here.body
       /\ \A i \in 1 .. Len(got') : got'[i] = msg.body[i]
  BY Zenon, <1>1, DecodedFacts
<1>11. TypeOK'
  <2>1. 0 \in 0 .. 0 /\ 0 \in 0 .. n
    BY <1>4
  <2>2. {rest', buf', got'} \subseteq Seq(Chars)
    BY Zenon, <1>5, <1>6, <1>10
  <2>3. pc' \in {"call", "caller"}
    BY <1>1
  <2> QED BY Zenon, <1>1, <1>5, <2>1, <2>2, <2>3 DEF IndInv, TypeOK
<1>12. SizeRight(decoder)'
  BY Zenon, <1>1 DEF IndInv, SizeRight
<1>13. StreamInv'
  <2>1. \A i \in 1 .. Len(rest) : rest[i] = msg.bytes[Taken + Len(buf) + i]
    BY Zenon DEF IndInv, StreamInv
  <2>2. \A i \in 0 + 1 .. n : buf'[i] = msg.bytes[Taken' + i]
    <3>1. 0 + 1 = 1
      OBVIOUS
    <3> QED BY Zenon, <1>4, <1>5, <1>7, <2>1, <3>1
  <2>3. ASSUME NEW i \in 1 .. Len(rest) - n
        PROVE  rest'[i] = msg.bytes[Taken' + n + i]
    <3>1. rest'[i] = rest[n + i] /\ n + i \in 1 .. Len(rest)
      BY Zenon, <1>4, <1>6
    <3>2. rest[n + i] = msg.bytes[Taken + Len(buf) + (n + i)]
      BY Zenon, <2>1, <3>1
    <3>3. Taken + Len(buf) + (n + i) = Taken' + n + i
      BY <1>2, <1>4, <1>7
    <3> QED BY Zenon, <3>1, <3>2, <3>3
  <2> QED BY Zenon, <1>1, <1>2, <1>5, <1>6, <1>7, <2>2, <2>3 DEF StreamInv
<1>14. BodyInv'
  <2>1. Len(got') + 0 = Here.body
    <3>1. Here \in Position
      BY Zenon, StateFacts
    <3>2. Here.body \in Nat
      BY <3>1 DEF Position
    <3> QED BY <1>10, <3>2
  <2>2. ~(\E i \in 1 .. 0 : TRUE)
    OBVIOUS
  <2>3. Here.body <= Len(msg.body)
    BY Zenon DEF IndInv, BodyInv
  <2> QED BY Zenon, <1>1, <1>9, <1>10, <2>1, <2>2, <2>3 DEF BodyInv
<1>15. ResultInv'
  <2>1. Agree(decoder, Here)
    <3>1. pc # "call"
      BY <1>1
    <3> QED BY Zenon, <1>1, <3>1 DEF IndInv, ResultInv, Turned
  <2>2. ret' = -2 /\ ret' >= -2 /\ ~(ret' = -1) /\ ~(ret' >= 0) /\ pc' # "caller"
    BY <1>1
  <2>3. Agree(decoder', Here')
    BY Zenon, <1>1, <1>9, <2>1
  <2> QED BY Zenon, <2>2, <2>3 DEF ResultInv, Agree
<1> QED BY Zenon, <1>11, <1>12, <1>13, <1>14, <1>15 DEF IndInv

LEMMA InitInv ==
  ASSUME Init
  PROVE  IndInv
<1>1. /\ msg \in Messages /\ rest = msg.bytes /\ buf = << >> /\ src = 0 /\ dst = 0
      /\ decoder = [state |-> "SIZE", left |-> 0, hex |-> 0]
      /\ ret = -2 /\ pc = "caller" /\ got = << >>
  BY Zenon DEF Init
<1>2. /\ msg.bytes \in Seq(Chars) /\ msg.body \in Seq(Chars) /\ Run[0] = Start
  BY Zenon, <1>1, MessageFacts DEF Run
<1>3. /\ buf \in Seq(Chars) /\ got \in Seq(Chars) /\ Len(buf) = 0 /\ Len(got) = 0
  BY <1>1
<1>4. Len(msg.bytes) \in Nat /\ Len(msg.body) \in Nat
  BY <1>2
<1>5. Taken = 0
  <2>1. Taken = Len(msg.bytes) - Len(msg.bytes) - 0
    BY Zenon, <1>1, <1>3 DEF Taken
  <2> QED BY <1>4, <2>1
<1>6. Place = 0
  <2>1. Place = 0 + 0
    BY Zenon, <1>1, <1>5 DEF Place
  <2> QED BY <2>1
<1>7. Here = Start
  BY Zenon, <1>2, <1>6 DEF Here
<1>8. HexMax \in Nat /\ 2 ^ (4 * HexMax) \in Nat /\ 2 ^ (4 * HexMax) > 0
  <2>1. HexMax \in Nat /\ 4 * HexMax \in Nat /\ 4 * 0 = 0 /\ 0 \in 0 .. HexMax
    BY CharsAssumption
  <2>2. 2 ^ (4 * HexMax) \in Nat
    BY Zenon, <2>1, PowerCounts
  <2>3. 2 ^ (4 * 0) <= 2 ^ (4 * HexMax)
    BY Zenon, <2>1, PowerGrows
  <2>4. 2 ^ (4 * 0) = 1
    OBVIOUS
  <2> QED BY <2>1, <2>2, <2>3, <2>4
<1>9. TypeOK
  <2>1. decoder \in Decoder
    <3>1. 0 \in Sizes /\ 0 \in 0 .. HexMax
      BY <1>8 DEF Sizes
    <3> DEFINE H == 0 .. HexMax
    <3>2. 0 \in H
      BY Zenon, <3>1
    <3> HIDE DEF H
    <3>3. decoder \in [state : DecoderStates, left : Sizes, hex : H]
      BY <1>1, <3>1, <3>2 DEF DecoderStates
    <3> QED BY Zenon, <3>3 DEF H, Decoder, DecoderStates, Sizes
  <2>2. src \in 0 .. Len(buf) /\ dst \in 0 .. src /\ ret \in Int /\ pc \in {"call", "caller"}
    BY <1>1, <1>3
  <2> QED BY Zenon, <1>1, <1>2, <1>3, <2>1, <2>2 DEF TypeOK
<1>10. SizeRight(decoder)
  <2>1. decoder.state = "SIZE" /\ decoder.left = 0 /\ decoder.hex = 0
    BY <1>1
  <2>2. 0 < 2 ^ (4 * 0)
    OBVIOUS
  <2>3. decoder.state # "DATA"
        /\ decoder.state \notin {"CRLF", "TRAILERS_HEAD", "TRAILERS_MIDDLE"}
    BY <2>1
  <2> QED BY Zenon, <2>1, <2>2, <2>3 DEF SizeRight
<1>11. StreamInv
  <2>1. Taken \in Nat /\ pc # "call"
    BY <1>1, <1>5
  <2>2. \A i \in 1 .. Len(rest) : Taken + Len(buf) + i = i
    BY <1>1, <1>3, <1>4, <1>5
  <2>3. \A i \in 1 .. Len(rest) : rest[i] = msg.bytes[Taken + Len(buf) + i]
    BY Zenon, <1>1, <2>2
  <2> QED BY Zenon, <1>1, <2>1, <2>3 DEF StreamInv
<1>12. BodyInv
  <2>1. Here.body = 0 /\ Len(got) + dst = 0 /\ 0 <= Len(msg.body)
    BY <1>1, <1>3, <1>4, <1>7 DEF Start
  <2>2. ~(\E i \in 1 .. 0 : TRUE)
    OBVIOUS
  <2> QED BY Zenon, <1>1, <1>3, <2>1, <2>2 DEF BodyInv
<1>13. ResultInv
  <2>1. Agree(decoder, Here)
    BY <1>1, <1>7 DEF Agree, SameState, Start
  <2>2. ret = -2 /\ ret >= -2 /\ ~(ret = -1) /\ ~(ret >= 0) /\ pc # "call" /\ src = Len(buf)
    BY <1>1, <1>3
  <2> QED BY Zenon, <2>1, <2>2 DEF ResultInv
<1> QED BY Zenon, <1>9, <1>10, <1>11, <1>12, <1>13 DEF IndInv

LEMMA NextInv ==
  ASSUME IndInv, [Next]_vars
  PROVE  IndInv'
<1>1. ASSUME NEW n \in 1 .. Len(rest), Supply(n)
      PROVE  IndInv'
  BY Zenon, <1>1, SupplyKeeps
<1>2. CASE UsedUp
  BY Zenon, <1>2, UsedUpKeeps
<1>3. CASE ChunkSize
  BY Zenon, <1>3, ChunkSizeKeeps
<1>4. CASE ChunkExt
  BY Zenon, <1>4, ChunkExtKeeps
<1>5. CASE ChunkData
  BY Zenon, <1>5, ChunkDataKeeps
<1>6. CASE ChunkCrlf
  BY Zenon, <1>6, ChunkCrlfKeeps
<1>7. CASE TrailersHead
  BY Zenon, <1>7, TrailersHeadKeeps
<1>8. CASE TrailersMiddle
  BY Zenon, <1>8, TrailersMiddleKeeps
<1>9. CASE UNCHANGED vars
  <2>1. /\ msg' = msg /\ rest' = rest /\ buf' = buf /\ src' = src /\ dst' = dst
        /\ decoder' = decoder /\ ret' = ret /\ pc' = pc /\ got' = got
    BY Zenon, <1>9 DEF vars
  <2>2. /\ Taken' = Taken /\ Place' = Place /\ Run' = Run /\ Here' = Here
        /\ Current' = Current
    BY Zenon, <2>1 DEF Taken, Place, Run, Here, Current
  <2>3. TypeOK' /\ SizeRight(decoder)'
    BY Zenon, <2>1 DEF IndInv, TypeOK, SizeRight
  <2>4. StreamInv' /\ BodyInv'
    BY Zenon, <2>1, <2>2 DEF IndInv, StreamInv, BodyInv
  <2>5. ResultInv'
    BY Zenon, <2>1, <2>2 DEF IndInv, ResultInv, Agree, Turned
  <2> QED BY Zenon, <2>3, <2>4, <2>5 DEF IndInv
<1> QED BY Zenon, <1>1, <1>2, <1>3, <1>4, <1>5, <1>6, <1>7, <1>8, <1>9
        DEF Next, phr_decode_chunked

------------------------------------------------------------------------------
(* The theorems *)

\* The inductive invariant holds of every behaviour of the decoder.
THEOREM Invariance == Spec => []IndInv
<1>1. Init => IndInv
  BY Zenon, InitInv
<1>2. IndInv /\ [Next]_vars => IndInv'
  BY Zenon, NextInv
<1> QED BY <1>1, <1>2, PTL DEF Spec

LEMMA BodyDecoded ==
  ASSUME IndInv
  PROVE  DecodesBody
<1> DEFINE n == Len(Decoded)
           part == SubSeq(msg.body, 1, n)
<1>1. /\ Decoded \in Seq(Chars) /\ \A i \in 1 .. n : Decoded[i] = msg.body[i]
      /\ n <= Len(msg.body) /\ msg \in Messages
  BY Zenon, DecodedFacts, StateFacts DEF IndInv, BodyInv
<1>2. msg.body \in Seq(Chars)
  BY Zenon, <1>1, MessageFacts
<1>3. n \in Nat /\ Len(msg.body) \in Nat
  BY <1>1, <1>2
<1>4. /\ 1 \in 1 .. Len(msg.body) + 1 /\ n \in 1 - 1 .. Len(msg.body) /\ n - 1 + 1 = n
      /\ \A i \in 1 .. n : 1 + i - 1 = i
  BY <1>1, <1>3
<1>5. part \in Seq(Chars) /\ IsPart(part, msg.body, 1, n)
  BY Zenon, <1>2, <1>4, PartFacts
<1>6. Len(part) = n /\ \A i \in 1 .. n : part[i] = Decoded[i]
  BY Zenon, <1>1, <1>4, <1>5 DEF IsPart
<1>7. Decoded = part
  BY Zenon, <1>1, <1>5, <1>6, SameElements
<1>8. TypeOK
  BY Zenon DEF IndInv
<1> QED BY Zenon, <1>1, <1>7, <1>8 DEF DecodesBody

LEMMA TailLeft ==
  ASSUME IndInv
  PROVE  CompleteLeavesTail
<1> SUFFICES ASSUME ret >= 0
             PROVE  /\ Decoded = msg.body
                    /\ SubSeq(buf, dst + 1, dst + ret) \o rest = msg.tail
  BY Zenon DEF CompleteLeavesTail
<1> DEFINE left == SubSeq(buf, dst + 1, dst + ret)
           n == Len(msg.bytes)
           tail == SubSeq(msg.bytes, Place + 1, n)
<1>1. /\ Place > 0 /\ Here.at = "done" /\ Run[Place - 1].at # "done"
      /\ ret = Len(buf) - src
      /\ \A i \in 1 .. ret : buf[dst + i] = msg.bytes[Place + i]
  BY Zenon DEF IndInv, ResultInv
<1>2. /\ msg \in Messages /\ buf \in Seq(Chars) /\ rest \in Seq(Chars)
      /\ msg.bytes \in Seq(Chars) /\ msg.body \in Seq(Chars)
  BY Zenon, StateFacts, MessageFacts DEF IndInv, TypeOK
<1>3. /\ n \in Nat /\ Len(buf) \in Nat /\ Len(rest) \in Nat /\ src \in Nat /\ dst \in Nat
      /\ dst <= src /\ src <= Len(buf) /\ Taken \in Nat /\ Place \in Nat
      /\ Place = Taken + src /\ Taken + Len(buf) + Len(rest) = n /\ Place <= n
  BY Zenon, StateFacts
<1>4. Here.body = Len(msg.body) /\ msg.tail = tail
  <2>1. Place \in 1 .. n
    BY <1>1, <1>3
  <2>2. \A k \in 1 .. n : Run[k].at = "done" /\ Run[k - 1].at # "done" =>
          Run[k].body = Len(msg.body) /\ msg.tail = SubSeq(msg.bytes, k + 1, n)
    BY Zenon, <1>2, MessageFacts DEF IsMeaning, Run
  <2> QED BY Zenon, <1>1, <2>1, <2>2 DEF Here
<1>5. Decoded = msg.body
  <2>1. /\ Decoded \in Seq(Chars) /\ Len(Decoded) = Len(msg.body)
        /\ \A i \in 1 .. Len(Decoded) : Decoded[i] = msg.body[i]
    BY Zenon, <1>4, DecodedFacts
  <2> QED BY Zenon, <1>2, <2>1, SameElements
<1>6. /\ ret \in Nat /\ Place + ret = Taken + Len(buf) /\ ret + Len(rest) = n - Place
      /\ dst + 1 \in 1 .. Len(buf) + 1 /\ dst + ret \in (dst + 1) - 1 .. Len(buf)
      /\ (dst + ret) - (dst + 1) + 1 = ret
      /\ \A i \in 1 .. ret : (dst + 1) + i - 1 = dst + i
      /\ Place + 1 \in 1 .. n + 1 /\ n \in (Place + 1) - 1 .. n
      /\ n - (Place + 1) + 1 = n - Place
      /\ \A i \in 1 .. n - Place : (Place + 1) + i - 1 = Place + i
  <2> DEFINE l == Len(buf)
             e == Len(rest)
  <2>1. /\ l \in Nat /\ e \in Nat /\ src <= l /\ Taken + l + e = n /\ ret = l - src
    BY Zenon, <1>1, <1>3
  <2> HIDE DEF l, e, n
  <2>2. /\ ret \in Nat /\ Place + ret = Taken + l /\ ret + e = n - Place
        /\ dst + 1 \in 1 .. l + 1 /\ dst + ret \in (dst + 1) - 1 .. l
        /\ (dst + ret) - (dst + 1) + 1 = ret
        /\ \A i \in 1 .. ret : (dst + 1) + i - 1 = dst + i
        /\ Place + 1 \in 1 .. n + 1 /\ n \in (Place + 1) - 1 .. n
        /\ n - (Place + 1) + 1 = n - Place
        /\ \A i \in 1 .. n - Place : (Place + 1) + i - 1 = Place + i
    BY <1>3, <2>1
  <2> QED BY Zenon, <2>2 DEF l, e
<1>7. /\ left \in Seq(Chars) /\ Len(left) = ret
      /\ \A i \in 1 .. ret : left[i] = msg.bytes[Place + i]
  <2>1. left \in Seq(Chars) /\ IsPart(left, buf, dst + 1, dst + ret)
    BY Zenon, <1>2, <1>6, PartFacts
  <2> QED BY Zenon, <1>1, <1>6, <2>1 DEF IsPart
<1>8. /\ tail \in Seq(Chars) /\ Len(tail) = n - Place
      /\ \A i \in 1 .. n - Place : tail[i] = msg.bytes[Place + i]
  <2>1. tail \in Seq(Chars) /\ IsPart(tail, msg.bytes, Place + 1, n)
    BY Zenon, <1>2, <1>6, PartFacts
  <2> QED BY Zenon, <1>6, <2>1 DEF IsPart
<1> HIDE DEF left, tail, n
<1>9. left \o rest \in Seq(Chars) /\ IsJoin(left \o rest, left, rest)
  BY Zenon, <1>2, <1>7, JoinFacts
<1> DEFINE all == left \o rest
<1>10. /\ all \in Seq(Chars) /\ Len(all) = n - Place
       /\ \A i \in 1 .. ret : all[i] = msg.bytes[Place + i]
       /\ \A i \in 1 .. Len(rest) : all[ret + i] = rest[i]
  BY Zenon, <1>6, <1>7, <1>9 DEF IsJoin
<1> HIDE DEF all
<1>11. ASSUME NEW i \in 1 .. n - Place
       PROVE  all[i] = tail[i]
  <2>1. CASE i \in 1 .. ret
    BY Zenon, <1>8, <1>10, <2>1
  <2>2. CASE i \notin 1 .. ret
    <3>1. i - ret \in 1 .. Len(rest) /\ i = ret + (i - ret)
      BY <1>3, <1>6, <2>2
    <3>2. PICK j \in 1 .. Len(rest) : i = ret + j
      BY Zenon, <3>1
    <3>3. all[i] = rest[j]
      BY Zenon, <1>10, <3>2
    <3>4. rest[j] = msg.bytes[Taken + Len(buf) + j]
      BY Zenon DEF IndInv, StreamInv
    <3>5. Taken + Len(buf) + j = Place + i
      BY <1>3, <1>6, <3>2
    <3> QED BY Zenon, <1>8, <3>3, <3>4, <3>5
  <2> QED BY Zenon, <2>1, <2>2
<1>12. all = tail
  BY Zenon, <1>8, <1>10, <1>11, SameElements
<1> QED BY Zenon, <1>4, <1>5, <1>12 DEF all, left

LEMMA VerdictHolds ==
  ASSUME IndInv
  PROVE  VerdictRight
<1> DEFINE n == Len(msg.bytes)
<1>1. /\ msg \in Messages /\ n \in Nat /\ Place \in Nat /\ Place <= n /\ src <= Len(buf)
      /\ Place = Taken + src /\ Taken + Len(buf) + Len(rest) = n
      /\ Taken \in Nat /\ Len(buf) \in Nat
  BY Zenon, StateFacts
<1>2. /\ Run[n].at = IF msg.ok THEN "done" ELSE "bad"
      /\ msg.ok \in BOOLEAN
  BY Zenon, <1>1, MessageFacts DEF IsMeaning, Run
<1>3. ASSUME ret = -1
      PROVE  ~msg.ok
  <2>1. Place < n /\ Run[Place + 1].at = "bad"
    BY Zenon, <1>3 DEF IndInv, ResultInv
  <2>2. Place + 1 \in 0 .. n /\ Run[Place + 1].at \in {"done", "bad"}
    BY <1>1, <2>1
  <2>3. Run[n].at = "bad"
    BY Zenon, <1>1, <2>1, <2>2, EndStays DEF Run
  <2> QED BY <1>2, <2>3
<1>4. ASSUME ret >= 0
      PROVE  msg.ok
  <2>1. Here.at = "done"
    BY Zenon, <1>4 DEF IndInv, ResultInv
  <2>2. Place \in 0 .. n /\ Run[Place].at \in {"done", "bad"}
    BY <1>1, <2>1 DEF Here
  <2>3. Run[n].at = "done"
    BY Zenon, <1>1, <2>1, <2>2, EndStays DEF Run, Here
  <2> QED BY <1>2, <2>3
<1>5. ASSUME pc = "caller", rest = << >>, ret = -2
      PROVE  FALSE
  <2>1. src = Len(buf)
    BY Zenon, <1>5 DEF IndInv, ResultInv
  <2>2. Len(rest) = 0
    BY <1>5
  <2>3. Place = n
    BY <1>1, <2>1, <2>2
  <2>4. Agree(decoder, Here)
    <3>1. pc # "call"
      BY <1>5
    <3> QED BY Zenon, <1>5, <3>1 DEF IndInv, ResultInv, Turned
  <2>5. Here.at \notin {"done", "bad"}
    BY <2>4 DEF Agree, SameState
  <2>6. Run[n].at \in {"done", "bad"}
    BY <1>2
  <2> QED BY Zenon, <2>3, <2>5, <2>6 DEF Here
<1> QED BY Zenon, <1>3, <1>4, <1>5 DEF VerdictRight

(***************************************************************************)
(* However a message is cut into segments, the bytes phr_decode_chunked    *)
(* has left in front of dst, call after call, are the first bytes of the   *)
(* body that reading the message byte by byte gives; dst never overtakes   *)
(* src, and bytes_left_in_chunk fits a size_t.                             *)
(***************************************************************************)
THEOREM BodyCorrect == Spec => []DecodesBody
BY Invariance, BodyDecoded, PTL

(***************************************************************************)
(* A non-negative result comes exactly with the whole body, and it counts  *)
(* the bytes behind the data that follow the end of the coding.            *)
(***************************************************************************)
THEOREM TailCorrect == Spec => []CompleteLeavesTail
BY Invariance, TailLeft, PTL

(***************************************************************************)
(* The segments have no say in the verdict: -1 only for a message that is  *)
(* not well formed, a count only for one that is, and -2 no more once all  *)
(* of the message is supplied.                                             *)
(***************************************************************************)
THEOREM VerdictCorrect == Spec => []VerdictRight
BY Invariance, VerdictHolds, PTL

==============================================================================
