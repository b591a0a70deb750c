----------------------------- MODULE RingLemmas ------------------------------
(***************************************************************************)
(* What both queues' proofs need of a ring of n slots: the arithmetic of   *)
(* "& mask" (srsw_queue.c) and "% max_size" (mrmw_queue.c), and how a      *)
(* store, a push and a pop change the payloads between the two offsets.    *)
(***************************************************************************)
EXTENDS Naturals, Sequences, SequenceTheorems, TLAPS

\* A ring of n slots that hold elements of T.
Ring(T, n) == [0 .. n - 1 -> T]

\* The k payloads of the ring b of n slots from the offset j on, oldest first.
InRing(b, n, j, k) == [i \in 1 .. k |-> b[(j + i - 1) % n]]

\* The slot s is none of the k slots from the offset j on.
Unused(n, j, k, s) == \A i \in 0 .. k - 1 : (j + i) % n # s

\* The ring after a store of v into the slot s.
Stored(b, s, v) == [b EXCEPT ![s] = v]

\* a % n for an offset that has gone round the ring at most once.
Once(a, n) == IF a < n THEN a ELSE a - n

\* An offset goes round the ring at most once in any of the sums below.
LEMMA Wrap ==
  ASSUME NEW n \in Nat \ {0}, NEW a \in 0 .. 2 * n - 1
  PROVE  a % n = Once(a, n)
BY DEF Once

\* The payloads are a sequence, of as many as are asked for.
LEMMA InRingSeq ==
  ASSUME NEW T, NEW n \in Nat \ {0}, NEW b \in Ring(T, n),
         NEW j \in 0 .. n - 1, NEW k \in 0 .. n
  PROVE  /\ InRing(b, n, j, k) \in Seq(T)
         /\ Len(InRing(b, n, j, k)) = k
<1>1. \A i \in 1 .. k : (j + i - 1) % n \in 0 .. n - 1
  <2> TAKE i \in 1 .. k
  <2>1. j + i - 1 \in 0 .. 2 * n - 1
    OBVIOUS
  <2>2. (j + i - 1) % n = Once(j + i - 1, n)
    BY <2>1, Wrap, Zenon
  <2> QED BY <2>1, <2>2 DEF Once
<1>2. InRing(b, n, j, k) \in [1 .. k -> T]
  BY <1>1 DEF InRing, Ring
<1>3. InRing(b, n, j, k) \in Seq(T)
  BY <1>2
<1> QED BY <1>3 DEF InRing

\* One payload more is a payload appended: the one in the slot behind them.
LEMMA InRingAppend ==
  ASSUME NEW T, NEW n \in Nat \ {0}, NEW b \in Ring(T, n),
         NEW j \in 0 .. n - 1, NEW k \in 0 .. n - 1
  PROVE  InRing(b, n, j, k + 1) = Append(InRing(b, n, j, k), b[(j + k) % n])
<1> DEFINE f == InRing(b, n, j, k + 1)
           g == InRing(b, n, j, k)
           v == b[(j + k) % n]
<1>1. k \in 0 .. n /\ k + 1 \in 0 .. n /\ j + k \in 0 .. 2 * n - 1
  OBVIOUS
<1>2. /\ f \in Seq(T) /\ Len(f) = k + 1
      /\ g \in Seq(T) /\ Len(g) = k
  <2>1. f \in Seq(T)
    BY <1>1, InRingSeq
  <2>3. Len(f) = k + 1
    BY DEF InRing
  <2>2. g \in Seq(T) /\ Len(g) = k
    BY <1>1, InRingSeq
  <2> QED BY <2>1, <2>2, <2>3
<1>3. v \in T
  <2>1. (j + k) % n = Once(j + k, n)
    BY <1>1, Wrap, Zenon
  <2> QED BY <1>1, <2>1 DEF Once, Ring
<1>4. f[k + 1] = v
  <2>1. j + (k + 1) - 1 = j + k
    OBVIOUS
  <2> QED BY <2>1 DEF InRing
<1>5. \A i \in 1 .. k : f[i] = g[i]
  BY DEF InRing
<1> HIDE DEF f, g, v
<1>6. Append(g, v) \in Seq(T) /\ Len(Append(g, v)) = k + 1
  BY <1>2, <1>3
<1>7. \A i \in 1 .. k + 1 : f[i] = Append(g, v)[i]
  BY <1>2, <1>3, <1>4, <1>5
<1>8. f = Append(g, v)
  BY <1>2, <1>6, <1>7, SeqEqual
<1> QED BY <1>8 DEF f, g, v

\* The first payload is in the first slot, the others are those from the next
\* offset on.
LEMMA InRingTail ==
  ASSUME NEW T, NEW n \in Nat \ {0}, NEW b \in Ring(T, n),
         NEW j \in 0 .. n - 1, NEW k \in 1 .. n
  PROVE  /\ InRing(b, n, j, k) # << >>
         /\ Head(InRing(b, n, j, k)) = b[j]
         /\ Tail(InRing(b, n, j, k)) = InRing(b, n, (j + 1) % n, k - 1)
<1> DEFINE f == InRing(b, n, j, k)
           g == InRing(b, n, (j + 1) % n, k - 1)
<1>1. /\ (j + 1) % n = Once(j + 1, n)
      /\ (j + 1) % n \in 0 .. n - 1
      /\ k \in 0 .. n
      /\ k - 1 \in 0 .. n
  <2>1. j + 1 \in 0 .. 2 * n - 1
    OBVIOUS
  <2>2. (j + 1) % n = Once(j + 1, n)
    BY <2>1, Wrap, Zenon
  <2> QED BY <2>2 DEF Once
<1>2. /\ f \in Seq(T) /\ Len(f) = k
      /\ g \in Seq(T) /\ Len(g) = k - 1
  <2>1. f \in Seq(T)
    BY <1>1, InRingSeq
  <2>3. Len(f) = k
    BY DEF InRing
  <2>2. g \in Seq(T) /\ Len(g) = k - 1
    BY <1>1, InRingSeq
  <2> QED BY <2>1, <2>2, <2>3
<1>3. f[1] = b[j]
  <2>1. j + 1 - 1 = j /\ j % n = j
    OBVIOUS
  <2> QED BY <2>1 DEF InRing
<1>4. ASSUME NEW i \in 1 .. k - 1
      PROVE  f[i + 1] = g[i]
  <2>1. f[i + 1] = b[(j + i) % n]
    <3>1. i + 1 \in 1 .. k /\ j + (i + 1) - 1 = j + i
      OBVIOUS
    <3> QED BY <3>1 DEF InRing
  <2>2. g[i] = b[(((j + 1) % n) + i - 1) % n]
    BY DEF InRing
  <2>3. (((j + 1) % n) + i - 1) % n = (j + i) % n
    <3>1. /\ j + i \in 0 .. 2 * n - 1
          /\ Once(j + 1, n) + i - 1 \in 0 .. 2 * n - 1
      BY DEF Once
    <3>2. (j + i) % n = Once(j + i, n)
      BY <3>1, Wrap, Zenon
    <3>3. (Once(j + 1, n) + i - 1) % n = Once(Once(j + 1, n) + i - 1, n)
      BY <3>1, Wrap, Zenon
    <3>4. Once(Once(j + 1, n) + i - 1, n) = Once(j + i, n)
      BY DEF Once
    <3> QED BY <1>1, <3>2, <3>3, <3>4
  <2> QED BY <2>1, <2>2, <2>3
<1> HIDE DEF f, g
<1>5. f # << >> /\ Head(f) = b[j]
  BY <1>2, <1>3
<1>6. /\ Tail(f) \in Seq(T)
      /\ Len(Tail(f)) = k - 1
      /\ \A i \in 1 .. k - 1 : Tail(f)[i] = f[i + 1]
  BY <1>2, <1>5, HeadTailProperties
<1>7. Tail(f) = g
  BY <1>2, <1>4, <1>6, SeqEqual
<1> QED BY <1>5, <1>7 DEF f, g

\* A store into a slot outside them leaves the payloads alone.
LEMMA InRingStore ==
  ASSUME NEW T, NEW n \in Nat \ {0}, NEW b \in Ring(T, n),
         NEW j \in 0 .. n - 1, NEW k \in 0 .. n, NEW s, NEW v,
         Unused(n, j, k, s)
  PROVE  InRing(Stored(b, s, v), n, j, k) = InRing(b, n, j, k)
<1>1. ASSUME NEW i \in 1 .. k
      PROVE  Stored(b, s, v)[(j + i - 1) % n] = b[(j + i - 1) % n]
  <2>1. /\ i - 1 \in 0 .. k - 1
        /\ j + (i - 1) = j + i - 1
        /\ j + i - 1 \in 0 .. 2 * n - 1
    OBVIOUS
  <2>2. (j + i - 1) % n = Once(j + i - 1, n)
    BY <2>1, Wrap, Zenon
  <2>3. (j + i - 1) % n # s
    BY <2>1 DEF Unused
  <2> QED BY <2>1, <2>2, <2>3 DEF Once, Ring, Stored
<1> QED BY <1>1 DEF InRing

==============================================================================
