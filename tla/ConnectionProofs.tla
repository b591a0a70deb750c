-------------------------- MODULE ConnectionProofs ---------------------------
(***************************************************************************)
(* Proofs about one connection from end to end: for buffers of any size,   *)
(* requests with any number of headers, paths of any length and every way  *)
(* to cut the requests and the responses, RoomToRead, BufferHoldsRequest,  *)
(* ParsedWithinLimit, OffsetsOrdered, OneResize, WireInOrder and           *)
(* OwnResponseSent.                                                        *)
(*                                                                         *)
(* ReadInv adds to the first two that the path of a finished request is in *)
(* a request line, and that a request that was parsed when all of it had   *)
(* arrived was parsed as it is.  OutInv adds to the next three that the    *)
(* output buffer still holds the text appended to it, from which write     *)
(* takes the bytes later.  ConnInv ties the two together: what was         *)
(* appended and what is still to be appended are the response to that      *)
(* request.                                                                *)
(***************************************************************************)
EXTENDS Connection, FiniteSetTheorems, WellFoundedInduction, TLAPS

\* Offset i holds byte i of the text, but for the bytes lost to a terminator.
TextKept ==
  \A i \in 0 .. write_into_offset - 1 : out_buffer[i] = IF i \in exact THEN NUL ELSE i

OutInv ==
  /\ OffsetsOrdered
  /\ OneResize
  /\ WireInOrder
  /\ TextKept
  /\ \A i \in exact : i < write_into_offset
  /\ pc = "idle" => written = 0

\* The request that was sent is the one that was parsed.
ParsedAsSent ==
  \E line \in Lines, h \in 0 .. MaxHeaders, last \in Headers :
    sent = Request(line, h, last) /\ path = 0 /\ num_headers = h

ReadInv ==
  /\ BufferHoldsRequest
  /\ RoomToRead
  /\ offset <= arrived
  /\ sent = << >> \/ \E h \in 0 .. MaxHeaders : Sending(h)
  /\ state # "READ_BUSY" => offset = arrived
  /\ state = "READ_FINISH" => buffer[path] \in Lines
  /\ state = "READ_FINISH" /\ arrived = Len(sent) => ParsedAsSent

\* The first appends of the response r have been made, or are being made, and
\* the others are still to come.
Underway(r) ==
  LET text == write_into_offset + written
  IN \/ todo = r /\ text = 0
     \/ todo = <<r[2], r[3], r[4]>> /\ text = r[1]
     \/ todo = <<r[3], r[4]>> /\ text = r[1] + r[2]
     \/ todo = <<r[4]>> /\ text = r[1] + r[2] + r[3]
     \/ todo = << >> /\ text = r[1] + r[2] + r[3] + r[4]

ConnInv ==
  /\ stage \in {"read", "respond"}
  /\ todo \in Seq(Nat)
  /\ stage = "read" => todo = << >> /\ pc = "idle" /\ write_into_offset = 0
  /\ stage = "respond" => state = "READ_FINISH"
  /\ stage = "respond" /\ arrived = Len(sent) => Underway(OwnResponse)

IndInv == ReadInv /\ OutInv /\ ConnInv

------------------------------------------------------------------------------
(* The output buffer *)

\* The types, as the steps use them.
LEMMA OutFacts ==
  ASSUME OutInv
  PROVE  /\ OutTypeOK /\ TextKept /\ WireInOrder
         /\ out_length \in Nat \ {0} /\ written \in Nat
         /\ write_from_offset \in Nat /\ write_into_offset \in Nat
         /\ write_from_offset <= write_into_offset /\ write_into_offset <= out_length
         /\ max_to_write \in Nat /\ max_to_write = out_length - write_into_offset
         /\ \A i \in exact : i \in Nat /\ i < write_into_offset
         /\ InitSize \in Nat \ {0}
<1>1. OffsetsOrdered /\ TextKept /\ WireInOrder /\ \A i \in exact : i < write_into_offset
  BY DEF OutInv
<1> QED BY <1>1, SizeAssumption DEF OffsetsOrdered, OutTypeOK, max_to_write

\* What vsnprintf leaves in the buffer.
LEMMA FormattedFacts ==
  ASSUME OutInv
  PROVE  /\ Formatted \in [0 .. out_length - 1 -> Nat \cup {NUL, Junk}]
         /\ \A i \in 0 .. write_into_offset - 1 : Formatted[i] = out_buffer[i]
         /\ written <= max_to_write =>
              \A i \in Nat : write_into_offset <= i /\ i < write_into_offset + written =>
                Formatted[i] = IF written = max_to_write /\ i = out_length - 1 THEN NUL ELSE i
<1>0. /\ out_length \in Nat \ {0} /\ written \in Nat /\ write_into_offset \in Nat
      /\ write_into_offset <= out_length /\ max_to_write \in Nat
      /\ max_to_write = out_length - write_into_offset
      /\ out_buffer \in [0 .. out_length - 1 -> Nat \cup {NUL, Junk}]
  BY OutFacts DEF OutTypeOK
<1> DEFINE last == IF written < max_to_write THEN written ELSE max_to_write - 1
<1>1. last \in Int /\ (written < max_to_write => last = written)
        /\ (~(written < max_to_write) => last = max_to_write - 1)
  BY <1>0
<1> HIDE DEF last
<1>2. Formatted = [i \in 0 .. out_length - 1 |->
                     IF max_to_write = 0 \/ i < write_into_offset
                          \/ i > write_into_offset + last
                     THEN out_buffer[i]
                     ELSE IF i = write_into_offset + last THEN NUL ELSE i]
  BY DEF Formatted, last
<1>3. Formatted \in [0 .. out_length - 1 -> Nat \cup {NUL, Junk}]
  BY <1>0, <1>2
<1>4. \A i \in 0 .. write_into_offset - 1 : Formatted[i] = out_buffer[i]
  BY <1>0, <1>2
<1>5. ASSUME written <= max_to_write, NEW i \in Nat,
             write_into_offset <= i, i < write_into_offset + written
      PROVE  Formatted[i] = IF written = max_to_write /\ i = out_length - 1 THEN NUL ELSE i
  <2>1. i \in 0 .. out_length - 1 /\ max_to_write # 0 /\ ~(i < write_into_offset)
    BY <1>0, <1>5
  <2>2. ~(i > write_into_offset + last)
    BY <1>0, <1>1, <1>5
  <2>3. Formatted[i] = IF i = write_into_offset + last THEN NUL ELSE i
    BY <1>2, <2>1, <2>2
  <2>4. i = write_into_offset + last <=> written = max_to_write /\ i = out_length - 1
    BY <1>0, <1>1, <1>5
  <2> QED BY <2>3, <2>4
<1> QED BY <1>3, <1>4, <1>5

\* Nothing is appended yet.
LEMMA EmptyOut ==
  ASSUME NEW n \in Nat \ {0}
  PROVE  /\ 0 \in Nat /\ [i \in 0 .. n - 1 |-> Junk] \in [0 .. n - 1 -> Nat \cup {NUL, Junk}]
         /\ << >> \in Seq(Nat \cup {NUL, Junk}) /\ Len(<< >>) = 0
OBVIOUS

\* The buffer output_buffer_init returns.
LEMMA OutInitInv == OutInit => OutInv
<1> SUFFICES ASSUME OutInit PROVE OutInv
  OBVIOUS
<1>1. /\ out_length = InitSize /\ out_buffer = [i \in 0 .. InitSize - 1 |-> Junk]
      /\ write_from_offset = 0 /\ write_into_offset = 0 /\ written = 0 /\ pc = "idle"
      /\ exact = {} /\ wire = << >> /\ InitSize \in Nat \ {0}
  BY SizeAssumption DEF OutInit
<1>2. OutTypeOK
  BY <1>1, EmptyOut DEF OutTypeOK
<1>3. OffsetsOrdered /\ OneResize
  BY <1>1, <1>2 DEF OffsetsOrdered, OneResize
<1>4. WireInOrder /\ TextKept
  BY <1>1 DEF WireInOrder, TextKept
<1> QED BY <1>1, <1>3, <1>4 DEF OutInv

\* A reset or a new buffer is as empty as the first one.
LEMMA OutCleared ==
  ASSUME NEW n \in Nat \ {0},
         out_length' = n, out_buffer' = [i \in 0 .. n - 1 |-> Junk],
         write_from_offset' = 0, write_into_offset' = 0, written' = 0, pc' = "idle",
         exact' = {}, wire' = << >>
  PROVE  OutInv'
<1>1. OutTypeOK'
  BY EmptyOut DEF OutTypeOK
<1>2. OffsetsOrdered' /\ OneResize'
  BY <1>1 DEF OffsetsOrdered, OneResize
<1>3. WireInOrder' /\ TextKept'
  BY DEF WireInOrder, TextKept
<1> QED BY <1>1, <1>2, <1>3 DEF OutInv

\* output_buffer_append is called.
LEMMA AppendCallInv ==
  ASSUME OutInv, NEW n \in Nat, AppendCall(n)
  PROVE  OutInv'
<1>1. /\ written' = n /\ pc' = "append"
      /\ UNCHANGED <<out_buffer, out_length, write_from_offset, write_into_offset, exact, wire>>
  BY DEF AppendCall
<1>2. OffsetsOrdered' /\ OneResize'
  BY <1>1 DEF OutInv, OffsetsOrdered, OneResize, OutTypeOK
<1>3. WireInOrder' /\ TextKept'
  BY <1>1 DEF OutInv, WireInOrder, TextKept
<1> QED BY <1>1, <1>2, <1>3 DEF OutInv

\* resize, after which the text fits.
LEMMA AppendGrowInv ==
  ASSUME OutInv, AppendGrow
  PROVE  OutInv'
<1>0. /\ OutTypeOK /\ TextKept /\ WireInOrder
      /\ out_length \in Nat \ {0} /\ written \in Nat
      /\ write_from_offset \in Nat /\ write_into_offset \in Nat
      /\ write_from_offset <= write_into_offset /\ write_into_offset <= out_length
      /\ max_to_write = out_length - write_into_offset
  BY OutFacts
<1>1. /\ out_length' = resize(write_into_offset + written + 1) /\ pc' = "retry"
      /\ out_buffer' = [i \in 0 .. out_length' - 1 |->
                          IF i < out_length THEN Formatted[i] ELSE Junk]
      /\ UNCHANGED <<write_from_offset, write_into_offset, written, exact, wire>>
  BY DEF AppendGrow
<1>2. /\ out_length' \in Nat \ {0} /\ out_length <= out_length'
      /\ write_into_offset + written < out_length'
  BY <1>0, <1>1 DEF resize, AppendGrow
<1>3. /\ Formatted \in [0 .. out_length - 1 -> Nat \cup {NUL, Junk}]
      /\ \A i \in 0 .. write_into_offset - 1 : Formatted[i] = out_buffer[i]
  BY FormattedFacts
<1>4. out_buffer' \in [0 .. out_length' - 1 -> Nat \cup {NUL, Junk}]
  BY <1>0, <1>1, <1>2, <1>3
<1>5. OutTypeOK'
  BY <1>0, <1>1, <1>2, <1>4 DEF OutTypeOK
<1>6. OffsetsOrdered'
  BY <1>0, <1>1, <1>2, <1>5 DEF OffsetsOrdered
<1>7. OneResize'
  BY <1>0, <1>1, <1>2 DEF OneResize, max_to_write
<1>8. WireInOrder'
  BY <1>0, <1>1 DEF WireInOrder
<1>9. TextKept'
  <2>1. ASSUME NEW i \in Nat, i < write_into_offset
        PROVE  out_buffer'[i] = out_buffer[i]
    <3>1. i < out_length /\ i \in 0 .. write_into_offset - 1
      BY <1>0, <2>1
    <3>2. i < out_length'
      BY <1>0, <1>2, <3>1
    <3>3. PICK n \in Nat : n = out_length'
      BY <1>2
    <3>4. i < n
      BY <3>2, <3>3
    <3>5. i \in 0 .. n - 1
      BY <3>4
    <3> QED BY <1>1, <1>3, <3>1, <3>3, <3>5
  <2>2. \A i \in 0 .. write_into_offset - 1 : i \in Nat /\ i < write_into_offset
    BY <1>0
  <2> QED BY <1>0, <1>1, <2>1, <2>2 DEF TextKept
<1> QED BY <1>1, <1>6, <1>7, <1>8, <1>9 DEF OutInv

\* The text is in, or all of it but its last byte.
LEMMA AppendDoneInv ==
  ASSUME OutInv, AppendDone
  PROVE  OutInv'
<1>0. /\ OutTypeOK /\ TextKept /\ WireInOrder
      /\ out_length \in Nat \ {0} /\ written \in Nat
      /\ write_from_offset \in Nat /\ write_into_offset \in Nat
      /\ write_from_offset <= write_into_offset /\ write_into_offset <= out_length
      /\ max_to_write = out_length - write_into_offset
      /\ \A i \in exact : i \in Nat /\ i < write_into_offset
  BY OutFacts
<1>1. /\ written <= max_to_write /\ out_buffer' = Formatted
      /\ write_into_offset' = write_into_offset + written
      /\ exact' = IF written > 0 /\ written = max_to_write
                  THEN exact \cup {out_length - 1} ELSE exact
      /\ written' = 0 /\ pc' = "idle" /\ UNCHANGED <<out_length, write_from_offset, wire>>
  BY DEF AppendDone
<1>2. /\ Formatted \in [0 .. out_length - 1 -> Nat \cup {NUL, Junk}]
      /\ \A i \in 0 .. write_into_offset - 1 : Formatted[i] = out_buffer[i]
      /\ \A i \in Nat : write_into_offset <= i /\ i < write_into_offset + written =>
           Formatted[i] = IF written = max_to_write /\ i = out_length - 1 THEN NUL ELSE i
  BY <1>1, FormattedFacts
<1>3. \A i \in exact' : i \in Nat /\ i < write_into_offset'
  <2>1. CASE written > 0 /\ written = max_to_write
    <3>1. exact' = exact \cup {out_length - 1} /\ out_length - 1 \in Nat
      BY <1>0, <1>1, <2>1
    <3>2. out_length - 1 < write_into_offset'
      BY <1>0, <1>1, <2>1
    <3>3. \A i \in exact : i < write_into_offset'
      BY <1>0, <1>1
    <3> QED BY <1>0, <3>1, <3>2, <3>3
  <2>2. CASE ~(written > 0 /\ written = max_to_write)
    BY <1>0, <1>1, <2>2
  <2> QED BY <2>1, <2>2
<1>4. \A i \in Nat : i < write_into_offset => (i \in exact' <=> i \in exact)
  BY <1>0, <1>1
<1>5. \A i \in Nat : write_into_offset <= i /\ i < write_into_offset' =>
        (i \in exact' <=> written = max_to_write /\ i = out_length - 1)
  BY <1>0, <1>1
<1>6. OutTypeOK'
  BY <1>0, <1>1, <1>2, <1>3 DEF OutTypeOK
<1>7. OffsetsOrdered' /\ OneResize'
  BY <1>0, <1>1, <1>6 DEF OffsetsOrdered, OneResize
<1>8. WireInOrder'
  <2>1. Len(wire) = write_from_offset /\ DOMAIN wire = 1 .. Len(wire)
    BY <1>0 DEF WireInOrder, OutTypeOK
  <2>2. ASSUME NEW k \in 1 .. write_from_offset
        PROVE  wire[k] = IF k - 1 \in exact' THEN NUL ELSE k - 1
    <3>1. k - 1 \in Nat /\ k - 1 < write_into_offset
      BY <1>0
    <3>2. wire[k] = IF k - 1 \in exact THEN NUL ELSE k - 1
      BY <1>0, <2>1 DEF WireInOrder
    <3> QED BY <1>4, <3>1, <3>2
  <2> QED BY <1>1, <2>1, <2>2 DEF WireInOrder
<1>9. TextKept'
  <2> SUFFICES ASSUME NEW i \in 0 .. write_into_offset' - 1
               PROVE  Formatted[i] = IF i \in exact' THEN NUL ELSE i
    BY <1>1 DEF TextKept
  <2>0. i \in Nat /\ i < write_into_offset + written
    BY <1>0, <1>1
  <2>1. CASE i < write_into_offset
    <3>1. i \in 0 .. write_into_offset - 1
      BY <1>0, <2>0, <2>1
    <3> QED BY <1>0, <1>2, <1>4, <2>0, <2>1, <3>1 DEF TextKept
  <2>2. CASE ~(i < write_into_offset)
    <3>1. write_into_offset <= i
      BY <1>0, <2>0, <2>2
    <3> QED BY <1>1, <1>2, <1>5, <2>0, <3>1
  <2> QED BY <2>1, <2>2
<1> QED BY <1>1, <1>3, <1>7, <1>8, <1>9 DEF OutInv

\* Concatenation, byte by byte.
LEMMA Concatenated ==
  ASSUME NEW S, NEW s \in Seq(S), NEW m \in Nat, NEW f \in [1 .. m -> S]
  PROVE  /\ s \o f \in Seq(S) /\ Len(s \o f) = Len(s) + m
         /\ \A k \in 1 .. Len(s) : (s \o f)[k] = s[k]
         /\ \A k \in 1 .. m : (s \o f)[Len(s) + k] = f[k]
<1>1. f \in Seq(S) /\ Len(f) = m
  OBVIOUS
<1> QED BY <1>1

\* write takes m bytes more.
LEMMA WriteToInv ==
  ASSUME OutInv, NEW m \in Nat, output_buffer_write_to(m)
  PROVE  OutInv'
<1>0. /\ OutTypeOK /\ TextKept /\ WireInOrder
      /\ out_length \in Nat \ {0}
      /\ write_from_offset \in Nat /\ write_into_offset \in Nat
      /\ write_from_offset <= write_into_offset /\ write_into_offset <= out_length
  BY OutFacts
<1> DEFINE S == Nat \cup {NUL, Junk}
           f == [k \in 1 .. m |-> out_buffer[write_from_offset + k - 1]]
<1>1. /\ write_from_offset + m <= write_into_offset /\ wire' = wire \o f
      /\ write_from_offset' = write_from_offset + m
      /\ UNCHANGED <<out_buffer, out_length, write_into_offset, written, pc, exact>>
  BY DEF output_buffer_write_to, SentTo
<1>2. \A k \in 1 .. m : /\ write_from_offset + k - 1 \in 0 .. write_into_offset - 1
                        /\ write_from_offset + k - 1 \in 0 .. out_length - 1
  BY <1>0, <1>1
<1>3. f \in [1 .. m -> S]
  BY <1>0, <1>2 DEF OutTypeOK
<1>4. wire \in Seq(S) /\ Len(wire) = write_from_offset
  BY <1>0 DEF OutTypeOK, WireInOrder
<1>5. \A k \in 1 .. m : f[k] = IF write_from_offset + k - 1 \in exact THEN NUL
                                ELSE write_from_offset + k - 1
  BY <1>0, <1>2 DEF TextKept
<1> HIDE DEF S, f
<1>6. /\ wire' \in Seq(S) /\ Len(wire') = write_from_offset + m
      /\ \A k \in 1 .. write_from_offset : wire'[k] = wire[k]
      /\ \A k \in 1 .. m : wire'[write_from_offset + k] = f[k]
  <2>1. PICK s \in Seq(S) : s = wire /\ Len(s) = write_from_offset
    BY <1>4
  <2>2. /\ s \o f \in Seq(S) /\ Len(s \o f) = Len(s) + m
        /\ \A k \in 1 .. Len(s) : (s \o f)[k] = s[k]
        /\ \A k \in 1 .. m : (s \o f)[Len(s) + k] = f[k]
    BY <1>3, Concatenated
  <2> DEFINE t == s \o f
  <2>3. wire' = t
    BY <1>1, <2>1
  <2>4. /\ t \in Seq(S) /\ Len(t) = write_from_offset + m
        /\ \A k \in 1 .. write_from_offset : t[k] = s[k]
        /\ \A k \in 1 .. m : t[write_from_offset + k] = f[k]
    BY <2>1, <2>2
  <2> HIDE DEF t
  <2> QED BY <2>1, <2>3, <2>4
<1>7. OutTypeOK'
  BY <1>0, <1>1, <1>6 DEF OutTypeOK, S
<1>8. OffsetsOrdered' /\ OneResize'
  <2>1. OneResize'
    BY <1>1 DEF OutInv, OneResize, max_to_write
  <2> QED BY <1>0, <1>1, <1>7, <2>1 DEF OffsetsOrdered
<1>9. WireInOrder'
  <2>1. DOMAIN wire' = 1 .. write_from_offset + m
    BY <1>6
  <2>2. ASSUME NEW k \in 1 .. write_from_offset + m
        PROVE  wire'[k] = IF k - 1 \in exact THEN NUL ELSE k - 1
    <3>1. CASE k <= write_from_offset
      <4>1. k \in 1 .. write_from_offset /\ k \in DOMAIN wire
        BY <1>0, <1>4, <3>1
      <4> QED BY <1>0, <1>6, <4>1 DEF WireInOrder
    <3>2. CASE ~(k <= write_from_offset)
      <4>1. PICK j \in 1 .. m : k = write_from_offset + j
        <5>1. k - write_from_offset \in 1 .. m /\ k = write_from_offset + (k - write_from_offset)
          BY <1>0, <3>2
        <5> QED BY <5>1
      <4>2. write_from_offset + j - 1 = k - 1
        BY <1>0, <4>1
      <4> QED BY <1>5, <1>6, <4>1, <4>2
    <3> QED BY <3>1, <3>2
  <2> QED BY <1>1, <1>6, <2>1, <2>2 DEF WireInOrder
<1>10. TextKept'
  BY <1>0, <1>1 DEF TextKept
<1> QED BY <1>1, <1>8, <1>9, <1>10 DEF OutInv

------------------------------------------------------------------------------
(* The helpers of the reading side *)

\* Doubling outgrows counting: there are more sets of numbers up to n than
\* such numbers.
LEMMA PowerAbove ==
  ASSUME NEW n \in Nat
  PROVE  2 ^ n \in Nat /\ n < 2 ^ n
<1> DEFINE S == 1 .. n
           D == 0 .. n
           f == [i \in D |-> IF i = 0 THEN {} ELSE {i}]
<1>1. IsFiniteSet(S) /\ Cardinality(S) = n /\ IsFiniteSet(D) /\ Cardinality(D) = n + 1
  BY 0 \in Int, 1 \in Int, n \in Int, FS_Interval
<1>2. \A i, j \in D : f[i] = f[j] => i = j
  OBVIOUS
<1>3. \A i \in D : i # 0 => i \in S
  OBVIOUS
<1>4. f \in Injection(D, SUBSET S)
  <2>1. f \in [D -> SUBSET S]
    BY <1>3
  <2> QED BY <1>2, <2>1 DEF Injection, IsInjective
<1> HIDE DEF S, D, f
<1>5. IsFiniteSet(SUBSET S) /\ Cardinality(SUBSET S) = 2 ^ n
  BY <1>1, FS_SUBSET
<1>6. Cardinality(SUBSET S) \in Nat
  BY <1>5, FS_CardinalityType
<1>7. Cardinality(D) <= Cardinality(SUBSET S)
  BY <1>4, <1>5, FS_Injection
<1> QED BY <1>1, <1>5, <1>6, <1>7

\* A product of positive numbers is at least each of them.
LEMMA Product ==
  ASSUME NEW a \in Nat \ {0}, NEW b \in Nat, b > 0
  PROVE  a * b \in Nat /\ a <= a * b /\ b <= a * b
OBVIOUS

\* A set of numbers that is not empty has a least element.
LEMMA Least ==
  ASSUME NEW T \in SUBSET Nat, T # {}
  PROVE  \E l \in T : \A m \in T : l <= m
<1>1. PICK l \in T : \A m \in T : ~(<<m, l>> \in OpToRel(<, Nat))
  BY WFMin, NatLessThanWellFounded, Zenon
<1>2. \A m \in T : ~(m < l)
  BY <1>1 DEF OpToRel
<1> QED BY <1>2

\* resize makes room, and never takes memory away.
LEMMA GrownFacts ==
  ASSUME NEW n \in Nat, length \in Nat \ {0}
  PROVE  Grown(n) \in Nat /\ n < Grown(n) /\ length <= Grown(n)
<1> DEFINE D == Doublings(n)
           T == {l \in D : l > n}
<1>1. ASSUME NEW l \in D
      PROVE  l \in Nat /\ length <= l
  <2>1. PICK k \in 0 .. n : l = length * 2 ^ k
    BY DEF Doublings
  <2>2. k \in Nat
    OBVIOUS
  <2>3. PICK b \in Nat : b = 2 ^ k /\ b > 0
    BY <2>2, PowerAbove
  <2>4. l = length * b
    BY <2>1, <2>3
  <2> QED BY <2>3, <2>4, Product
<1>2. length * 2 ^ n \in T
  <2>1. length * 2 ^ n \in D
    BY DEF Doublings
  <2>2. PICK b \in Nat : b = 2 ^ n /\ b > n
    BY PowerAbove
  <2>3. b > 0
    BY <2>2
  <2>4. length * b \in Nat /\ b <= length * b
    BY <2>3, Product
  <2>5. PICK c \in Nat : c = length * b /\ b <= c
    BY <2>4
  <2>6. c > n
    BY <2>2, <2>5
  <2> QED BY <2>1, <2>2, <2>5, <2>6
<1>3. T \in SUBSET Nat /\ T # {}
  BY <1>1, <1>2
<1> HIDE DEF T
<1>4. \E l \in T : \A m \in T : l <= m
  BY <1>3, Least
<1>5. \E l \in D : l > n /\ \A m \in D : m > n => l <= m
  BY <1>4 DEF T
<1>6. Grown(n) \in D /\ Grown(n) > n
  BY <1>5, Zenon DEF Grown
<1> QED BY <1>1, <1>6

\* The parser reads headers up to the first other line, or to its limit.
LEMMA HeaderRunFacts ==
  ASSUME NEW buf, NEW len \in Nat, NEW i \in Nat, i <= len, NEW max \in Nat,
         NEW n, n = HeaderRun(buf, len, i, max)
  PROVE  /\ n \in Nat /\ n <= max /\ i + n <= len
         /\ \A k \in i .. i + n - 1 : buf[k] \in Headers
         /\ n = max \/ i + n = len \/ buf[i + n] \notin Headers
<1> DEFINE M == Min2(max, len - i)
           T == {k \in 0 .. M : k = M \/ buf[i + k] \notin Headers}
           Run(k) == /\ \A j \in i .. i + k - 1 : buf[j] \in Headers
                     /\ k = M \/ buf[i + k] \notin Headers
<1>1. M \in Nat /\ M <= max /\ i + M <= len /\ (M = max \/ i + M = len)
  BY DEF Min2
<1> HIDE DEF M
<1>2. T \in SUBSET Nat /\ T # {}
  <2>1. M \in T
    BY <1>1
  <2> QED BY <1>1, <2>1
<1>3. PICK l \in T : \A m \in T : l <= m
  BY <1>2, Least
<1>4. l \in 0 .. M /\ (l = M \/ buf[i + l] \notin Headers)
  OBVIOUS
<1>5. ASSUME NEW j \in i .. i + l - 1
      PROVE  buf[j] \in Headers
  <2>1. j - i \in 0 .. M /\ j - i < l /\ i + (j - i) = j
    BY <1>1, <1>4
  <2>2. j - i \notin T
    BY <1>1, <1>3, <1>4, <2>1
  <2> QED BY <2>1, <2>2
<1>6. \E k \in 0 .. M : Run(k)
  BY <1>4, <1>5
<1>7. n = CHOOSE k \in 0 .. M : Run(k)
  BY Zenon DEF HeaderRun, M
<1> HIDE DEF Run
<1>8. n \in 0 .. M /\ Run(n)
  BY <1>6, <1>7, Zenon
<1>9. n \in Nat /\ n <= M
  BY <1>1, <1>8
<1> QED BY <1>1, <1>8, <1>9 DEF Run

\* What the parser returns, whatever it is given.
LEMMA ParseTypes ==
  ASSUME NEW buf, NEW len \in Nat \ {0}, NEW max \in Nat, NEW last_len,
         NEW p, p = phr_parse_request(buf, len, max, last_len)
  PROVE  /\ p.num \in 0 .. max /\ p.path \in 0 .. 1
         /\ p.ret \in {"PARSE_FINISH", "PARSE_ERROR", "PARSE_INCOMPLETE"}
         /\ p.ret = "PARSE_FINISH" => buf[p.path] \in Lines
<1> DEFINE i == IF buf[0] = "blank" THEN 1 ELSE 0
           n == HeaderRun(buf, len, i + 1, max)
           q == parse_headers(buf, len, i + 1, max)
<1>1. i \in 0 .. 1 /\ i <= len
  OBVIOUS
<1>2. q.num = n /\ q.ret \in {"PARSE_FINISH", "PARSE_ERROR", "PARSE_INCOMPLETE"}
  BY DEF parse_headers
<1>3. \/ p = [num |-> 0, path |-> 0, ret |-> "PARSE_INCOMPLETE"]
      \/ p = [num |-> 0, path |-> 0, ret |-> "PARSE_ERROR"]
      \/ /\ i # len /\ p = [num |-> q.num, path |-> i, ret |-> q.ret]
         /\ buf[i] \in Lines
  BY DEF phr_parse_request, parse_request, IsRequestLine
<1> HIDE DEF i, q, n
<1>4. ASSUME i # len
      PROVE  n \in 0 .. max
  <2>1. i + 1 \in Nat /\ i + 1 <= len
    BY <1>1, <1>4
  <2>2. n \in Nat /\ n <= max
    BY <2>1, HeaderRunFacts DEF n
  <2> QED BY <2>2
<1>5. CASE /\ i # len /\ p = [num |-> q.num, path |-> i, ret |-> q.ret]
           /\ buf[i] \in Lines
  BY <1>1, <1>2, <1>4, <1>5
<1>6. CASE p = [num |-> 0, path |-> 0, ret |-> "PARSE_INCOMPLETE"]
  BY <1>6
<1>7. CASE p = [num |-> 0, path |-> 0, ret |-> "PARSE_ERROR"]
  BY <1>7
<1> QED BY <1>3, <1>5, <1>6, <1>7

\* A request, line by line.
LEMMA RequestFacts ==
  ASSUME NEW line \in Lines, NEW h \in Nat, NEW last \in Headers,
         NEW r, r = Request(line, h, last)
  PROVE  /\ r \in Seq(Cells) /\ Len(r) = h + 2
         /\ r[1] = line /\ r[h + 2] = "blank"
         /\ \A k \in 2 .. h + 1 : r[k] \in Headers
<1> DEFINE m == [k \in 1 .. h |-> IF k = h THEN last ELSE "header"]
<1>1. m \in [1 .. h -> Headers]
  BY DEF Headers
<1>2. r = <<line>> \o m \o <<"blank">>
  BY DEF Request
<1> HIDE DEF m
<1>3. m \in Seq(Headers) /\ Len(m) = h /\ \A k \in 1 .. h : m[k] \in Headers
  BY <1>1
<1>4. m \in Seq(Cells) /\ <<line>> \in Seq(Cells) /\ <<"blank">> \in Seq(Cells)
  BY <1>1 DEF Cells
<1> DEFINE s == <<line>> \o m
<1>5. s \in Seq(Cells) /\ Len(s) = h + 1 /\ s[1] = line
      /\ \A k \in 2 .. h + 1 : s[k] = m[k - 1]
  BY <1>3, <1>4
<1> HIDE DEF s
<1>6. /\ r \in Seq(Cells) /\ Len(r) = h + 2 /\ r[h + 2] = "blank"
      /\ \A k \in 1 .. h + 1 : r[k] = s[k]
  BY <1>2, <1>4, <1>5 DEF s
<1>7. r[1] = line
  BY <1>5, <1>6
<1>8. ASSUME NEW k \in 2 .. h + 1
      PROVE  r[k] \in Headers
  <2>1. k \in 1 .. h + 1 /\ k - 1 \in 1 .. h
    OBVIOUS
  <2> QED BY <1>3, <1>5, <1>6, <2>1
<1> QED BY <1>6, <1>7, <1>8

InBuffer(buf, line, h, last) ==
  \A i \in 0 .. h + 1 : buf[i] = Request(line, h, last)[i + 1]

\* A request that lies in the buffer as it was sent is parsed, if it has no
\* more headers than there is room for, and is an error otherwise.
LEMMA ParsesRequest ==
  ASSUME NEW buf, NEW len \in Nat, NEW max \in Nat,
         NEW line \in Lines, NEW h \in Nat, NEW last \in Headers, h + 2 < len,
         InBuffer(buf, line, h, last),
         NEW p, p = parse_request(buf, len, max)
  PROVE  IF h <= max THEN p = [num |-> h, path |-> 0, ret |-> "PARSE_FINISH"]
                     ELSE p.ret = "PARSE_ERROR"
<1> DEFINE r == Request(line, h, last)
           n == HeaderRun(buf, len, 1, max)
<1>1. /\ r[1] = line /\ r[h + 2] = "blank"
      /\ \A k \in 2 .. h + 1 : r[k] \in Headers
  BY RequestFacts
<1>2. \A i \in 0 .. h + 1 : buf[i] = r[i + 1]
  BY DEF InBuffer
<1> HIDE DEF r
<1>3. buf[0] = line
  <2>1. 0 \in 0 .. h + 1 /\ 0 + 1 = 1
    OBVIOUS
  <2> QED BY <1>1, <1>2, <2>1
<1>4. buf[h + 1] = "blank"
  <2>1. h + 1 \in 0 .. h + 1 /\ (h + 1) + 1 = h + 2
    OBVIOUS
  <2> QED BY <1>1, <1>2, <2>1
<1>5. ASSUME NEW k \in 1 .. h
      PROVE  buf[k] \in Headers
  <2>1. k \in 0 .. h + 1 /\ k + 1 \in 2 .. h + 1
    OBVIOUS
  <2> QED BY <1>1, <1>2, <2>1
<1>6. "blank" \notin Headers /\ line # "blank"
  BY ReadingAssumption DEF Headers
<1>7. /\ n \in Nat /\ n <= max /\ 1 + n <= len
      /\ \A k \in 1 .. 1 + n - 1 : buf[k] \in Headers
      /\ n = max \/ 1 + n = len \/ buf[1 + n] \notin Headers
  <2>1. 1 \in Nat /\ 1 <= len
    OBVIOUS
  <2> QED BY <2>1, HeaderRunFacts
<1>8. p = [num |-> n, path |-> 0,
           ret |-> IF 1 + n = len THEN "PARSE_INCOMPLETE"
                   ELSE IF buf[1 + n] = "blank" THEN "PARSE_FINISH" ELSE "PARSE_ERROR"]
  <2>1. p = [num |-> parse_headers(buf, len, 0 + 1, max).num, path |-> 0,
             ret |-> parse_headers(buf, len, 0 + 1, max).ret]
    BY <1>3, <1>6 DEF parse_request, IsRequestLine
  <2>2. 0 + 1 = 1
    OBVIOUS
  <2> QED BY <2>1, <2>2 DEF parse_headers, EndsHeaders
<1> HIDE DEF n
<1>9. n <= h
  <2>1. ASSUME h < n
        PROVE  FALSE
    <3>1. h + 1 \in 1 .. 1 + n - 1
      BY <1>7, <2>1
    <3> QED BY <1>4, <1>6, <1>7, <3>1
  <2> QED BY <1>7, <2>1
<1>10. 1 + n # len /\ 1 + n = n + 1
  BY <1>7, <1>9
<1>11. CASE h <= max
  <2>1. n = h
    <3>1. ASSUME n < h
          PROVE  FALSE
      <4>1. 1 + n \in 1 .. h
        BY <1>7, <3>1
      <4>2. n = max
        BY <1>5, <1>7, <1>10, <4>1
      <4> QED BY <1>11, <3>1, <4>2
    <3> QED BY <1>7, <1>9, <3>1
  <2>2. buf[1 + n] = "blank"
    BY <1>4, <1>10, <2>1
  <2> QED BY <1>8, <1>10, <1>11, <2>1, <2>2
<1>12. CASE ~(h <= max)
  <2>1. 1 + n \in 1 .. h
    BY <1>7, <1>12
  <2>2. buf[1 + n] # "blank"
    BY <1>5, <1>6, <2>1
  <2> QED BY <1>8, <1>10, <1>12, <2>2
<1> QED BY <1>11, <1>12

------------------------------------------------------------------------------
(* Reading *)

\* The types, as the steps use them.
LEMMA ReadFacts ==
  ASSUME ReadInv
  PROVE  /\ length \in Nat \ {0} /\ buffer \in [0 .. length - 1 -> Cells]
         /\ offset \in Nat /\ offset < length /\ arrived \in Nat /\ offset <= arrived
         /\ num_headers \in 0 .. NumHeaders /\ num_headers \in Nat /\ path \in 0 .. 1
         /\ sent \in Seq(Cells) /\ Len(sent) \in Nat /\ arrived <= Len(sent)
         /\ state \in {"READ_BUSY", "READ_FINISH", "READ_ERROR"} /\ served \in BOOLEAN
         /\ \A i \in 0 .. offset - 1 : i < Len(sent) /\ buffer[i] = sent[i + 1]
<1>1. BufferHoldsRequest /\ ReadTypeOK /\ RoomToRead /\ offset <= arrived
  BY DEF ReadInv, BufferHoldsRequest
<1>2. sent \in Seq(Cells) /\ Len(sent) \in Nat
  BY <1>1 DEF ReadTypeOK
<1>3. arrived \in Nat /\ arrived <= Len(sent)
  BY <1>1, <1>2 DEF ReadTypeOK
<1>4. length \in Nat \ {0} /\ offset \in Nat
  BY <1>1 DEF ReadTypeOK
<1>5. num_headers \in 0 .. NumHeaders /\ num_headers \in Nat
  BY <1>1, ReadingAssumption DEF ReadTypeOK
<1> QED BY <1>1, <1>2, <1>3, <1>4, <1>5 DEF ReadTypeOK, RoomToRead, BufferHoldsRequest

\* An empty buffer before a request is sent.
LEMMA ReadCleared ==
  ASSUME length' \in Nat \ {0}, buffer' \in [0 .. length' - 1 -> Cells], offset' = 0,
         num_headers' \in 0 .. NumHeaders, path' \in 0 .. 1,
         sent' = << >>, arrived' = 0, state' = "READ_BUSY", served' \in BOOLEAN
  PROVE  ReadInv'
<1>1. << >> \in Seq(Cells) /\ Len(<< >>) = 0
  OBVIOUS
<1>2. 0 \in 0 .. length' /\ 0 \in 0 .. 0 /\ 0 < length' /\ 0 .. 0 - 1 = {}
  OBVIOUS
<1>3. ReadTypeOK'
  BY <1>1, <1>2 DEF ReadTypeOK
<1>4. BufferHoldsRequest' /\ RoomToRead'
  BY <1>2, <1>3 DEF BufferHoldsRequest, RoomToRead
<1> QED BY <1>4 DEF ReadInv

\* The buffer input_buffer_init returns.
LEMMA ReadInitInv == ReadInit => ReadInv
<1> SUFFICES ASSUME ReadInit PROVE ReadInv
  OBVIOUS
<1>1. /\ length = InitLength /\ InitLength \in Nat \ {0}
      /\ buffer \in [0 .. InitLength - 1 -> Cells] /\ offset = 0
      /\ num_headers = NumHeaders /\ NumHeaders \in Nat /\ path = 0
      /\ sent = << >> /\ arrived = 0 /\ state = "READ_BUSY" /\ served = FALSE
  BY ReadingAssumption DEF ReadInit
<1>2. << >> \in Seq(Cells) /\ Len(<< >>) = 0
  OBVIOUS
<1>3. 0 \in 0 .. length /\ 0 \in 0 .. 0 /\ 0 < length /\ 0 .. 0 - 1 = {}
  BY <1>1
<1>4. NumHeaders \in 0 .. NumHeaders /\ 0 \in 0 .. 1
  BY <1>1
<1>5. ReadTypeOK
  BY <1>1, <1>2, <1>3, <1>4 DEF ReadTypeOK
<1>6. BufferHoldsRequest /\ RoomToRead
  BY <1>1, <1>3, <1>5 DEF BufferHoldsRequest, RoomToRead
<1> QED BY <1>1, <1>6 DEF ReadInv

\* The client sends a request.
LEMMA SendRequestInv ==
  ASSUME ReadInv, NEW line \in Lines, NEW h \in 0 .. MaxHeaders, NEW last \in Headers,
         SendRequest(line, h, last)
  PROVE  ReadInv'
<1>1. /\ state = "READ_BUSY" /\ sent = << >> /\ sent' = Request(line, h, last)
      /\ UNCHANGED <<buffer, length, offset, num_headers, path, arrived, state, served>>
  BY DEF SendRequest, http_request
<1>2. sent' \in Seq(Cells) /\ Len(sent') = h + 2 /\ h \in Nat
  <2>1. h \in Nat
    BY ReadingAssumption
  <2> QED BY <1>1, <2>1, RequestFacts
<1>3. offset = 0 /\ arrived = 0 /\ offset < length /\ length \in Nat
  <2>1. Len(<< >>) = 0
    OBVIOUS
  <2> QED BY <1>1, <2>1, ReadFacts
<1>4. ReadTypeOK'
  <2>1. 0 \in 0 .. Len(sent')
    BY <1>2
  <2> QED BY <1>1, <1>2, <1>3, <2>1 DEF ReadInv, BufferHoldsRequest, ReadTypeOK
<1>5. BufferHoldsRequest' /\ RoomToRead'
  BY <1>1, <1>3, <1>4 DEF BufferHoldsRequest, RoomToRead
<1>6. \E g \in 0 .. MaxHeaders : Sending(g)'
  BY <1>1 DEF Sending
<1> QED BY <1>1, <1>3, <1>5, <1>6 DEF ReadInv

\* A segment arrives.
LEMMA ArriveInv ==
  ASSUME ReadInv, NEW n \in Nat, Arrive(n)
  PROVE  ReadInv'
<1>0. offset \in Nat /\ offset < length /\ arrived \in Nat /\ offset <= arrived
      /\ length \in Nat /\ Len(sent) \in Nat
  BY ReadFacts
<1>1. /\ state = "READ_BUSY" /\ arrived < n /\ n <= Len(sent) /\ arrived' = n
      /\ UNCHANGED <<buffer, length, offset, num_headers, path, sent, state, served>>
  BY DEF Arrive, http_request
<1>2. n \in 0 .. Len(sent) /\ offset <= n
  BY <1>0, <1>1
<1>3. BufferHoldsRequest' /\ RoomToRead'
  BY <1>1, <1>2 DEF ReadInv, BufferHoldsRequest, ReadTypeOK, RoomToRead
<1>4. sent' = << >> \/ \E h \in 0 .. MaxHeaders : Sending(h)'
  BY <1>1 DEF ReadInv, Sending
<1> QED BY <1>1, <1>2, <1>3, <1>4 DEF ReadInv

\* What is in the buffer after a read, and what the parser makes of it.
LEMMA TryParseFacts ==
  ASSUME ReadInv, try_parse_http_request
  PROVE  /\ length' \in Nat \ {0} /\ buffer' \in [0 .. length' - 1 -> Cells]
         /\ offset' = arrived /\ arrived < length' /\ arrived > 0
         /\ \A i \in 0 .. arrived - 1 : i < Len(sent) /\ buffer'[i] = sent[i + 1]
         /\ UNCHANGED <<sent, arrived, served>>
         /\ \E p : /\ p = phr_parse_request(buffer', length', num_headers, offset)
                   /\ num_headers' = p.num /\ path' = p.path
                   /\ state' = CASE p.ret = "PARSE_FINISH" -> "READ_FINISH"
                                 [] p.ret = "PARSE_ERROR" -> "READ_ERROR"
                                 [] p.ret = "PARSE_INCOMPLETE" -> "READ_BUSY"
<1>0. /\ length \in Nat \ {0} /\ buffer \in [0 .. length - 1 -> Cells]
      /\ offset \in Nat /\ offset < length /\ arrived \in Nat
      /\ sent \in Seq(Cells) /\ Len(sent) \in Nat /\ arrived <= Len(sent)
      /\ \A i \in 0 .. offset - 1 : i < Len(sent) /\ buffer[i] = sent[i + 1]
  BY ReadFacts
<1>1. PICK len : len = Grown(arrived)
  OBVIOUS
<1>2. len \in Nat /\ arrived < len /\ length <= len
  BY <1>0, <1>1, GrownFacts
<1>3. /\ offset < arrived /\ length' = len /\ offset' = arrived
      /\ UNCHANGED <<sent, arrived, served>>
  BY <1>1 DEF try_parse_http_request
<1>4. PICK fresh \in [length .. len - 1 -> Heap] :
        buffer' = Stored([i \in 0 .. len - 1 |-> IF i < length THEN buffer[i] ELSE fresh[i]], len)
  BY <1>1 DEF try_parse_http_request
<1> DEFINE b == [i \in 0 .. len - 1 |-> IF i < length THEN buffer[i] ELSE fresh[i]]
<1>5. ASSUME NEW i \in 0 .. len - 1
      PROVE  b[i] \in Cells /\ (i < length => b[i] = buffer[i])
  <2>1. CASE i < length
    <3>1. i \in 0 .. length - 1
      BY <1>0, <1>2, <2>1
    <3> QED BY <1>0, <2>1, <3>1
  <2>2. CASE ~(i < length)
    <3>1. i \in length .. len - 1
      BY <1>0, <1>2, <2>2
    <3>2. fresh[i] \in Cells
      BY <3>1, ReadingAssumption
    <3> QED BY <2>2, <3>2
  <2> QED BY <2>1, <2>2
<1> HIDE DEF b
<1>6. buffer' = [i \in 0 .. len - 1 |-> IF offset <= i /\ i < arrived THEN sent[i + 1] ELSE b[i]]
  BY <1>4 DEF Stored, b
<1>7. ASSUME NEW i \in Nat, i < arrived
      PROVE  i + 1 \in 1 .. Len(sent) /\ sent[i + 1] \in Cells
  <2>1. i + 1 \in 1 .. Len(sent)
    BY <1>0, <1>7
  <2> QED BY <1>0, <2>1
<1>8. ASSUME NEW i \in 0 .. len - 1
      PROVE  buffer'[i] \in Cells /\ (i < arrived => buffer'[i] = sent[i + 1])
  <2>0. i \in Nat
    BY <1>2
  <2>1. CASE offset <= i /\ i < arrived
    BY <1>6, <1>7, <2>0, <2>1
  <2>2. CASE ~(i < arrived)
    BY <1>5, <1>6, <2>2
  <2>3. CASE i < arrived /\ ~(offset <= i)
    <3>1. i \in 0 .. offset - 1 /\ i < length
      BY <1>0, <2>0, <2>3
    <3>2. buffer'[i] = b[i] /\ b[i] = buffer[i] /\ b[i] \in Cells
      BY <1>5, <1>6, <2>3, <3>1
    <3> QED BY <1>0, <3>1, <3>2
  <2> QED BY <2>1, <2>2, <2>3
<1>9. buffer' \in [0 .. len - 1 -> Cells]
  BY <1>6, <1>8
<1>10. ASSUME NEW i \in 0 .. arrived - 1
       PROVE  i < Len(sent) /\ buffer'[i] = sent[i + 1]
  <2>1. i \in 0 .. len - 1 /\ i < arrived /\ i < Len(sent)
    BY <1>0, <1>2
  <2> QED BY <1>8, <2>1
<1>11. \E p : /\ p = phr_parse_request(buffer', length', num_headers, offset)
              /\ num_headers' = p.num /\ path' = p.path
              /\ state' = CASE p.ret = "PARSE_FINISH" -> "READ_FINISH"
                            [] p.ret = "PARSE_ERROR" -> "READ_ERROR"
                            [] p.ret = "PARSE_INCOMPLETE" -> "READ_BUSY"
  BY Zenon DEF try_parse_http_request, http_request_parse
<1>12. arrived > 0 /\ len # 0
  BY <1>0, <1>2, <1>3
<1> QED BY <1>2, <1>3, <1>9, <1>10, <1>11, <1>12

\* The parser meets a request that has arrived in full: it finishes with no
\* other request than this one, and must finish when all came in one read.
LEMMA WholeRequest ==
  ASSUME ReadInv, try_parse_http_request,
         NEW line \in Lines, NEW h \in Nat, NEW last \in Headers,
         sent = Request(line, h, last), arrived = Len(sent)
  PROVE  /\ state' = "READ_FINISH" => num_headers' = h /\ path' = 0
         /\ offset = 0 => IF h <= num_headers THEN state' = "READ_FINISH" /\ num_headers' = h
                                              ELSE state' = "READ_ERROR"
<1>0. /\ length' \in Nat /\ h + 2 < length' /\ num_headers \in Nat /\ offset \in Nat
      /\ \A i \in 0 .. h + 1 : buffer'[i] = Request(line, h, last)[i + 1]
  <2>1. arrived = h + 2
    BY RequestFacts
  <2>2. /\ length' \in Nat /\ arrived < length'
        /\ \A i \in 0 .. arrived - 1 : buffer'[i] = sent[i + 1]
    BY TryParseFacts
  <2>3. 0 .. arrived - 1 = 0 .. h + 1
    BY <2>1
  <2> QED BY <2>1, <2>2, <2>3, ReadFacts
<1>1. PICK p : /\ p = phr_parse_request(buffer', length', num_headers, offset)
               /\ num_headers' = p.num /\ path' = p.path
               /\ state' = CASE p.ret = "PARSE_FINISH" -> "READ_FINISH"
                             [] p.ret = "PARSE_ERROR" -> "READ_ERROR"
                             [] p.ret = "PARSE_INCOMPLETE" -> "READ_BUSY"
  BY TryParseFacts
<1>2. ASSUME p = parse_request(buffer', length', num_headers)
      PROVE  IF h <= num_headers THEN p = [num |-> h, path |-> 0, ret |-> "PARSE_FINISH"]
                                 ELSE p.ret = "PARSE_ERROR"
  <2>0. PICK buf : buf = buffer'
    OBVIOUS
  <2>1. PICK len \in Nat, max \in Nat : len = length' /\ max = num_headers
    BY <1>0
  <2>2. h + 2 < len /\ p = parse_request(buf, len, max) /\ InBuffer(buf, line, h, last)
    BY <1>0, <1>2, <2>0, <2>1 DEF InBuffer
  <2>3. IF h <= max THEN p = [num |-> h, path |-> 0, ret |-> "PARSE_FINISH"]
                    ELSE p.ret = "PARSE_ERROR"
    BY <2>1, <2>2, ParsesRequest
  <2> QED BY <2>1, <2>3
<1>3. CASE offset # 0 /\ ~is_complete(buffer', length', offset)
  <2>1. p.ret = "PARSE_INCOMPLETE"
    BY <1>1, <1>3 DEF phr_parse_request
  <2>2. state' = "READ_BUSY"
    BY <1>1, <2>1
  <2> QED BY <1>3, <2>2
<1>4. CASE ~(offset # 0 /\ ~is_complete(buffer', length', offset))
  <2>1. p = parse_request(buffer', length', num_headers)
    BY <1>1, <1>4 DEF phr_parse_request
  <2>2. CASE h <= num_headers
    <3>1. p = [num |-> h, path |-> 0, ret |-> "PARSE_FINISH"]
      BY <1>2, <2>1, <2>2
    <3>2. state' = "READ_FINISH" /\ num_headers' = h /\ path' = 0
      BY <1>1, <3>1
    <3> QED BY <2>2, <3>2
  <2>3. CASE ~(h <= num_headers)
    <3>1. p.ret = "PARSE_ERROR"
      BY <1>2, <2>1, <2>3
    <3>2. state' = "READ_ERROR"
      BY <1>1, <3>1
    <3> QED BY <2>3, <3>2
  <2> QED BY <2>2, <2>3
<1> QED BY <1>3, <1>4

\* try_parse_http_request.
LEMMA TryParseInv ==
  ASSUME ReadInv, try_parse_http_request
  PROVE  ReadInv'
<1>1. /\ length' \in Nat \ {0} /\ buffer' \in [0 .. length' - 1 -> Cells]
      /\ offset' = arrived /\ arrived < length'
      /\ \A i \in 0 .. arrived - 1 : i < Len(sent) /\ buffer'[i] = sent[i + 1]
      /\ UNCHANGED <<sent, arrived, served>>
  BY TryParseFacts
<1>2. /\ num_headers' \in 0 .. NumHeaders /\ path' \in 0 .. 1
      /\ state' \in {"READ_BUSY", "READ_FINISH", "READ_ERROR"}
      /\ state' = "READ_FINISH" => buffer'[path'] \in Lines
  <2>1. PICK p : /\ p = phr_parse_request(buffer', length', num_headers, offset)
                 /\ num_headers' = p.num /\ path' = p.path
                 /\ state' = CASE p.ret = "PARSE_FINISH" -> "READ_FINISH"
                               [] p.ret = "PARSE_ERROR" -> "READ_ERROR"
                               [] p.ret = "PARSE_INCOMPLETE" -> "READ_BUSY"
    BY TryParseFacts
  <2>2. num_headers \in 0 .. NumHeaders /\ num_headers \in Nat /\ NumHeaders \in Nat
    BY ReadFacts, ReadingAssumption
  <2>3. PICK len \in Nat \ {0}, max \in Nat : len = length' /\ max = num_headers
    BY <1>1, <2>2
  <2>4. p = phr_parse_request(buffer', len, max, offset)
    BY <2>1, <2>3
  <2>5. /\ p.num \in 0 .. max /\ p.path \in 0 .. 1
        /\ p.ret \in {"PARSE_FINISH", "PARSE_ERROR", "PARSE_INCOMPLETE"}
        /\ p.ret = "PARSE_FINISH" => buffer'[p.path] \in Lines
    BY <2>4, ParseTypes
  <2>6. p.num \in 0 .. NumHeaders
    BY <2>2, <2>3, <2>5
  <2> QED BY <2>1, <2>5, <2>6
<1>3. /\ arrived \in Nat /\ arrived \in 0 .. length' /\ arrived \in 0 .. Len(sent)
      /\ sent \in Seq(Cells) /\ served \in BOOLEAN
  <2>1. arrived \in Nat /\ arrived <= Len(sent) /\ Len(sent) \in Nat
        /\ sent \in Seq(Cells) /\ served \in BOOLEAN
    BY ReadFacts
  <2>2. PICK a \in Nat, len \in Nat : a = arrived /\ len = length' /\ a < len
    BY <1>1, <2>1
  <2>3. a \in 0 .. len
    BY <2>2
  <2> QED BY <2>1, <2>2, <2>3
<1>4. ReadTypeOK'
  <2>1. num_headers' \in 0 .. NumHeaders /\ path' \in 0 .. 1
        /\ state' \in {"READ_BUSY", "READ_FINISH", "READ_ERROR"}
    BY <1>2
  <2> QED BY <1>1, <1>3, <2>1 DEF ReadTypeOK
<1>5. BufferHoldsRequest' /\ RoomToRead'
  BY <1>1, <1>4 DEF BufferHoldsRequest, RoomToRead
<1>6. sent = << >> \/ \E h \in 0 .. MaxHeaders : Sending(h)
  BY DEF ReadInv
<1>7. sent' = << >> \/ \E h \in 0 .. MaxHeaders : Sending(h)'
  BY <1>1, <1>6 DEF Sending
<1>8. ASSUME state' = "READ_FINISH", arrived = Len(sent)
      PROVE  ParsedAsSent'
  <2>1. Len(<< >>) = 0
    OBVIOUS
  <2>2. arrived > 0
    BY TryParseFacts
  <2>3. PICK h \in 0 .. MaxHeaders, line \in Lines, last \in Headers :
          sent = Request(line, h, last)
    BY <1>6, <1>8, <2>1, <2>2 DEF Sending
  <2>4. h \in Nat
    BY ReadingAssumption
  <2>5. num_headers' = h /\ path' = 0
    BY <1>8, <2>3, <2>4, WholeRequest
  <2> QED BY <1>1, <2>3, <2>5 DEF ParsedAsSent
<1>9. /\ offset' <= arrived' /\ (state' # "READ_BUSY" => offset' = arrived')
  BY <1>1, <1>3
<1>10. state' = "READ_FINISH" => (buffer[path] \in Lines)'
  BY <1>2
<1>11. state' = "READ_FINISH" /\ arrived' = Len(sent') => ParsedAsSent'
  BY <1>1, <1>8
<1> QED BY <1>5, <1>7, <1>9, <1>10, <1>11 DEF ReadInv

------------------------------------------------------------------------------
(* The response *)

LEMMA DigitsNat ==
  ASSUME NEW n \in Nat
  PROVE  Digits(n) \in Nat
<1>1. IsFiniteSet(0 .. n)
  BY FS_Interval
<1>2. {e \in 0 .. n : Base ^ e <= n} \subseteq 0 .. n
  OBVIOUS
<1>3. IsFiniteSet({e \in 0 .. n : Base ^ e <= n})
  BY <1>1, <1>2, FS_Subset
<1> QED BY <1>3, FS_CardinalityType DEF Digits

\* The four appends of http_response_init.
LEMMA ResponseFacts ==
  ASSUME NEW n \in Nat, NEW keep, NEW r, r = http_response_init(n, keep)
  PROVE  /\ r[1] \in Nat /\ r[2] \in Nat /\ r[3] \in Nat /\ r[4] \in Nat
         /\ r = <<r[1], r[2], r[3], r[4]>>
<1>1. Digits(n) \in Nat
  BY DigitsNat
<1>2. ConnectionValue(keep) \in Nat
  BY DEF ConnectionValue
<1>3. r = <<1, 1 + Digits(n), 1 + ConnectionValue(keep), 1 + n>>
  BY DEF http_response_init, StatusLine
<1> QED BY <1>1, <1>2, <1>3

\* Appends are made from the first to the last.
LEMMA HeadAndTail ==
  ASSUME NEW a \in Nat, NEW b \in Nat, NEW c \in Nat, NEW d \in Nat
  PROVE  /\ Head(<<a, b, c, d>>) = a /\ Tail(<<a, b, c, d>>) = <<b, c, d>>
         /\ Head(<<b, c, d>>) = b /\ Tail(<<b, c, d>>) = <<c, d>>
         /\ Head(<<c, d>>) = c /\ Tail(<<c, d>>) = <<d>>
         /\ Head(<<d>>) = d /\ Tail(<<d>>) = << >>
OBVIOUS

\* A request that was parsed when all of it had arrived has the path and the
\* Connection header that were sent.
LEMMA AnsweredAsSent ==
  ASSUME ReadInv, state = "READ_FINISH", arrived = Len(sent)
  PROVE  /\ buffer[path] = sent[1] /\ sent[1] \in Lines
         /\ context_keep_alive <=> \E i \in DOMAIN sent : sent[i] = "keep"
<1>1. PICK line \in Lines, h \in 0 .. MaxHeaders, last \in Headers :
        sent = Request(line, h, last) /\ path = 0 /\ num_headers = h
  BY DEF ReadInv, ParsedAsSent
<1>2. h \in Nat
  BY ReadingAssumption
<1>3. /\ sent \in Seq(Cells) /\ Len(sent) = h + 2
      /\ sent[1] = line /\ sent[h + 2] = "blank"
  BY <1>1, <1>2, RequestFacts
<1>4. DOMAIN sent = 1 .. h + 2
  BY <1>3
<1>5. ASSUME NEW i \in 0 .. h + 1
      PROVE  buffer[i] = sent[i + 1]
  <2>1. offset = h + 2
    BY <1>3 DEF ReadInv
  <2>2. i \in 0 .. offset - 1
    BY <1>2, <2>1
  <2> QED BY <2>2, ReadFacts
<1>6. buffer[path] = sent[1]
  <2>1. 0 \in 0 .. h + 1 /\ 0 + 1 = 1
    BY <1>2
  <2> QED BY <1>1, <1>5, <2>1
<1>7. ASSUME context_keep_alive
      PROVE  \E i \in DOMAIN sent : sent[i] = "keep"
  <2>1. PICK i \in 1 .. h : buffer[0 + i] = "keep"
    BY <1>1, <1>7 DEF context_keep_alive
  <2>2. 0 + i = i /\ i \in 0 .. h + 1 /\ i + 1 \in 1 .. h + 2
    BY <1>2
  <2>3. sent[i + 1] = "keep"
    BY <1>5, <2>1, <2>2
  <2> QED BY <1>4, <2>2, <2>3
<1>8. ASSUME NEW i \in DOMAIN sent, sent[i] = "keep"
      PROVE  context_keep_alive
  <2>1. "keep" \notin Lines /\ "keep" # "blank"
    BY ReadingAssumption DEF Headers
  <2>2. i # 1 /\ i # h + 2
    BY <1>3, <1>8, <2>1
  <2>3. i \in 1 .. h + 2
    BY <1>4
  <2>4. i - 1 \in 1 .. h /\ i - 1 \in 0 .. h + 1 /\ (i - 1) + 1 = i /\ 0 + (i - 1) = i - 1
    BY <1>2, <2>2, <2>3
  <2>5. buffer[0 + (i - 1)] = "keep"
    BY <1>5, <1>8, <2>4
  <2> QED BY <1>1, <2>4, <2>5 DEF context_keep_alive
<1> QED BY <1>3, <1>6, <1>7, <1>8

------------------------------------------------------------------------------
(* The steps of the connection *)

LEMMA ReadSame ==
  ASSUME ReadInv, UNCHANGED read_vars
  PROVE  ReadInv'
<1>1. UNCHANGED <<buffer, length, offset, num_headers, path, sent, arrived, state, served>>
  BY DEF read_vars, http_request
<1>2. BufferHoldsRequest' /\ RoomToRead'
  BY <1>1 DEF ReadInv, BufferHoldsRequest, ReadTypeOK, RoomToRead
<1>3. sent' = << >> \/ \E h \in 0 .. MaxHeaders : Sending(h)'
  BY <1>1 DEF ReadInv, Sending
<1>4. state' = "READ_FINISH" /\ arrived' = Len(sent') => ParsedAsSent'
  BY <1>1 DEF ReadInv, ParsedAsSent
<1>5. /\ offset' <= arrived' /\ (state' # "READ_BUSY" => offset' = arrived')
      /\ state' = "READ_FINISH" => (buffer[path] \in Lines)'
  BY <1>1 DEF ReadInv
<1> QED BY <1>2, <1>3, <1>4, <1>5 DEF ReadInv

LEMMA OutSame ==
  ASSUME OutInv, UNCHANGED out_vars
  PROVE  OutInv'
<1>1. UNCHANGED <<out_buffer, out_length, write_from_offset, write_into_offset, written,
                  pc, exact, wire>>
  BY DEF out_vars
<1>2. OffsetsOrdered' /\ OneResize'
  BY <1>1 DEF OutInv, OffsetsOrdered, OutTypeOK, OneResize, max_to_write
<1>3. WireInOrder' /\ TextKept'
  BY <1>1 DEF OutInv, WireInOrder, TextKept
<1> QED BY <1>1, <1>2, <1>3 DEF OutInv

\* A read happens before the response is begun.
LEMMA ReadStep ==
  ASSUME IndInv, Read
  PROVE  IndInv'
<1>1. ReadInv /\ OutInv /\ ConnInv /\ UNCHANGED out_vars /\ UNCHANGED <<stage, todo>>
  BY DEF IndInv, Read, conn_vars
<1>2. OutInv'
  BY <1>1, OutSame
<1>3. ASSUME \E line \in Lines, h \in 0 .. MaxHeaders, last \in Headers :
               SendRequest(line, h, last)
      PROVE  ReadInv' /\ state = "READ_BUSY"
  <2>1. ReadInv'
    BY <1>1, <1>3, SendRequestInv
  <2>2. state = "READ_BUSY"
    BY <1>3 DEF SendRequest
  <2> QED BY <2>1, <2>2
<1>4. ASSUME \E n \in 1 .. MaxHeaders + 2 : Arrive(n)
      PROVE  ReadInv' /\ state = "READ_BUSY"
  <2>1. PICK n \in 1 .. MaxHeaders + 2 : Arrive(n)
    BY <1>4
  <2>2. n \in Nat
    BY ReadingAssumption
  <2>3. ReadInv'
    BY <1>1, <2>1, <2>2, ArriveInv
  <2>4. state = "READ_BUSY"
    BY <2>1 DEF Arrive
  <2> QED BY <2>3, <2>4
<1>5. ASSUME try_parse_http_request
      PROVE  ReadInv' /\ state = "READ_BUSY"
  BY <1>1, <1>5, TryParseInv DEF try_parse_http_request
<1>6. ReadInv' /\ state = "READ_BUSY"
  BY <1>3, <1>4, <1>5 DEF Read
<1>7. stage = "read" /\ todo = << >> /\ pc = "idle" /\ write_into_offset = 0
  BY <1>1, <1>6 DEF ConnInv
<1>8. stage' = "read" /\ todo' = << >> /\ pc' = "idle" /\ write_into_offset' = 0
  BY <1>1, <1>7 DEF out_vars
<1>9. ConnInv'
  BY <1>8 DEF ConnInv
<1> QED BY <1>2, <1>6, <1>9 DEF IndInv

\* The actor starts on the response, to the request that was parsed.
LEMMA HandleRequestStep ==
  ASSUME IndInv, handle_request
  PROVE  IndInv'
<1>1. /\ ReadInv /\ OutInv /\ ConnInv /\ stage = "read" /\ state = "READ_FINISH"
      /\ stage' = "respond" /\ UNCHANGED <<read_vars, out_vars>>
      /\ todo' = http_response_init(PathLen[buffer[path]], context_keep_alive)
  BY DEF IndInv, handle_request
<1>2. UNCHANGED <<sent, arrived, state, write_into_offset, written>>
  BY <1>1 DEF read_vars, out_vars
<1>3. ReadInv' /\ OutInv'
  BY <1>1, ReadSame, OutSame
<1>4. PathLen[buffer[path]] \in Nat
  BY <1>1, PathAssumption DEF ReadInv
<1>5. PICK r : r = todo'
  OBVIOUS
<1>6. /\ r[1] \in Nat /\ r[2] \in Nat /\ r[3] \in Nat /\ r[4] \in Nat
      /\ r = <<r[1], r[2], r[3], r[4]>>
  BY <1>1, <1>4, <1>5, ResponseFacts
<1>7. r \in Seq(Nat)
  <2>1. PICK a \in Nat, b \in Nat, c \in Nat, d \in Nat : r = <<a, b, c, d>>
    BY <1>6
  <2> QED BY <2>1
<1>8. write_into_offset + written = 0
  BY <1>1 DEF ConnInv, OutInv
<1>9. ASSUME arrived' = Len(sent')
      PROVE  Underway(OwnResponse)'
  <2>1. /\ buffer[path] = sent[1]
        /\ context_keep_alive <=> \E i \in DOMAIN sent : sent[i] = "keep"
    BY <1>1, <1>2, <1>9, AnsweredAsSent
  <2>2. r = OwnResponse
    BY <1>1, <1>5, <2>1 DEF OwnResponse, http_response_init, ConnectionValue
  <2>3. OwnResponse' = OwnResponse
    BY <1>2 DEF OwnResponse
  <2> QED BY <1>2, <1>5, <1>8, <2>2, <2>3 DEF Underway
<1>10. ConnInv'
  BY <1>1, <1>2, <1>5, <1>7, <1>9 DEF ConnInv
<1> QED BY <1>3, <1>10 DEF IndInv

\* Steps that read nothing keep the response that is due.
LEMMA ResponseSame ==
  ASSUME ReadInv, UNCHANGED read_vars, state = "READ_FINISH", arrived = Len(sent)
  PROVE  /\ OwnResponse' = OwnResponse
         /\ OwnResponse[1] \in Nat /\ OwnResponse[2] \in Nat
         /\ OwnResponse[3] \in Nat /\ OwnResponse[4] \in Nat
         /\ OwnResponse = <<OwnResponse[1], OwnResponse[2], OwnResponse[3], OwnResponse[4]>>
<1>1. OwnResponse' = OwnResponse
  BY DEF OwnResponse, read_vars
<1>2. PathLen[sent[1]] \in Nat
  BY AnsweredAsSent, PathAssumption
<1>3. PICK r : r = OwnResponse
  OBVIOUS
<1>4. PICK keep : r = http_response_init(PathLen[sent[1]], keep)
  BY <1>3 DEF OwnResponse
<1>5. /\ r[1] \in Nat /\ r[2] \in Nat /\ r[3] \in Nat /\ r[4] \in Nat
      /\ r = <<r[1], r[2], r[3], r[4]>>
  BY <1>2, <1>4, ResponseFacts
<1> QED BY <1>1, <1>3, <1>5

\* The next append: what is still to come gets shorter by what is appended.
LEMMA UnderwayNext ==
  ASSUME NEW r, r[1] \in Nat, r[2] \in Nat, r[3] \in Nat, r[4] \in Nat,
         r = <<r[1], r[2], r[3], r[4]>>, Underway(r), todo # << >>,
         written = 0, write_into_offset \in Nat,
         todo' = Tail(todo), written' = Head(todo), write_into_offset' = write_into_offset
  PROVE  Underway(r)'
<1>1. PICK a \in Nat, b \in Nat, c \in Nat, d \in Nat :
        a = r[1] /\ b = r[2] /\ c = r[3] /\ d = r[4]
  OBVIOUS
<1>2. write_into_offset + written = write_into_offset
  OBVIOUS
<1>3. CASE todo = r /\ write_into_offset = 0
  <2>0. todo = <<a, b, c, d>>
    BY <1>1, <1>3
  <2>1. todo' = <<b, c, d>> /\ written' = a
    BY <2>0, HeadAndTail
  <2>2. write_into_offset' + written' = a
    BY <1>1, <1>3, <2>1
  <2> QED BY <1>1, <2>1, <2>2 DEF Underway
<1>4. CASE todo = <<b, c, d>> /\ write_into_offset = a
  <2>1. todo' = <<c, d>> /\ written' = b
    BY <1>1, <1>4, HeadAndTail
  <2>2. write_into_offset' + written' = a + b
    BY <1>1, <1>4, <2>1
  <2> QED BY <1>1, <2>1, <2>2 DEF Underway
<1>5. CASE todo = <<c, d>> /\ write_into_offset = a + b
  <2>1. todo' = <<d>> /\ written' = c
    BY <1>1, <1>5, HeadAndTail
  <2>2. write_into_offset' + written' = a + b + c
    BY <1>1, <1>5, <2>1
  <2> QED BY <1>1, <2>1, <2>2 DEF Underway
<1>6. CASE todo = <<d>> /\ write_into_offset = a + b + c
  <2>1. todo' = << >> /\ written' = d
    BY <1>1, <1>6, HeadAndTail
  <2>2. write_into_offset' + written' = a + b + c + d
    BY <1>1, <1>6, <2>1
  <2> QED BY <1>1, <2>1, <2>2 DEF Underway
<1> QED BY <1>1, <1>2, <1>3, <1>4, <1>5, <1>6 DEF Underway

\* http_response_init calls output_buffer_append.
LEMMA NextAppendStep ==
  ASSUME IndInv, NextAppend
  PROVE  IndInv'
<1>1. /\ ReadInv /\ OutInv /\ ConnInv /\ todo # << >> /\ AppendCall(Head(todo))
      /\ todo' = Tail(todo) /\ UNCHANGED read_vars /\ stage' = stage
  BY DEF IndInv, NextAppend
<1>2. /\ pc = "idle" /\ written' = Head(todo)
      /\ UNCHANGED write_into_offset /\ UNCHANGED <<arrived, sent, state>>
  BY <1>1 DEF AppendCall, read_vars
<1>3. todo \in Seq(Nat) /\ Head(todo) \in Nat /\ Tail(todo) \in Seq(Nat)
  BY <1>1 DEF ConnInv
<1>4. ReadInv' /\ OutInv'
  BY <1>1, <1>3, ReadSame, AppendCallInv
<1>5. stage = "respond" /\ state = "READ_FINISH"
  BY <1>1 DEF ConnInv
<1>6. written = 0 /\ write_into_offset \in Nat
  BY <1>1, <1>2, OutFacts DEF OutInv
<1>7. ASSUME arrived' = Len(sent')
      PROVE  Underway(OwnResponse)'
  <2>1. PICK r : r = OwnResponse
    OBVIOUS
  <2>2. /\ OwnResponse' = r /\ r[1] \in Nat /\ r[2] \in Nat /\ r[3] \in Nat /\ r[4] \in Nat
        /\ r = <<r[1], r[2], r[3], r[4]>>
    BY <1>1, <1>2, <1>5, <1>7, <2>1, ResponseSame
  <2>3. Underway(r)
    BY <1>1, <1>2, <1>5, <1>7, <2>1 DEF ConnInv
  <2>4. Underway(r)'
    BY <1>1, <1>2, <1>6, <2>2, <2>3, UnderwayNext
  <2> QED BY <2>2, <2>4 DEF Underway
<1>8. ConnInv'
  BY <1>1, <1>2, <1>3, <1>5, <1>7 DEF ConnInv
<1> QED BY <1>4, <1>8 DEF IndInv

\* Steps that neither read nor begin an append: the text in the buffer and the
\* text being appended stay the same together.
LEMMA TextSame ==
  ASSUME ReadInv, ConnInv, stage = "respond", UNCHANGED read_vars, UNCHANGED <<stage, todo>>,
         write_into_offset' + written' = write_into_offset + written
  PROVE  ConnInv'
<1>1. UNCHANGED <<arrived, sent, state>> /\ state = "READ_FINISH"
  BY DEF read_vars, ConnInv
<1>2. ASSUME arrived' = Len(sent')
      PROVE  Underway(OwnResponse)'
  <2>1. OwnResponse' = OwnResponse
    BY <1>1, <1>2, ResponseSame
  <2>2. Underway(OwnResponse)
    BY <1>1, <1>2 DEF ConnInv
  <2> QED BY <2>1, <2>2 DEF Underway
<1> QED BY <1>1, <1>2 DEF ConnInv

\* The loop of output_buffer_append.
LEMMA AppendLoopStep ==
  ASSUME IndInv, AppendLoop
  PROVE  IndInv'
<1>1. /\ ReadInv /\ OutInv /\ ConnInv /\ UNCHANGED read_vars /\ UNCHANGED <<stage, todo>>
      /\ AppendGrow \/ AppendDone
  BY DEF IndInv, AppendLoop, conn_vars
<1>2. ReadInv' /\ OutInv'
  BY <1>1, ReadSame, AppendGrowInv, AppendDoneInv
<1>3. pc # "idle"
  BY <1>1 DEF AppendGrow, AppendDone
<1>4. stage = "respond"
  BY <1>1, <1>3 DEF ConnInv
<1>5. write_into_offset \in Nat /\ written \in Nat
  BY <1>1, OutFacts
<1>6. write_into_offset' + written' = write_into_offset + written
  BY <1>1, <1>5 DEF AppendGrow, AppendDone
<1>7. ConnInv'
  BY <1>1, <1>4, <1>6, TextSame
<1> QED BY <1>2, <1>7 DEF IndInv

\* client_handle_write while the response is not all sent.
LEMMA SendStep ==
  ASSUME IndInv, NEW m \in Nat, Send(m)
  PROVE  IndInv'
<1>1. /\ ReadInv /\ OutInv /\ ConnInv /\ UNCHANGED read_vars /\ UNCHANGED <<stage, todo>>
      /\ stage = "respond" /\ output_buffer_write_to(m)
  BY DEF IndInv, Send, ToSend, conn_vars
<1>2. ReadInv' /\ OutInv'
  BY <1>1, ReadSame, WriteToInv
<1>3. write_into_offset' + written' = write_into_offset + written
  BY <1>1 DEF output_buffer_write_to
<1>4. ConnInv'
  BY <1>1, <1>3, TextSame
<1> QED BY <1>2, <1>4 DEF IndInv

\* Nothing is under way once a connection is reset or closed.
LEMMA ConnCleared ==
  ASSUME stage' = "read", todo' = << >>, pc' = "idle", write_into_offset' = 0
  PROVE  ConnInv'
BY DEF ConnInv

\* client_handle_write after the last byte, when the connection is kept.
LEMMA KeepStep ==
  ASSUME IndInv, Keep
  PROVE  IndInv'
<1>1. /\ ReadInv /\ OutInv /\ ConnInv /\ todo = << >> /\ pc = "idle"
      /\ client_reset_connection /\ output_buffer_reset /\ stage' = "read" /\ todo' = todo
  BY DEF IndInv, Keep, WriteFinish, ToSend
<1>2. ReadInv'
  <2>1. /\ offset' = 0 /\ state' = "READ_BUSY" /\ sent' = << >> /\ arrived' = 0
        /\ served' = TRUE /\ UNCHANGED <<buffer, length, num_headers, path>>
    BY <1>1 DEF client_reset_connection, http_request
  <2>2. /\ length \in Nat \ {0} /\ buffer \in [0 .. length - 1 -> Cells]
        /\ num_headers \in 0 .. NumHeaders /\ path \in 0 .. 1
    BY <1>1, ReadFacts
  <2> QED BY <2>1, <2>2, ReadCleared
<1>3. OutInv' /\ pc' = "idle" /\ write_into_offset' = 0
  <2>1. /\ write_from_offset' = 0 /\ write_into_offset' = 0 /\ exact' = {} /\ wire' = << >>
        /\ out_buffer' = [i \in 0 .. out_length - 1 |-> Junk]
        /\ UNCHANGED <<out_length, written, pc>>
    BY <1>1 DEF output_buffer_reset, ResetFrom
  <2>2. out_length \in Nat \ {0} /\ written = 0
    BY <1>1, OutFacts DEF OutInv
  <2>3. PICK n \in Nat \ {0} : n = out_length
    BY <2>2
  <2> QED BY <1>1, <2>1, <2>2, <2>3, OutCleared
<1> QED BY <1>1, <1>2, <1>3, ConnCleared DEF IndInv

\* The connection is closed and the next one accepted.
LEMMA CloseStep ==
  ASSUME IndInv, CloseAndAccept
  PROVE  IndInv'
<1>1. /\ ReadInv /\ OutInv /\ ConnInv
      /\ client_close_connection /\ output_buffer_destroy /\ stage' = "read" /\ todo' = todo
  BY DEF IndInv, CloseAndAccept
<1>2. todo = << >>
  <2>1. CASE state = "READ_ERROR"
    BY <1>1, <2>1 DEF ConnInv
  <2>2. CASE state # "READ_ERROR"
    BY <2>2 DEF CloseAndAccept, WriteFinish, ToSend
  <2> QED BY <2>1, <2>2
<1>3. ReadInv'
  <2>1. /\ buffer' \in [0 .. InitLength - 1 -> Heap] /\ length' = InitLength
        /\ offset' = 0 /\ num_headers' = NumHeaders /\ path' = 0 /\ sent' = << >>
        /\ arrived' = 0 /\ state' = "READ_BUSY" /\ served' = FALSE
    BY <1>1 DEF client_close_connection
  <2>2. InitLength \in Nat \ {0} /\ NumHeaders \in Nat /\ Heap \subseteq Cells
    BY ReadingAssumption
  <2>3. NumHeaders \in 0 .. NumHeaders /\ 0 \in 0 .. 1
    BY <2>2
  <2>4. buffer' \in [0 .. InitLength - 1 -> Cells]
    BY <2>1, <2>2
  <2> QED BY <2>1, <2>2, <2>3, <2>4, ReadCleared
<1>4. OutInv' /\ pc' = "idle" /\ write_into_offset' = 0
  <2>1. /\ pc = "idle" /\ write_from_offset' = 0 /\ write_into_offset' = 0 /\ exact' = {}
        /\ wire' = << >> /\ out_buffer' = [i \in 0 .. InitSize - 1 |-> Junk]
        /\ out_length' = InitSize /\ UNCHANGED <<written, pc>>
    BY <1>1 DEF output_buffer_destroy
  <2>2. InitSize \in Nat \ {0} /\ written = 0
    BY <1>1, <2>1, OutFacts DEF OutInv
  <2> QED BY <2>1, <2>2, OutCleared
<1> QED BY <1>1, <1>2, <1>3, <1>4, ConnCleared DEF IndInv

LEMMA InitInv == Init => IndInv
<1> SUFFICES ASSUME Init PROVE IndInv
  OBVIOUS
<1>1. ReadInv /\ OutInv
  BY ReadInitInv, OutInitInv DEF Init
<1>2. stage = "read" /\ todo = << >> /\ pc = "idle" /\ write_into_offset = 0
  BY DEF Init, OutInit
<1>3. ConnInv
  BY <1>2 DEF ConnInv
<1> QED BY <1>1, <1>3 DEF IndInv

LEMMA NextInv == IndInv /\ [Next]_vars => IndInv'
<1> SUFFICES ASSUME IndInv, [Next]_vars PROVE IndInv'
  OBVIOUS
<1>1. CASE Read
  BY <1>1, ReadStep
<1>2. CASE handle_request
  BY <1>2, HandleRequestStep
<1>3. CASE NextAppend
  BY <1>3, NextAppendStep
<1>4. CASE AppendLoop
  BY <1>4, AppendLoopStep
<1>5. CASE \E m \in 1 .. MaxText : Send(m)
  <2>1. PICK m \in 1 .. MaxText : Send(m)
    BY <1>5
  <2>2. m \in Nat
    BY SizeAssumption
  <2> QED BY <2>1, <2>2, SendStep
<1>6. CASE Keep
  BY <1>6, KeepStep
<1>7. CASE CloseAndAccept
  BY <1>7, CloseStep
<1>8. CASE UNCHANGED vars
  <2>1. /\ ReadInv /\ OutInv /\ ConnInv /\ UNCHANGED read_vars /\ UNCHANGED out_vars
        /\ UNCHANGED <<stage, todo>>
    BY <1>8 DEF IndInv, vars, conn_vars
  <2>2. ReadInv' /\ OutInv'
    BY <2>1, ReadSame, OutSame
  <2>3. ConnInv'
    <3>1. UNCHANGED <<pc, write_into_offset, written>>
      BY <2>1 DEF out_vars
    <3>2. CASE stage = "respond"
      BY <2>1, <3>1, <3>2, TextSame
    <3>3. CASE stage # "respond"
      BY <2>1, <3>1, <3>3, ConnCleared DEF ConnInv
    <3> QED BY <3>2, <3>3
  <2> QED BY <2>2, <2>3 DEF IndInv
<1> QED BY <1>1, <1>2, <1>3, <1>4, <1>5, <1>6, <1>7, <1>8 DEF Next

\* Only a read that empties the kernel's buffer moves an offset that was 0.
LEMMA ParsedStep ==
  ASSUME IndInv, [Next]_vars, NEW h \in 0 .. MaxHeaders, WholeAtOnce(h), offset' # offset
  PROVE  IF h <= num_headers THEN state' = "READ_FINISH" /\ num_headers' = h
                             ELSE state' = "READ_ERROR"
<1>1. PICK line \in Lines, last \in Headers : sent = Request(line, h, last)
  BY DEF WholeAtOnce, Sending
<1>2. offset = 0 /\ arrived = Len(sent) /\ h \in Nat /\ ReadInv
  BY ReadingAssumption DEF WholeAtOnce, IndInv
<1>3. try_parse_http_request
  <2>1. CASE Read
    BY <2>1 DEF Read, SendRequest, Arrive
  <2>2. CASE handle_request \/ NextAppend \/ AppendLoop \/ \E m \in 1 .. MaxText : Send(m)
    <3>1. UNCHANGED read_vars
      BY <2>2 DEF handle_request, NextAppend, AppendLoop, Send
    <3> QED BY <3>1 DEF read_vars
  <2>3. CASE Keep \/ CloseAndAccept
    <3>1. offset' = 0
      BY <2>3 DEF Keep, CloseAndAccept, client_reset_connection, client_close_connection
    <3> QED BY <1>2, <3>1
  <2>4. CASE UNCHANGED vars
    BY <2>4 DEF vars, read_vars
  <2> QED BY <2>1, <2>2, <2>3, <2>4 DEF Next
<1> QED BY <1>1, <1>2, <1>3, WholeRequest

------------------------------------------------------------------------------
(* The theorems *)

\* The inductive invariant holds in every reachable state.
THEOREM Invariance == Spec => []IndInv
<1> QED BY InitInv, NextInv, PTL DEF Spec

(***************************************************************************)
(* input_buffer_read_into always has room for a byte, for every initial    *)
(* length: resize comes before each read, and doubling is always enough.   *)
(***************************************************************************)
THEOREM AlwaysRoomToRead == Spec => []RoomToRead
<1>1. IndInv => RoomToRead
  BY DEF IndInv, ReadInv
<1> QED BY <1>1, Invariance, PTL

(***************************************************************************)
(* The input buffer holds the lines of the current request in order, for   *)
(* requests of any length, cut in any way, on new and on kept connections. *)
(***************************************************************************)
THEOREM BufferAlwaysHoldsRequest == Spec => []BufferHoldsRequest
<1>1. IndInv => BufferHoldsRequest
  BY DEF IndInv, ReadInv
<1> QED BY <1>1, Invariance, PTL

(***************************************************************************)
(* phr_parse_request, given all of a request in one read, accepts it with  *)
(* its own number of headers or refuses it for having more of them than    *)
(* http_request.num_headers, whatever lies behind it in the buffer.        *)
(***************************************************************************)
THEOREM AlwaysParsedWithinLimit == Spec => ParsedWithinLimit
<1>1. IndInv /\ [Next]_vars
        => [\A h \in 0 .. MaxHeaders :
              WholeAtOnce(h) /\ offset' # offset
                => IF h <= num_headers THEN state' = "READ_FINISH" /\ num_headers' = h
                                       ELSE state' = "READ_ERROR"]_read_vars
  BY ParsedStep
<1> QED BY <1>1, Invariance, PTL DEF Spec, ParsedWithinLimit

(***************************************************************************)
(* The offsets of the output buffer stay ordered and within the            *)
(* allocation, for every initial size and every length of the appends.     *)
(***************************************************************************)
THEOREM OffsetsAlwaysOrdered == Spec => []OffsetsOrdered
<1>1. IndInv => OffsetsOrdered
  BY DEF IndInv, OutInv
<1> QED BY <1>1, Invariance, PTL

(***************************************************************************)
(* The loop of output_buffer_append never resizes twice for one text.      *)
(***************************************************************************)
THEOREM OneResizeEnough == Spec => []OneResize
<1>1. IndInv => OneResize
  BY DEF IndInv, OutInv
<1> QED BY <1>1, Invariance, PTL

(***************************************************************************)
(* output_buffer_write_to hands the socket the appended bytes in order,    *)
(* each once, but for the bytes that vsnprintf's terminator replaced.      *)
(***************************************************************************)
THEOREM WireAlwaysInOrder == Spec => []WireInOrder
<1>1. IndInv => WireInOrder
  BY DEF IndInv, OutInv
<1> QED BY <1>1, Invariance, PTL

(***************************************************************************)
(* When client_handle_write finishes, the client whose whole request had   *)
(* arrived has been sent the response to it and no byte more or less, for  *)
(* paths of any length, whatever the connection served before.             *)
(***************************************************************************)
THEOREM OwnResponseAlwaysSent == Spec => []OwnResponseSent
<1>1. ASSUME IndInv, WriteFinish, arrived = Len(sent)
      PROVE  Len(wire) = OwnResponse[1] + OwnResponse[2] + OwnResponse[3] + OwnResponse[4]
  <2>1. /\ stage = "respond" /\ todo = << >> /\ pc = "idle"
        /\ write_from_offset = write_into_offset
    BY <1>1 DEF WriteFinish, ToSend
  <2>2. Underway(OwnResponse) /\ OutInv
    BY <1>1, <2>1 DEF IndInv, ConnInv
  <2>3. Len(wire) = write_from_offset /\ written = 0 /\ write_into_offset \in Nat
    BY <2>1, <2>2, OutFacts DEF OutInv, WireInOrder
  <2>4. write_into_offset + written = write_into_offset
    BY <2>3
  <2>5. OwnResponse # << >>
    <3>1. PICK a, b, c, d : OwnResponse = <<a, b, c, d>>
      BY DEF OwnResponse, http_response_init
    <3> QED BY <3>1
  <2> QED BY <2>1, <2>2, <2>3, <2>4, <2>5 DEF Underway
<1>2. IndInv => OwnResponseSent
  BY <1>1 DEF OwnResponseSent
<1> QED BY <1>2, Invariance, PTL
==============================================================================
