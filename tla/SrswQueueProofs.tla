--------------------------- MODULE SrswQueueProofs ---------------------------
(***************************************************************************)
(* Proofs about srsw_queue.c and its reader, for every ring size, every    *)
(* set of payloads and every word size: the accounting of notifications,   *)
(* the refinement of Mailbox, and what queue_size returns.                 *)
(***************************************************************************)
EXTENDS SrswQueueSize, RingLemmas, WellFoundedInduction, TLAPS

\* Where the reader is tells whether it still owes a pop.
PopsOwed ==
  /\ r_pc \in {"load_push", "fetch", "advance"} => r_num > 0
  /\ r_pc \in {"wait", "drain"} => r_num = 0

\* Between the test for a full ring and the publication there is a free slot
\* besides the one kept open.
RoomForPush == w_pc \in {"store", "publish"} => Step(push_offset) # pop_offset

IndInv == TypeOK /\ EventAccounting /\ PopsOwed /\ RoomForPush

------------------------------------------------------------------------------
(* The arithmetic of the offsets *)

\* "& mask" either increments an offset or wraps it to zero.
LEMMA StepValue ==
  ASSUME NEW i \in Offsets
  PROVE  /\ Step(i) \in Offsets
         /\ Step(i) = IF i + 1 = Size THEN 0 ELSE i + 1
<1>1. CASE i + 1 = Size
  <2>1. Size % Size = 0
    BY SizeAssumption
  <2> QED BY <1>1, <2>1, SizeAssumption DEF Step, Offsets
<1>2. CASE i + 1 # Size
  <2>1. i + 1 \in 0 .. Size - 1
    BY <1>2, SizeAssumption DEF Offsets
  <2>2. (i + 1) % Size = i + 1
    BY <2>1, SizeAssumption
  <2> QED BY <1>2, <2>1, <2>2 DEF Step, Offsets
<1> QED BY <1>1, <1>2

\* The size is below Size, and is zero exactly for equal offsets.
LEMMA SizeRange ==
  ASSUME NEW i \in Offsets, NEW j \in Offsets
  PROVE  /\ SizeOf(i, j) \in 0 .. Size - 1
         /\ SizeOf(i, j) = 0 <=> i = j
BY SizeAssumption DEF SizeOf, Offsets

\* Publishing into a ring that is not full adds one to the size.
LEMMA SizeAfterPush ==
  ASSUME NEW i \in Offsets, NEW j \in Offsets, Step(i) # j
  PROVE  SizeOf(Step(i), j) = SizeOf(i, j) + 1
BY StepValue, SizeAssumption DEF SizeOf, Offsets

\* Advancing over a ring that is not empty takes one from the size.
LEMMA SizeAfterPop ==
  ASSUME NEW i \in Offsets, NEW j \in Offsets, i # j
  PROVE  SizeOf(i, Step(j)) = SizeOf(i, j) - 1
BY StepValue, SizeAssumption DEF SizeOf, Offsets

\* A pop never fills the ring: after it the ring is not full.
LEMMA NotFullAfterPop ==
  ASSUME NEW i \in Offsets, NEW j \in Offsets, i # j
  PROVE  Step(i) # Step(j)
BY StepValue, SizeAssumption DEF Offsets

------------------------------------------------------------------------------
(* The inductive invariant *)

\* An announced payload is there: the ring is not empty while a pop is owed.
LEMMA OwedMeansNonEmpty ==
  ASSUME IndInv, r_num > 0
  PROVE  pop_offset # push_offset
<1>1. SizeOf(push_offset, pop_offset) > 0
  BY DEF IndInv, EventAccounting, TypeOK, Owed
<1> QED BY <1>1, SizeRange DEF IndInv, TypeOK

\* queue_init establishes the invariant.
LEMMA InitIndInv == Init => IndInv
BY SizeAssumption, ValueAssumption
   DEF Init, IndInv, TypeOK, EventAccounting, PopsOwed, RoomForPush, Offsets,
       SizeOf, Owed, WriterSteps, ReaderSteps

\* Every step of queue_push, of queue_pop and of the reader's loop keeps it.
LEMMA NextIndInv == IndInv /\ [Next]_vars => IndInv'
<1> SUFFICES ASSUME IndInv, [Next]_vars
             PROVE  IndInv'
  OBVIOUS
<1> USE DEF IndInv
<1>1. ASSUME NEW v \in Values, PushBegin(v)
      PROVE  IndInv'
  BY <1>1 DEF PushBegin, TypeOK, EventAccounting, PopsOwed, RoomForPush, Owed,
              WriterSteps, r_vars
<1>2. CASE PushLoadPop
  BY <1>2 DEF PushLoadPop, Full, TypeOK, EventAccounting, PopsOwed, RoomForPush,
              Owed, WriterSteps, r_vars
<1>3. CASE PushStore
  BY <1>3 DEF PushStore, TypeOK, EventAccounting, PopsOwed, RoomForPush, Owed,
              WriterSteps, r_vars
<1>4. CASE PushPublish
  <2>1. TypeOK'
    BY <1>4, StepValue DEF PushPublish, TypeOK, WriterSteps, r_vars
  <2>2. SizeOf(push_offset', pop_offset) = SizeOf(push_offset, pop_offset) + 1
    BY <1>4, SizeAfterPush DEF PushPublish, TypeOK, RoomForPush
  <2>3. EventAccounting'
    BY <1>4, <2>2 DEF PushPublish, TypeOK, EventAccounting, Owed, r_vars
  <2> QED BY <1>4, <2>1, <2>3 DEF PushPublish, PopsOwed, RoomForPush, r_vars
<1>5. CASE PushNotify
  BY <1>5 DEF PushNotify, Notified, TypeOK, EventAccounting, PopsOwed, RoomForPush,
              Owed, WriterSteps, r_vars
<1>6. CASE EpollWait
  BY <1>6 DEF EpollWait, TypeOK, EventAccounting, PopsOwed, RoomForPush, Owed,
              ReaderSteps, w_vars
<1>7. CASE Drain
  BY <1>7 DEF Drain, num_to_read, LeftAfterRead, TypeOK, EventAccounting, PopsOwed,
              RoomForPush, Owed, ReaderSteps, w_vars
<1>8. CASE PopLoadPush
  <2>1. pop_offset # push_offset
    BY <1>8, OwedMeansNonEmpty DEF PopLoadPush, PopsOwed
  <2> QED BY <1>8, <2>1
          DEF PopLoadPush, TypeOK, EventAccounting, PopsOwed, RoomForPush, Owed,
              ReaderSteps, w_vars
<1>9. CASE PopFetch
  BY <1>9 DEF PopFetch, PopSlot, TypeOK, EventAccounting, PopsOwed, RoomForPush,
              Owed, ReaderSteps, w_vars
<1>10. CASE PopAdvance
  <2>1. r_num > 0 /\ pop_offset # push_offset
    BY <1>10, OwedMeansNonEmpty DEF PopAdvance, PopsOwed
  <2>2. TypeOK'
    BY <1>10, <2>1, StepValue DEF PopAdvance, TypeOK, ReaderSteps, w_vars
  <2>3. SizeOf(push_offset, pop_offset') = SizeOf(push_offset, pop_offset) - 1
    BY <1>10, <2>1, SizeAfterPop DEF PopAdvance, TypeOK
  <2>4. EventAccounting'
    BY <1>10, <2>1, <2>3, SizeRange
       DEF PopAdvance, TypeOK, EventAccounting, Owed, w_vars
  <2>5. RoomForPush'
    BY <1>10, <2>1, NotFullAfterPop DEF PopAdvance, TypeOK, RoomForPush, w_vars
  <2>6. PopsOwed'
    BY <1>10, <2>1 DEF PopAdvance, TypeOK, PopsOwed
  <2> QED BY <2>2, <2>4, <2>5, <2>6
<1>11. CASE UNCHANGED vars
  BY <1>11 DEF vars, w_vars, r_vars, TypeOK, EventAccounting, PopsOwed,
               RoomForPush, Owed
<1> QED BY <1>1, <1>2, <1>3, <1>4, <1>5, <1>6, <1>7, <1>8, <1>9, <1>10, <1>11
        DEF Next, Writer, Reader

\* The invariant holds in every reachable state.
THEOREM Invariance == Spec => []IndInv
BY InitIndInv, NextIndInv, PTL DEF Spec

------------------------------------------------------------------------------
(* What it gives *)

\* The variables keep their types; in particular both offsets stay in the ring.
THEOREM TypeCorrect == Spec => []TypeOK
<1>1. IndInv => TypeOK
  BY DEF IndInv
<1> QED BY <1>1, Invariance, PTL

\* Every payload in the ring is announced exactly once: no lost wake-up.
THEOREM Announced == Spec => []EventAccounting
<1>1. IndInv => EventAccounting
  BY DEF IndInv
<1> QED BY <1>1, Invariance, PTL

\* queue_pop never returns NULL to process_epoll_event.
THEOREM NeverNull == Spec => []NoNullPop
<1>1. IndInv => NoNullPop
  <2>1. IndInv /\ r_pc = "load_push" => r_num > 0
    BY DEF IndInv, PopsOwed
  <2> QED BY <2>1, OwedMeansNonEmpty DEF NoNullPop
<1> QED BY <1>1, Invariance, PTL

\* The writer and the reader never touch one slot at the same time, and no
\* store hits a payload that has not been popped.
THEOREM ExclusiveSlots == Spec => []SlotExclusive
<1>1. IndInv => SlotExclusive
  <2>1. IndInv /\ r_pc = "fetch" => r_num > 0
    BY DEF IndInv, PopsOwed
  <2>2. IndInv /\ r_pc = "fetch" => push_offset # pop_offset
    BY <2>1, OwedMeansNonEmpty
  <2> QED BY <2>2 DEF SlotExclusive, IndInv, RoomForPush
<1> QED BY <1>1, Invariance, PTL

------------------------------------------------------------------------------
(* The mailbox *)

\* The slots from pop_offset up to, not including, push_offset.
Occupied(s) ==
  IF pop_offset <= push_offset THEN pop_offset <= s /\ s < push_offset
  ELSE pop_offset <= s \/ s < push_offset

\* What the refinement needs besides IndInv: the slot being published holds the
\* payload of this push, the payload being popped is that of the oldest slot,
\* and every payload lies in the memory that was allocated.
SlotsRight ==
  /\ w_pc = "publish" => ring_buffer[push_offset] = w_ptr /\ Allocated(push_offset)
  /\ r_pc = "advance" => r_ptr = ring_buffer[pop_offset]
  /\ \A s \in Offsets : Occupied(s) => Allocated(s)

\* The slot of a push comes right behind the payloads and is none of theirs.
LEMMA PushSlot ==
  ASSUME NEW i \in Offsets, NEW j \in Offsets
  PROVE  /\ (j + SizeOf(i, j)) % Size = i
         /\ Unused(Size, j, SizeOf(i, j), i)
<1>1. SizeOf(i, j) \in 0 .. Size - 1
  BY SizeRange
<1>2. Once(j + SizeOf(i, j), Size) = i
  BY SizeAssumption DEF Once, SizeOf, Offsets
<1>3. (j + SizeOf(i, j)) % Size = Once(j + SizeOf(i, j), Size)
  <2>1. j + SizeOf(i, j) \in 0 .. 2 * Size - 1
    BY <1>1, SizeAssumption DEF Offsets
  <2> QED BY <2>1, Wrap, SizeAssumption, Zenon
<1>4. ASSUME NEW k \in 0 .. SizeOf(i, j) - 1
      PROVE  (j + k) % Size # i
  <2>1. j + k \in 0 .. 2 * Size - 1
    BY <1>1, SizeAssumption DEF Offsets
  <2>2. (j + k) % Size = Once(j + k, Size)
    BY <2>1, Wrap, SizeAssumption, Zenon
  <2>3. Once(j + k, Size) # i
    BY SizeAssumption DEF Once, SizeOf, Offsets
  <2> QED BY <2>2, <2>3
<1> QED BY <1>2, <1>3, <1>4 DEF Unused

\* Contents in the words of RingLemmas.
LEMMA ContentsInRing ==
  Contents = InRing(ring_buffer, Size, pop_offset, SizeOf(push_offset, pop_offset))
BY DEF Contents, InRing

\* SlotsRight holds at first: the ring is empty.
LEMMA InitSlotsRight == Init => SlotsRight
BY DEF Init, SlotsRight, Occupied, Offsets

\* Every step keeps it, provided that the store of queue_push stays inside the
\* allocation.
LEMMA NextSlotsRight ==
  IndInv /\ SlotsRight /\ StoreInBuffer /\ [Next]_vars => SlotsRight'
<1> SUFFICES ASSUME IndInv, SlotsRight, StoreInBuffer, [Next]_vars
             PROVE  SlotsRight'
  OBVIOUS
<1>1. TypeOK
  BY DEF IndInv
<1>2. r_pc = "advance" => pop_offset # push_offset
  BY OwedMeansNonEmpty DEF IndInv, PopsOwed
<1> USE DEF SlotsRight
<1>3. ASSUME NEW v \in Values, PushBegin(v)
      PROVE  SlotsRight'
  BY <1>3 DEF PushBegin, Occupied, r_vars
<1>4. CASE PushLoadPop
  BY <1>4 DEF PushLoadPop, Occupied, r_vars
<1>5. CASE PushStore
  BY <1>1, <1>2, <1>5 DEF PushStore, StoreInBuffer, Occupied, TypeOK, r_vars
<1>6. CASE PushPublish
  <2>1. \A s \in Offsets : Occupied(s)' => s = push_offset \/ Occupied(s)
    <3>1. push_offset \in Offsets /\ pop_offset \in Offsets /\ pop_offset' = pop_offset
      BY <1>1, <1>6 DEF PushPublish, TypeOK
    <3>2. /\ push_offset' = IF push_offset + 1 = Size THEN 0 ELSE push_offset + 1
          /\ push_offset' # pop_offset
      BY <1>6, <3>1, StepValue DEF PushPublish, IndInv, RoomForPush
    <3> QED BY <3>1, <3>2, SizeAssumption DEF Occupied, Offsets
  <2> QED BY <1>6, <2>1 DEF PushPublish, r_vars
<1>7. CASE PushNotify
  BY <1>7 DEF PushNotify, Occupied, r_vars
<1>8. CASE EpollWait
  BY <1>8 DEF EpollWait, Occupied, w_vars
<1>9. CASE Drain
  BY <1>9 DEF Drain, Occupied, w_vars
<1>10. CASE PopLoadPush
  BY <1>10 DEF PopLoadPush, Occupied, w_vars
<1>11. CASE PopFetch
  <2>1. pop_offset # push_offset
    BY <1>11, OwedMeansNonEmpty DEF PopFetch, IndInv, PopsOwed
  <2>2. Allocated(pop_offset)
    BY <1>1, <2>1 DEF Occupied, TypeOK, Offsets
  <2> QED BY <1>11, <2>2 DEF PopFetch, PopSlot, Occupied, w_vars
<1>12. CASE PopAdvance
  <2>1. \A s \in Offsets : Occupied(s)' => Occupied(s)
    <3>1. push_offset \in Offsets /\ pop_offset \in Offsets /\ push_offset' = push_offset
      BY <1>1, <1>12 DEF PopAdvance, TypeOK
    <3>2. /\ pop_offset' = IF pop_offset + 1 = Size THEN 0 ELSE pop_offset + 1
          /\ pop_offset # push_offset
      BY <1>2, <1>12, <3>1, StepValue DEF PopAdvance
    <3> QED BY <3>1, <3>2, SizeAssumption DEF Occupied, Offsets
  <2>2. r_pc' # "advance"
    BY <1>12 DEF PopAdvance
  <2> QED BY <1>12, <2>1, <2>2 DEF PopAdvance, w_vars
<1>13. CASE UNCHANGED vars
  BY <1>13 DEF vars, w_vars, r_vars, Occupied
<1> QED BY <1>3, <1>4, <1>5, <1>6, <1>7, <1>8, <1>9, <1>10, <1>11, <1>12, <1>13
        DEF Next, Writer, Reader

\* Every step of the ring is a step of the mailbox or changes none of it: a
\* payload is in when push_offset is stored, and out when pop_offset is.
LEMMA NextRefines ==
  IndInv /\ SlotsRight /\ [Next]_vars => [Abs!Next]_(Abs!vars)
<1> SUFFICES ASSUME IndInv, SlotsRight, [Next]_vars
             PROVE  [Abs!Next]_(Abs!vars)
  OBVIOUS
<1> DEFINE n == SizeOf(push_offset, pop_offset)
           T == Values \cup {Junk}
<1>1. /\ TypeOK
      /\ Size \in Nat \ {0}
      /\ ring_buffer \in Ring(T, Size)
      /\ push_offset \in 0 .. Size - 1
      /\ pop_offset \in 0 .. Size - 1
      /\ n \in 0 .. Size - 1
  BY SizeAssumption, SizeRange DEF IndInv, TypeOK, Offsets, Ring
<1>2. ASSUME NEW v \in Values, PushBegin(v)
      PROVE  UNCHANGED Abs!vars
  BY <1>2 DEF PushBegin, Abs!vars, Contents, Owed, r_vars
<1>3. CASE PushLoadPop
  BY <1>3 DEF PushLoadPop, Abs!vars, Contents, Owed, r_vars
<1>4. CASE PushStore
  <2>1. Contents' = Contents
    <3>1. Unused(Size, pop_offset, n, push_offset)
      BY <1>1, PushSlot DEF TypeOK
    <3>2. n \in 0 .. Size
      BY <1>1
    <3>3. InRing(Stored(ring_buffer, push_offset, w_ptr), Size, pop_offset, n)
            = InRing(ring_buffer, Size, pop_offset, n)
      <4> HIDE DEF n, T
      <4> QED BY <1>1, <3>1, <3>2, InRingStore
    <3>4. Contents' = InRing(Stored(ring_buffer, push_offset, w_ptr), Size, pop_offset, n)
      BY <1>4 DEF PushStore, Contents, InRing, Stored
    <3> QED BY <3>3, <3>4, ContentsInRing
  <2> QED BY <1>4, <2>1 DEF PushStore, Abs!vars, Owed, r_vars
<1>5. CASE PushPublish
  <2>1. n + 1 = SizeOf(push_offset', pop_offset) /\ n + 1 <= Size - 1
    <3>1. n + 1 = SizeOf(push_offset', pop_offset)
      BY <1>1, <1>5, SizeAfterPush DEF PushPublish, TypeOK, IndInv, RoomForPush
    <3>2. push_offset' \in Offsets
      BY <1>1, <1>5, StepValue DEF PushPublish, TypeOK
    <3>3. SizeOf(push_offset', pop_offset) \in 0 .. Size - 1
      BY <1>1, <3>2, SizeRange DEF TypeOK
    <3> QED BY <1>1, <3>1, <3>3
  <2>2. (pop_offset + n) % Size = push_offset
    BY <1>1, PushSlot DEF TypeOK
  <2>3. ring_buffer[push_offset] = w_ptr /\ w_ptr \in Values
    BY <1>1, <1>5 DEF PushPublish, SlotsRight, TypeOK
  <2>4. Contents' = InRing(ring_buffer, Size, pop_offset, n + 1)
    BY <1>5, <2>1 DEF PushPublish, Contents, InRing
  <2>5. Contents' = Append(Contents, w_ptr)
    BY <1>1, <2>2, <2>3, <2>4, InRingAppend, ContentsInRing
  <2>6. Len(Contents) = n
    BY <1>1 DEF Contents
  <2>7. Abs!Push(w_ptr)
    BY <1>1, <1>5, <2>1, <2>5, <2>6 DEF PushPublish, Abs!Push, Owed, r_vars
  <2> QED BY <2>3, <2>7 DEF Abs!Next
<1>6. CASE PushNotify
  BY <1>6 DEF PushNotify, Notified, Abs!Next, Abs!Notify, Contents, Owed, r_vars
<1>7. CASE EpollWait
  BY <1>7 DEF EpollWait, Abs!vars, Contents, Owed, w_vars
<1>8. CASE Drain
  <2>1. r_num = 0 /\ add_event \in Nat
    BY <1>1, <1>8 DEF Drain, IndInv, PopsOwed, TypeOK
  <2>2. CASE add_event = 0
    BY <1>8, <2>1, <2>2
       DEF Drain, num_to_read, LeftAfterRead, Abs!vars, Contents, Owed, w_vars
  <2>3. CASE add_event # 0
    BY <1>8, <2>1, <2>3
       DEF Drain, num_to_read, LeftAfterRead, Abs!Next, Abs!TakeEvents, Contents, Owed, w_vars
  <2> QED BY <2>2, <2>3
<1>9. CASE PopLoadPush
  <2>1. pop_offset # push_offset
    BY <1>9, OwedMeansNonEmpty DEF PopLoadPush, IndInv, PopsOwed
  <2> QED BY <1>9, <2>1 DEF PopLoadPush, Abs!vars, Contents, Owed, w_vars
<1>10. CASE PopFetch
  BY <1>10 DEF PopFetch, Abs!vars, Contents, Owed, w_vars
<1>11. CASE PopAdvance
  <2>1. r_num > 0 /\ pop_offset # push_offset
    BY <1>11, OwedMeansNonEmpty DEF PopAdvance, IndInv, PopsOwed
  <2>2. n \in 1 .. Size
    <3>1. n # 0
      BY <1>1, <2>1, SizeRange DEF TypeOK
    <3> QED BY <1>1, <3>1
  <2>3. SizeOf(push_offset, pop_offset') = n - 1
    BY <1>1, <1>11, <2>1, SizeAfterPop DEF PopAdvance, TypeOK
  <2>4. /\ Contents # << >>
        /\ Head(Contents) = ring_buffer[pop_offset]
        /\ Tail(Contents) = InRing(ring_buffer, Size, (pop_offset + 1) % Size, n - 1)
    <3>1. Contents = InRing(ring_buffer, Size, pop_offset, n)
      BY ContentsInRing
    <3> HIDE DEF n, T
    <3> QED BY <1>1, <2>2, <3>1, InRingTail
  <2>5. Contents' = Tail(Contents)
    BY <1>11, <2>3, <2>4 DEF PopAdvance, Step, Contents, InRing
  <2>6. r_got' = Head(Contents)
    BY <1>11, <2>4 DEF PopAdvance, SlotsRight
  <2>7. Abs!Pop
    BY <1>11, <2>1, <2>4, <2>5, <2>6 DEF PopAdvance, Abs!Pop, Owed, w_vars
  <2> QED BY <2>7 DEF Abs!Next
<1>12. CASE UNCHANGED vars
  BY <1>12 DEF vars, w_vars, r_vars, Abs!vars, Contents, Owed
<1> QED BY <1>2, <1>3, <1>4, <1>5, <1>6, <1>7, <1>8, <1>9, <1>10, <1>11, <1>12
        DEF Next, Writer, Reader

\* While the stores of queue_push stay inside the buffer, srsw_queue.c with its
\* reader implements the mailbox of queue.h.
THEOREM MailboxWithinBuffer == Spec /\ []StoreInBuffer => ImplementsMailbox
<1>1. Init => Abs!Init
  BY SizeAssumption DEF Init, Abs!Init, Contents, SizeOf, Owed
<1>2. Spec /\ []StoreInBuffer => []SlotsRight
  BY Invariance, InitSlotsRight, NextSlotsRight, PTL DEF Spec
<1> QED BY <1>1, <1>2, Invariance, NextRefines, PTL
        DEF Spec, ImplementsMailbox, Abs!Spec

\* The specification the run checks has the steps of Spec.
LEMMA SizeSpecSteps == SizeSpec => Spec
<1>1. SizeInit => Init
  BY DEF SizeInit
<1>2. [SizeNext]_<<vars, s_vars>> => [Next]_vars
  BY DEF SizeNext, SizeLoadPush, SizeLoadPop, QueueStep
<1> QED BY <1>1, <1>2, PTL DEF SizeSpec, Spec

\* With one byte to a slot the buffer is as long as the ring, and the mailbox
\* is implemented without condition.
THEOREM MailboxOfBytes ==
  ASSUME Word = 1
  PROVE  SizeSpec => ImplementsMailbox
<1>1. TypeOK => StoreInBuffer
  BY SizeAssumption DEF TypeOK, StoreInBuffer, Allocated, Offsets
<1> QED BY <1>1, SizeSpecSteps, TypeCorrect, MailboxWithinBuffer, PTL

------------------------------------------------------------------------------
(* queue_size *)

\* The locals of queue_size have their types, and no history outlives the call.
SizeTypeOK ==
  /\ s_pc \in {"idle", "load_pop"}
  /\ s_push \in Offsets
  /\ s_first \in Nat
  /\ s_overtaken \in BOOLEAN
  /\ s_pc = "idle" => ~s_overtaken

\* What queue_size returns is at most what the ring held at its first load, as
\* long as the reader has not overtaken the offset that was loaded.
THEOREM SizeNeverOver == SizeSpec => []SizeNotOver
<1> DEFINE Inv == SizeTypeOK /\ SizeNotOver
<1>1. SizeInit => Inv
  <2> SUFFICES ASSUME SizeInit PROVE Inv
    OBVIOUS
  <2>1. s_push \in Offsets /\ s_first \in Nat
    BY SizeAssumption DEF SizeInit, Offsets
  <2>2. s_overtaken \in BOOLEAN /\ ~s_overtaken
    BY Zenon DEF SizeInit
  <2>3. s_pc = "idle" /\ s_pc # "load_pop"
    BY DEF SizeInit
  <2> QED BY <2>1, <2>2, <2>3 DEF SizeTypeOK, SizeNotOver
<1>2. IndInv /\ Inv /\ [SizeNext]_<<vars, s_vars>> => Inv'
  <2> SUFFICES ASSUME IndInv, Inv, [SizeNext]_<<vars, s_vars>>
               PROVE  Inv'
    OBVIOUS
  <2>1. push_offset \in Offsets /\ pop_offset \in Offsets
    BY DEF IndInv, TypeOK
  <2>2. CASE SizeLoadPush
    <3>1. SizeOf(push_offset, pop_offset) \in Nat
      BY <2>1, SizeRange
    <3> QED BY <2>1, <2>2, <3>1
            DEF SizeLoadPush, SizeTypeOK, SizeNotOver, SizeResult, vars
  <2>3. CASE SizeLoadPop
    <3>1. s_push' \in Offsets /\ s_first' \in Nat
      BY <2>3, SizeAssumption DEF SizeLoadPop, Offsets
    <3>2. s_overtaken' \in BOOLEAN /\ ~s_overtaken'
      BY <2>3, Zenon DEF SizeLoadPop
    <3>3. s_pc' = "idle" /\ s_pc' # "load_pop"
      BY <2>3 DEF SizeLoadPop
    <3>4. Offsets' = Offsets
      BY DEF Offsets
    <3> QED BY <3>1, <3>2, <3>3, <3>4 DEF SizeTypeOK, SizeNotOver
  <2>4. CASE QueueStep
    <3>1. SizeTypeOK'
      BY <2>4 DEF QueueStep, SizeTypeOK
    <3>2. CASE pop_offset' = pop_offset
      BY <2>4, <3>2 DEF QueueStep, SizeTypeOK, SizeNotOver, SizeResult
    <3>3. CASE pop_offset' # pop_offset
      <4>1. pop_offset' = Step(pop_offset)
        BY <2>4, <3>3
           DEF QueueStep, Next, Writer, Reader, PushBegin, PushLoadPop, PushStore,
               PushPublish, PushNotify, EpollWait, Drain, PopLoadPush, PopFetch,
               PopAdvance
      <4>2. s_push # pop_offset => SizeOf(s_push, pop_offset') = SizeOf(s_push, pop_offset) - 1
        BY <2>1, <4>1, SizeAfterPop DEF SizeTypeOK
      <4>3. SizeOf(s_push, pop_offset) \in Nat
        BY <2>1, SizeRange DEF SizeTypeOK
      <4>4. s_pc = "load_pop" /\ ~s_overtaken' => s_push # pop_offset /\ ~s_overtaken
        BY <2>4, <3>3 DEF QueueStep, SizeTypeOK
      <4> QED BY <2>4, <3>1, <4>2, <4>3, <4>4
              DEF QueueStep, SizeTypeOK, SizeNotOver, SizeResult
    <3> QED BY <3>1, <3>2, <3>3
  <2>5. CASE UNCHANGED <<vars, s_vars>>
    BY <2>5 DEF vars, s_vars, SizeTypeOK, SizeNotOver, SizeResult
  <2> QED BY <2>2, <2>3, <2>4, <2>5 DEF SizeNext
<1> QED BY <1>1, <1>2, SizeSpecSteps, Invariance, PTL DEF SizeSpec

------------------------------------------------------------------------------
(* pow_2_size *)

\* A set of numbers that is not empty has a least element.
LEMMA LeastNumber ==
  ASSUME NEW T \in SUBSET Nat, T # {}
  PROVE  \E l \in T : \A k \in T : l <= k
<1>1. PICK l \in T : \A k \in T : ~(<<k, l>> \in OpToRel(<, Nat))
  BY WFMin, NatLessThanWellFounded, Zenon
<1>2. \A k \in T : ~(k < l)
  BY <1>1 DEF OpToRel
<1> QED BY <1>2

\* The n bits of x from bit t down are set, and none above t.
TopBits(x, t, n) == x \subseteq 0 .. t /\ \A b \in 0 .. t : b > t - n => b \in x

\* A shift by n doubles the run of bits below the highest one.
LEMMA SmearDoubles ==
  ASSUME NEW t \in Word64, NEW n \in Nat, NEW x, TopBits(x, t, n)
  PROVE  TopBits(Smear(x, n), t, n + n)
<1>1. Smear(x, n) \subseteq 0 .. t
  <2>1. ASSUME NEW b \in Word64, b + n \in 0 .. t
        PROVE  b \in 0 .. t
    BY <2>1 DEF Word64
  <2> QED BY Zenon, <2>1 DEF TopBits, Smear
<1>2. ASSUME NEW b \in 0 .. t, b > t - (n + n), ~(b > t - n)
      PROVE  b \in Word64 /\ b + n \in 0 .. t /\ b + n > t - n
  BY <1>2 DEF Word64
<1> QED BY <1>1, <1>2 DEF TopBits, Smear

\* All bits of a word are set below its highest one.
LEMMA Smeared ==
  ASSUME NEW t \in 0 .. 31, NEW x \in SUBSET (0 .. t), t \in x
  PROVE  Smear(Smear(Smear(Smear(Smear(x, 1), 2), 4), 8), 16) = 0 .. t
<1>1. t \in Word64 /\ 1 + 1 = 2 /\ 2 + 2 = 4 /\ 4 + 4 = 8 /\ 8 + 8 = 16 /\ 16 + 16 = 32
  BY DEF Word64
<1>2. TopBits(x, t, 1)
  BY DEF TopBits
<1>3. TopBits(Smear(x, 1), t, 2)
  BY <1>1, <1>2, SmearDoubles
<1>4. TopBits(Smear(Smear(x, 1), 2), t, 4)
  BY <1>1, <1>3, SmearDoubles
<1>5. TopBits(Smear(Smear(Smear(x, 1), 2), 4), t, 8)
  BY <1>1, <1>4, SmearDoubles
<1>6. TopBits(Smear(Smear(Smear(Smear(x, 1), 2), 4), 8), t, 16)
  BY <1>1, <1>5, SmearDoubles
<1>7. TopBits(Smear(Smear(Smear(Smear(Smear(x, 1), 2), 4), 8), 16), t, 32)
  BY <1>1, <1>6, SmearDoubles
<1>8. \A b \in 0 .. t : b > t - 32
  OBVIOUS
<1> QED BY Zenon, <1>7, <1>8 DEF TopBits

\* The carry of an increment runs through all of them.
LEMMA IncrementRun ==
  ASSUME NEW k \in 0 .. 32
  PROVE  Increment(0 .. k - 1) = {k}
<1> DEFINE x == 0 .. k - 1
           IsLow(b) == b \in Word64 \ x /\ \A c \in Word64 \ x : b <= c
           low == CHOOSE b \in Word64 \ x : \A c \in Word64 \ x : b <= c
<1>1. k \in Word64 \ x /\ \A c \in Word64 \ x : k <= c
  BY DEF Word64
<1>2. low \in Word64 \ x /\ \A c \in Word64 \ x : low <= c
  BY Zenon, <1>1
<1>3. low = k
  BY <1>1, <1>2 DEF Word64
<1>4. {b \in x : b > k} = {}
  OBVIOUS
<1>5. x # Word64
  BY <1>1
<1> HIDE DEF x
<1>6. Increment(x) = {low} \cup {b \in x : b > low}
  BY Zenon, <1>5 DEF Increment
<1> QED BY Zenon, <1>3, <1>4, <1>6 DEF x

(***************************************************************************)
(* queue_init rounds every size up to 2^32, not only those TLC tries: a    *)
(* word whose highest bit is m becomes the word with the bit m alone if it *)
(* had no other, and with the bit m + 1 alone if it had.                   *)
(***************************************************************************)
THEOREM SizeRoundedUp ==
  ASSUME NEW v \in SUBSET Word64, NEW m \in v, \A b \in v : b <= m,
         m <= 31 \/ v = {32}
  PROVE  pow_2_size(v) = IF v = {m} THEN {m} ELSE {m + 1}
<1> DEFINE low == CHOOSE b \in v : \A c \in v : b <= c
           d == Decrement(v)
<1>1. m \in 0 .. 32 /\ v # {}
  BY DEF Word64
<1>2. low \in v /\ \A c \in v : low <= c
  <2>1. \E b \in v : \A c \in v : b <= c
    <3>1. v \in SUBSET Nat
      BY DEF Word64
    <3> QED BY Zenon, <1>1, <3>1, LeastNumber
  <2> QED BY Zenon, <2>1
<1>3. d = (v \ {low}) \cup 0 .. low - 1
  BY Zenon, <1>1 DEF Decrement
<1> HIDE DEF low, d
<1>4. low \in 0 .. m
  BY <1>2 DEF Word64
<1>5. CASE v = {m}
  <2>1. low = m
    BY <1>2, <1>5
  <2>2. d = 0 .. m - 1
    BY Zenon, <1>3, <1>5, <2>1
  <2>3. Smear(Smear(Smear(Smear(Smear(d, 1), 2), 4), 8), 16) = 0 .. m - 1
    <3>1. CASE m = 0
      <4>1. d = {} /\ 0 .. m - 1 = {}
        BY <2>2, <3>1
      <4>2. \A n : Smear({}, n) = {}
        BY Zenon DEF Smear
      <4> QED BY Zenon, <4>1, <4>2
    <3>2. CASE m # 0
      <4>1. m - 1 \in 0 .. 31 /\ d \in SUBSET (0 .. m - 1) /\ m - 1 \in d
        BY <1>1, <2>2, <3>2
      <4> QED BY Zenon, <4>1, Smeared
    <3> QED BY Zenon, <3>1, <3>2
  <2>4. pow_2_size(v) = {m}
    BY Zenon, <1>1, <2>3, IncrementRun DEF pow_2_size, d
  <2> QED BY Zenon, <1>5, <2>4
<1>6. CASE v # {m}
  <2>1. m \in 0 .. 31
    <3>1. v # {32}
      BY Zenon, <1>6
    <3>2. m <= 31
      BY Zenon, <3>1
    <3> QED BY <1>1, <3>2
  <2>2. low # m
    <3>1. PICK c \in v : c # m
      BY Zenon, <1>6
    <3>2. c <= m /\ low <= c
      BY Zenon, <1>2, <3>1
    <3>3. c \in Word64
      BY Zenon
    <3> QED BY <1>1, <3>1, <3>2, <3>3 DEF Word64
  <2>3. d \in SUBSET (0 .. m) /\ m \in d
    BY <1>3, <1>4, <2>1, <2>2 DEF Word64
  <2>4. Smear(Smear(Smear(Smear(Smear(d, 1), 2), 4), 8), 16) = 0 .. m
    BY Zenon, <2>1, <2>3, Smeared
  <2>5. m + 1 \in 0 .. 32 /\ (m + 1) - 1 = m
    BY <2>1
  <2>6. pow_2_size(v) = {m + 1}
    BY Zenon, <2>4, <2>5, IncrementRun DEF pow_2_size, d
  <2> QED BY Zenon, <1>6, <2>6
<1> QED BY Zenon, <1>5, <1>6

==============================================================================
