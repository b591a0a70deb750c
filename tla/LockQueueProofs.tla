-------------------------- MODULE LockQueueProofs --------------------------
(***************************************************************************)
(* Proofs about LockQueue (src/src/mrmw_queue.c) for every number of       *)
(* threads and every size of the ring.  The mutex makes one thread at a    *)
(* time the author of the half done states, so what a thread inside a      *)
(* critical section has done is told by the step its owner is at.          *)
(***************************************************************************)
EXTENDS LockQueue, RingLemmas, FiniteSetTheorems, TLAPS

WriterSteps == {"idle", "push_lock", "push_check", "push_store", "push_advance",
                "push_count", "push_notify", "push_unlock", "push_fail"}
ReaderSteps == {"wait", "drain", "pop_lock", "pop_check", "pop_fetch", "pop_advance",
                "pop_count", "pop_unlock"}
WatcherSteps == {"idle", "size_lock", "size_read", "size_unlock"}

\* The steps made with the mutex held.
Critical == {"push_check", "push_store", "push_advance", "push_count", "push_notify",
             "push_unlock", "push_fail", "pop_check", "pop_fetch", "pop_advance",
             "pop_count", "pop_unlock", "size_read", "size_unlock"}

\* The step the owner of the mutex is at.
Doing == IF lock = Unlocked THEN "none" ELSE pc[lock]

\* Each thread runs its own operation, and is inside a critical section exactly
\* when it owns the mutex.
Mutex ==
  /\ \A t \in Writers : pc[t] \in WriterSteps
  /\ \A t \in Readers : pc[t] \in ReaderSteps
  /\ \A t \in Watchers : pc[t] \in WatcherSteps
  /\ \A t \in Threads : lock = t <=> pc[t] \in Critical

------------------------------------------------------------------------------
(* Who is in the critical section *)

\* At counts the one owner, or nobody.
LEMMA AtOwner ==
  ASSUME lock \in Threads \cup {Unlocked}, Mutex, NEW step \in Critical
  PROVE  At(step) = IF Doing = step THEN 1 ELSE 0
<1>1. CASE Doing = step
  <2>1. {t \in Threads : pc[t] = step} = {lock}
    BY <1>1 DEF Doing, Mutex, Critical
  <2> QED BY <1>1, <2>1, FS_Singleton DEF At
<1>2. CASE Doing # step
  <2>1. {t \in Threads : pc[t] = step} = {}
    BY <1>2, ThreadAssumption DEF Doing, Mutex, Threads
  <2> QED BY <1>2, <2>1, FS_EmptySet DEF At
<1> QED BY <1>1, <1>2

\* A step inside a critical section is the owner's.
LEMMA OwnerStep ==
  ASSUME TypeOK, Mutex, NEW t \in Threads, NEW from \in Critical, NEW to \in Critical,
         Goto(t, from, to), lock' = lock,
         t \in Writers => to \in WriterSteps,
         t \in Readers => to \in ReaderSteps,
         t \in Watchers => to \in WatcherSteps
  PROVE  lock = t /\ Doing = from /\ Doing' = to /\ Mutex'
<1>1. lock = t /\ lock # Unlocked
  BY ThreadAssumption DEF Mutex, Goto, Threads
<1>2. pc' = [pc EXCEPT ![t] = to] /\ pc[t] = from /\ pc \in [Threads -> {pc[i] : i \in Threads}]
  BY DEF Goto, TypeOK
<1>3. Doing = from /\ Doing' = to
  BY <1>1, <1>2 DEF Doing
<1>4. Mutex'
  BY <1>1, <1>2, ThreadAssumption DEF Mutex, Threads
<1> QED BY <1>1, <1>3, <1>4

\* A step outside leaves the owner where it is.
LEMMA OutsideStep ==
  ASSUME TypeOK, Mutex, NEW t \in Threads, NEW from, from \notin Critical,
         NEW to, to \notin Critical, Goto(t, from, to), lock' = lock,
         t \in Writers => to \in WriterSteps,
         t \in Readers => to \in ReaderSteps,
         t \in Watchers => to \in WatcherSteps
  PROVE  lock # t /\ Doing' = Doing /\ Mutex'
<1>1. lock # t
  BY DEF Mutex, Goto
<1>2. pc' = [pc EXCEPT ![t] = to] /\ pc \in [Threads -> {pc[i] : i \in Threads}]
  BY DEF Goto, TypeOK
<1>3. Doing' = Doing
  BY <1>1, <1>2 DEF Doing, TypeOK
<1>4. Mutex'
  BY <1>1, <1>2, ThreadAssumption DEF Mutex, Threads
<1> QED BY <1>1, <1>3, <1>4

\* Taking the mutex.
LEMMA LockStep ==
  ASSUME TypeOK, Mutex, NEW t \in Threads, NEW from, NEW to \in Critical,
         Lock(t, from, to),
         t \in Writers => to \in WriterSteps,
         t \in Readers => to \in ReaderSteps,
         t \in Watchers => to \in WatcherSteps
  PROVE  Doing = "none" /\ Doing' = to /\ lock' = t /\ Mutex'
<1>1. pc' = [pc EXCEPT ![t] = to] /\ pc \in [Threads -> {pc[i] : i \in Threads}]
      /\ lock = Unlocked /\ lock' = t /\ t # Unlocked
  BY ThreadAssumption DEF Goto, TypeOK, Lock, Threads
<1>2. Doing = "none" /\ Doing' = to
  BY <1>1 DEF Doing
<1>3. Mutex'
  BY <1>1, ThreadAssumption DEF Mutex, Threads
<1> QED BY <1>1, <1>2, <1>3

\* Giving the mutex back.
LEMMA UnlockStep ==
  ASSUME TypeOK, Mutex, NEW t \in Threads, NEW from \in Critical,
         NEW to, to \notin Critical, Unlock(t, from, to),
         t \in Writers => to \in WriterSteps,
         t \in Readers => to \in ReaderSteps,
         t \in Watchers => to \in WatcherSteps
  PROVE  lock = t /\ Doing = from /\ Doing' = "none" /\ Mutex'
<1>1. pc' = [pc EXCEPT ![t] = to] /\ pc \in [Threads -> {pc[i] : i \in Threads}]
      /\ lock = t /\ lock' = Unlocked /\ t # Unlocked /\ pc[t] = from
  BY ThreadAssumption DEF Goto, TypeOK, Unlock, Threads, Mutex
<1>2. Doing = from /\ Doing' = "none"
  BY <1>1 DEF Doing
<1>3. Mutex'
  BY <1>1, ThreadAssumption DEF Mutex, Threads
<1> QED BY <1>1, <1>2, <1>3

------------------------------------------------------------------------------
(* The pops owed *)

\* A reader that owes nothing takes n notifications.
LEMMA OwingTaken ==
  ASSUME NEW f \in [Readers -> Nat], IsFiniteSet(Owing(f)),
         NEW r \in Readers, f[r] = 0, NEW n \in Nat
  PROVE  /\ IsFiniteSet(Owing([f EXCEPT ![r] = n]))
         /\ Cardinality(Owing([f EXCEPT ![r] = n])) = Cardinality(Owing(f)) + n
<1> DEFINE old == Owing(f)
           new == {r} \X (1 .. n)
           all == Owing([f EXCEPT ![r] = n])
<1>1. all = old \cup new
  BY DEF Owing
<1>2. old \cap new = {}
  BY DEF Owing
<1>3. IsFiniteSet(1 .. n) /\ Cardinality(1 .. n) = IF 1 > n THEN 0 ELSE n - 1 + 1
  BY FS_Interval, 1 \in Int, n \in Int
<1>4. IsFiniteSet({r}) /\ Cardinality({r}) = 1
  BY FS_Singleton
<1>5. IsFiniteSet(new) /\ Cardinality(new) = Cardinality({r}) * Cardinality(1 .. n)
  BY <1>3, <1>4, FS_Product
<1>6. IsFiniteSet(old) /\ Cardinality(old) \in Nat
  BY FS_CardinalityType
<1> HIDE DEF old, new, all
<1>7. IsFiniteSet(old \cup new)
      /\ Cardinality(old \cup new) = Cardinality(old) + Cardinality(new) - Cardinality(old \cap new)
  BY <1>5, <1>6, FS_Union
<1>8. Cardinality(new) = n
  BY <1>3, <1>4, <1>5
<1>9. IsFiniteSet(all) /\ Cardinality(all) = Cardinality(old) + n
  BY <1>1, <1>2, <1>6, <1>7, <1>8, FS_EmptySet
<1> QED BY <1>9 DEF old, all

\* A reader makes one of the pops it owes.
LEMMA OwingPopped ==
  ASSUME NEW f \in [Readers -> Nat], IsFiniteSet(Owing(f)),
         NEW r \in Readers, f[r] > 0
  PROVE  /\ IsFiniteSet(Owing([f EXCEPT ![r] = f[r] - 1]))
         /\ Cardinality(Owing([f EXCEPT ![r] = f[r] - 1])) = Cardinality(Owing(f)) - 1
         /\ Cardinality(Owing(f)) > 0
<1> DEFINE all  == Owing(f)
           left == Owing([f EXCEPT ![r] = f[r] - 1])
           p    == <<r, f[r]>>
<1>1. left = all \ {p}
  BY DEF Owing
<1>2. p \in all
  BY DEF Owing
<1>3. Cardinality(all) \in Nat /\ Cardinality(all) # 0
  BY <1>2, FS_CardinalityType, FS_EmptySet
<1>4. IsFiniteSet(all)
  OBVIOUS
<1> HIDE DEF all, left, p
<1>5. IsFiniteSet(left) /\ Cardinality(left) = Cardinality(all) - 1 /\ Cardinality(all) > 0
  BY <1>1, <1>2, <1>3, <1>4, FS_RemoveElement
<1> QED BY <1>5 DEF all, left

------------------------------------------------------------------------------
(* The inductive invariant *)

\* A pop that has moved dequeue_offset and not counted its payload out; a push
\* that has moved enqueue_offset and not counted its payload in.
PopHalf  == IF Doing = "pop_count" THEN 1 ELSE 0
PushHalf == IF Doing = "push_count" THEN 1 ELSE 0
OwedOne  == IF Doing = "push_notify" THEN 1 ELSE 0

RingInv ==
  /\ Doing \in {"push_store", "push_advance", "push_count"} => current_size < MaxSize
  /\ Doing \in {"pop_fetch", "pop_advance", "pop_count"} => current_size > 0
  /\ Once(dequeue_offset + current_size - PopHalf + PushHalf, MaxSize) = enqueue_offset

\* Every slot in use holds a payload, and so do the locals on their way.
PayloadInv ==
  /\ \A k \in 0 .. current_size - PopHalf + PushHalf - 1 :
       ring_buffer[Once(dequeue_offset + k, MaxSize)] \in Values
  /\ \A t \in Writers : pc[t] # "idle" => ptr[t] \in Values
  /\ Doing = "push_advance" => ring_buffer[enqueue_offset] = ptr[lock]
  /\ Doing = "pop_advance" => ptr[lock] = ring_buffer[dequeue_offset]

\* Every payload counted in is announced once: by its push, in the eventfd, or
\* in the count some reader still has to pop.
CountInv ==
  /\ IsFiniteSet(Owing(num))
  /\ current_size - PopHalf = add_event + OwedOne + Credits
  /\ \A r \in Readers :
       /\ pc[r] \in {"wait", "drain"} => num[r] = 0
       /\ pc[r] \in {"pop_lock", "pop_check", "pop_fetch", "pop_advance"} => num[r] > 0
       /\ pc[r] \in {"pop_count", "pop_unlock"} /\ ptr[r] = NULL => num[r] = 0

IndInv == TypeOK /\ Mutex /\ RingInv /\ PayloadInv /\ CountInv

\* queue_init leaves an empty ring.
LEMMA InitInv == Init => IndInv
<1> SUFFICES ASSUME Init PROVE IndInv
  OBVIOUS
<1>1. TypeOK
  BY MaxSizeAssumption DEF Init, TypeOK, Offsets, Threads
<1>2. Mutex
  BY ThreadAssumption DEF Init, Mutex, WriterSteps, ReaderSteps, WatcherSteps, Critical, Threads
<1>3. Doing = "none"
  BY DEF Init, Doing
<1>4. RingInv
  BY <1>3, MaxSizeAssumption DEF Init, RingInv, PopHalf, PushHalf, Once
<1>5. PayloadInv
  BY <1>3, ThreadAssumption DEF Init, PayloadInv, PopHalf, PushHalf, Threads
<1>6. CountInv
  <2>1. Owing(num) = {}
    BY DEF Init, Owing
  <2>2. Credits = 0 /\ IsFiniteSet(Owing(num))
    BY <2>1, FS_EmptySet DEF Credits
  <2>3. \A r \in Readers : pc[r] = "wait" /\ num[r] = 0
    BY DEF Init, Threads
  <2> QED BY <1>3, <2>2, <2>3 DEF Init, CountInv, PopHalf, OwedOne
<1> QED BY <1>1, <1>2, <1>4, <1>5, <1>6 DEF IndInv

\* The steps at which the owner is half way through a push or a pop.
Half == {"push_store", "push_advance", "push_count", "push_notify",
         "pop_fetch", "pop_advance", "pop_count"}

\* A step that leaves the queue and the counts alone keeps what relates them,
\* unless it moves the owner in or out of the middle of an operation.
LEMMA QuietStep ==
  ASSUME IndInv, UNCHANGED <<queue_vars, add_event, num>>,
         Doing' = Doing \/ (Doing \notin Half /\ Doing' \notin Half)
  PROVE  /\ RingInv'
         /\ \A k \in 0 .. current_size' - PopHalf' + PushHalf' - 1 :
              ring_buffer'[Once(dequeue_offset' + k, MaxSize)] \in Values
         /\ IsFiniteSet(Owing(num))'
         /\ current_size' - PopHalf' = add_event' + OwedOne' + Credits'
<1>1. /\ PopHalf' = PopHalf
      /\ PushHalf' = PushHalf
      /\ OwedOne' = OwedOne
  BY DEF PopHalf, PushHalf, OwedOne, Half
<1>2. Credits' = Credits /\ (IsFiniteSet(Owing(num)) => IsFiniteSet(Owing(num))')
  BY DEF Credits, Owing
<1>3. RingInv'
  BY <1>1 DEF IndInv, RingInv, queue_vars, Half
<1> QED BY <1>1, <1>2, <1>3 DEF IndInv, PayloadInv, CountInv, queue_vars

\* queue_push keeps the invariant, line by line.
LEMMA PushInv ==
  ASSUME IndInv, NEW t \in Writers, Push(t)
  PROVE  IndInv'
<1>0. /\ TypeOK /\ Mutex /\ t \in Threads /\ t \notin Readers /\ t \notin Watchers
      /\ pc[t] \in WriterSteps
  BY ThreadAssumption DEF IndInv, Threads, Mutex
<1>1. ASSUME NEW v \in Values, PushCall(t, v) PROVE IndInv'
  <2>1. Doing' = Doing /\ Mutex' /\ lock # t
    BY <1>0, <1>1, OutsideStep, "idle" \notin Critical, "push_lock" \notin Critical
       DEF PushCall, Critical, WriterSteps
  <2>2. TypeOK'
    BY <1>0, <1>1 DEF TypeOK, PushCall, Goto, queue_vars
  <2>3. UNCHANGED <<queue_vars, add_event, num, lock>>
    BY <1>1 DEF PushCall
  <2>4. PayloadInv'
    BY <1>0, <1>1, <2>1, <2>3, QuietStep DEF IndInv, PayloadInv, PushCall, Goto, TypeOK, Doing, queue_vars
  <2>5. CountInv'
    BY <1>0, <1>1, <2>1, <2>3, QuietStep, ThreadAssumption
       DEF IndInv, CountInv, PushCall, Goto, TypeOK, Threads
  <2> QED BY <2>1, <2>2, <2>3, <2>4, <2>5, QuietStep DEF IndInv
<1>2. CASE Lock(t, "push_lock", "push_check")
  <2>1. Doing = "none" /\ Doing' = "push_check" /\ lock' = t /\ Mutex'
    BY <1>0, <1>2, LockStep DEF Critical, WriterSteps
  <2>2. TypeOK'
    BY <1>0, <1>2 DEF TypeOK, Lock, Goto, queue_vars
  <2>3. UNCHANGED <<queue_vars, add_event, num, ptr>>
    BY <1>2 DEF Lock
  <2>4. Doing \notin Half /\ Doing' \notin Half
    BY <2>1 DEF Half
  <2>5. PayloadInv'
    BY <1>0, <1>2, <2>1, <2>3, <2>4, QuietStep
       DEF IndInv, PayloadInv, Lock, Goto, TypeOK, queue_vars
  <2>6. CountInv'
    BY <1>0, <1>2, <2>3, <2>4, QuietStep, ThreadAssumption
       DEF IndInv, CountInv, Lock, Goto, TypeOK, Threads
  <2> QED BY <2>1, <2>2, <2>3, <2>4, <2>5, <2>6, QuietStep DEF IndInv
<1>3. CASE PushCheck(t)
  <2> DEFINE to == IF is_full THEN ReturnFull ELSE "push_store"
  <2>1. Goto(t, "push_check", to) /\ UNCHANGED <<queue_vars, add_event, lock, ptr, num, got>>
    BY <1>3 DEF PushCheck, Move
  <2>2. to \in Critical /\ to \in WriterSteps /\ "push_check" \in Critical
    BY DEF ReturnFull, Critical, WriterSteps
  <2>3. lock = t /\ Doing = "push_check" /\ Doing' = to /\ Mutex'
    BY <1>0, <2>1, <2>2, OwnerStep
  <2>4. TypeOK'
    BY <1>0, <2>1 DEF TypeOK, Goto, queue_vars, ReturnFull
  <2>5. /\ PopHalf = 0 /\ PushHalf = 0 /\ OwedOne = 0
        /\ PopHalf' = 0 /\ PushHalf' = 0 /\ OwedOne' = 0
    BY <2>3 DEF PopHalf, PushHalf, OwedOne, ReturnFull
  <2>6. RingInv'
    <3>1. Doing' = "push_fail" \/ (Doing' = "push_store" /\ current_size # MaxSize)
      BY <2>3 DEF is_full, ReturnFull
    <3>2. current_size \in 0 .. MaxSize
      BY <1>0 DEF TypeOK
    <3> QED BY <2>1, <2>5, <3>1, <3>2, MaxSizeAssumption DEF IndInv, RingInv, queue_vars
  <2>7. PayloadInv'
    BY <1>0, <2>1, <2>3, <2>5 DEF IndInv, PayloadInv, queue_vars, Goto, TypeOK, ReturnFull
  <2>8. CountInv'
    BY <1>0, <2>1, <2>5, ThreadAssumption
       DEF IndInv, CountInv, queue_vars, Goto, TypeOK, Threads, Credits, Owing
  <2> QED BY <2>3, <2>4, <2>6, <2>7, <2>8 DEF IndInv
<1>4. CASE Unlock(t, "push_fail", "idle") \/ Unlock(t, "push_unlock", "idle")
  <2>1. Doing \in {"push_fail", "push_unlock"} /\ Doing' = "none" /\ lock = t /\ Mutex'
    BY <1>0, <1>4, UnlockStep, "idle" \notin Critical DEF Critical, WriterSteps
  <2>2. TypeOK'
    BY <1>0, <1>4 DEF TypeOK, Unlock, Goto, queue_vars
  <2>3. UNCHANGED <<queue_vars, add_event, num>>
    BY <1>4 DEF Unlock
  <2>4. Doing \notin Half /\ Doing' \notin Half
    BY <2>1 DEF Half
  <2>5. PayloadInv'
    <3>1. \A w \in Writers : pc'[w] # "idle" => ptr'[w] \in Values
      BY <1>0, <1>4 DEF IndInv, PayloadInv, Unlock, Goto, TypeOK, Threads
    <3> QED BY <2>1, <2>3, <2>4, <3>1, QuietStep DEF PayloadInv
  <2>6. CountInv'
    BY <1>0, <1>4, <2>3, <2>4, QuietStep, ThreadAssumption
       DEF IndInv, CountInv, Unlock, Goto, TypeOK, Threads
  <2> QED BY <2>1, <2>2, <2>3, <2>4, <2>5, <2>6, QuietStep DEF IndInv
<1>5. CASE PushStore(t)
  <2>1. Doing = "push_store" /\ Doing' = "push_advance" /\ lock = t /\ Mutex'
    BY <1>0, <1>5, OwnerStep DEF PushStore, Critical, WriterSteps
  <2>2. TypeOK'
    BY <1>0, <1>5 DEF TypeOK, PushStore, Goto
  <2>3. /\ PopHalf = 0 /\ PushHalf = 0 /\ OwedOne = 0
        /\ PopHalf' = 0 /\ PushHalf' = 0 /\ OwedOne' = 0
    BY <2>1 DEF PopHalf, PushHalf, OwedOne
  <2>4. RingInv'
    BY <1>0, <1>5, <2>1, <2>3 DEF IndInv, RingInv, PushStore
  <2>5. PayloadInv'
    <3>1. \A k \in 0 .. current_size - 1 :
            /\ Once(dequeue_offset + k, MaxSize) \in Offsets
            /\ Once(dequeue_offset + k, MaxSize) # enqueue_offset
      BY <1>0, <2>1, <2>3, MaxSizeAssumption DEF IndInv, RingInv, TypeOK, Once, Offsets
    <3>2. ring_buffer' = [ring_buffer EXCEPT ![enqueue_offset] = ptr[t]]
          /\ UNCHANGED <<enqueue_offset, dequeue_offset, current_size, lock, ptr>>
      BY <1>5 DEF PushStore
    <3>3. \A k \in 0 .. current_size' - PopHalf' + PushHalf' - 1 :
            ring_buffer'[Once(dequeue_offset' + k, MaxSize)] \in Values
      BY <1>0, <2>3, <3>1, <3>2 DEF IndInv, PayloadInv, TypeOK
    <3>4. ring_buffer'[enqueue_offset'] = ptr'[lock']
      BY <1>0, <2>1, <3>2 DEF TypeOK
    <3>5. \A w \in Writers : pc'[w] # "idle" => ptr'[w] \in Values
      BY <1>0, <1>5 DEF IndInv, PayloadInv, TypeOK, PushStore, Goto, Threads
    <3> QED BY <2>1, <3>3, <3>4, <3>5 DEF PayloadInv
  <2>6. CountInv'
    BY <1>0, <1>5, <2>3, ThreadAssumption
       DEF IndInv, CountInv, PushStore, Goto, TypeOK, Threads, Credits, Owing
  <2> QED BY <2>1, <2>2, <2>4, <2>5, <2>6 DEF IndInv
<1>6. CASE PushAdvance(t)
  <2>1. Doing = "push_advance" /\ Doing' = "push_count" /\ lock = t /\ Mutex'
    BY <1>0, <1>6, OwnerStep DEF PushAdvance, Critical, WriterSteps
  <2>2. enqueue_offset' = Once(enqueue_offset + 1, MaxSize)
    <3>1. enqueue_offset + 1 \in 0 .. 2 * MaxSize - 1
      BY <1>0, MaxSizeAssumption DEF TypeOK, Offsets
    <3> QED BY <1>6, <3>1, MaxSizeAssumption, Wrap DEF PushAdvance
  <2>3. /\ PopHalf = 0 /\ PushHalf = 0 /\ OwedOne = 0
        /\ PopHalf' = 0 /\ PushHalf' = 1 /\ OwedOne' = 0
    BY <2>1 DEF PopHalf, PushHalf, OwedOne
  <2>4. UNCHANGED <<ring_buffer, dequeue_offset, current_size, add_event, lock, ptr, num, got>>
    BY <1>6 DEF PushAdvance
  <2>5. TypeOK'
    <3>1. enqueue_offset' \in Offsets
      BY <1>0, <2>2, MaxSizeAssumption DEF TypeOK, Offsets, Once
    <3> QED BY <1>0, <1>6, <2>4, <3>1 DEF TypeOK, PushAdvance, Goto
  <2>6. RingInv'
    BY <1>0, <2>1, <2>2, <2>3, <2>4, MaxSizeAssumption
       DEF IndInv, RingInv, TypeOK, Offsets, Once
  <2>7. PayloadInv'
    <3>1. Once(dequeue_offset + current_size, MaxSize) = enqueue_offset
      BY <1>0, <2>3 DEF IndInv, RingInv, TypeOK, Offsets
    <3>2. ring_buffer[enqueue_offset] \in Values
      BY <1>0, <1>6, <2>1 DEF IndInv, PayloadInv, PushAdvance, Goto
    <3>3. \A k \in 0 .. current_size : k \in 0 .. current_size - 1 \/ k = current_size
      BY <1>0 DEF TypeOK
    <3>4. \A k \in 0 .. current_size : ring_buffer[Once(dequeue_offset + k, MaxSize)] \in Values
      BY <1>0, <2>3, <3>1, <3>2, <3>3 DEF IndInv, PayloadInv, TypeOK
    <3>5. \A w \in Writers : pc'[w] # "idle" => ptr'[w] \in Values
      BY <1>0, <1>6, <2>4 DEF IndInv, PayloadInv, TypeOK, PushAdvance, Goto, Threads
    <3> QED BY <1>0, <2>1, <2>3, <2>4, <3>4, <3>5 DEF PayloadInv, TypeOK
  <2>8. CountInv'
    BY <1>0, <1>6, <2>3, <2>4, ThreadAssumption
       DEF IndInv, CountInv, PushAdvance, Goto, TypeOK, Threads, Credits, Owing
  <2> QED BY <2>1, <2>5, <2>6, <2>7, <2>8 DEF IndInv
<1>7. CASE PushCount(t)
  <2>1. Doing = "push_count" /\ Doing' = "push_notify" /\ lock = t /\ Mutex'
    BY <1>0, <1>7, OwnerStep DEF PushCount, Critical, WriterSteps
  <2>2. current_size' = current_size + 1
        /\ UNCHANGED <<ring_buffer, enqueue_offset, dequeue_offset, add_event, lock, ptr, num, got>>
    BY <1>7 DEF PushCount
  <2>3. /\ PopHalf = 0 /\ PushHalf = 1 /\ OwedOne = 0
        /\ PopHalf' = 0 /\ PushHalf' = 0 /\ OwedOne' = 1
    BY <2>1 DEF PopHalf, PushHalf, OwedOne
  <2>4. TypeOK'
    <3>1. current_size' \in 0 .. MaxSize
      BY <1>0, <2>1, <2>2, MaxSizeAssumption DEF IndInv, RingInv, TypeOK
    <3> QED BY <1>0, <1>7, <2>2, <3>1 DEF TypeOK, PushCount, Goto
  <2>5. RingInv'
    BY <1>0, <2>1, <2>2, <2>3 DEF IndInv, RingInv, TypeOK, Offsets
  <2>6. PayloadInv'
    BY <1>0, <1>7, <2>1, <2>2, <2>3 DEF IndInv, PayloadInv, TypeOK, PushCount, Goto
  <2>7. CountInv'
    <3>1. Credits' = Credits /\ (IsFiniteSet(Owing(num)) => IsFiniteSet(Owing(num))')
      BY <2>2 DEF Credits, Owing
    <3>2. Credits \in Nat
      BY FS_CardinalityType DEF IndInv, CountInv, Credits
    <3>3. current_size' - PopHalf' = add_event' + OwedOne' + Credits'
      BY <1>0, <2>2, <2>3, <3>1, <3>2 DEF IndInv, CountInv, TypeOK
    <3> QED BY <1>0, <1>7, <2>2, <3>1, <3>3, ThreadAssumption
            DEF IndInv, CountInv, PushCount, Goto, TypeOK, Threads
  <2> QED BY <2>1, <2>4, <2>5, <2>6, <2>7 DEF IndInv
<1>8. CASE PushNotify(t)
  <2>1. Doing = "push_notify" /\ Doing' = "push_unlock" /\ lock = t /\ Mutex'
    BY <1>0, <1>8, OwnerStep DEF PushNotify, Critical, WriterSteps
  <2>2. add_event' = add_event + 1 /\ UNCHANGED <<queue_vars, lock, ptr, num, got>>
    BY <1>8 DEF PushNotify
  <2>3. /\ PopHalf = 0 /\ PushHalf = 0 /\ OwedOne = 1
        /\ PopHalf' = 0 /\ PushHalf' = 0 /\ OwedOne' = 0
    BY <2>1 DEF PopHalf, PushHalf, OwedOne
  <2>4. TypeOK'
    BY <1>0, <1>8, <2>2 DEF TypeOK, PushNotify, Goto, queue_vars
  <2>5. RingInv'
    BY <2>1, <2>2, <2>3 DEF IndInv, RingInv, queue_vars
  <2>6. PayloadInv'
    BY <1>0, <1>8, <2>1, <2>2, <2>3 DEF IndInv, PayloadInv, TypeOK, PushNotify, Goto, queue_vars
  <2>7. CountInv'
    <3>1. Credits' = Credits /\ (IsFiniteSet(Owing(num)) => IsFiniteSet(Owing(num))')
      BY <2>2 DEF Credits, Owing
    <3>2. Credits \in Nat
      BY FS_CardinalityType DEF IndInv, CountInv, Credits
    <3>3. current_size' - PopHalf' = add_event' + OwedOne' + Credits'
      BY <1>0, <2>2, <2>3, <3>1, <3>2 DEF IndInv, CountInv, TypeOK, queue_vars
    <3> QED BY <1>0, <1>8, <2>2, <3>1, <3>3, ThreadAssumption
            DEF IndInv, CountInv, PushNotify, Goto, TypeOK, Threads
  <2> QED BY <2>1, <2>4, <2>5, <2>6, <2>7 DEF IndInv
<1> QED BY <1>1, <1>2, <1>3, <1>4, <1>5, <1>6, <1>7, <1>8 DEF Push

\* queue_pop and eventfd_read keep the invariant, line by line.
LEMMA PopInv ==
  ASSUME IndInv, NEW t \in Readers, Pop(t)
  PROVE  IndInv'
<1>0. /\ TypeOK /\ Mutex /\ t \in Threads /\ t \notin Writers /\ t \notin Watchers
      /\ pc[t] \in ReaderSteps
      /\ \A w \in Writers : w # t /\ w \in Threads
      /\ Credits \in Nat
  BY ThreadAssumption, FS_CardinalityType DEF IndInv, Threads, Mutex, CountInv, Credits
<1>1. CASE EpollWait(t)
  <2>1. Doing' = Doing /\ Mutex' /\ lock # t
    BY <1>0, <1>1, OutsideStep, "wait" \notin Critical, "drain" \notin Critical
       DEF EpollWait, Move, Critical, ReaderSteps
  <2>2. TypeOK'
    BY <1>0, <1>1 DEF TypeOK, EpollWait, Move, Goto, queue_vars
  <2>3. UNCHANGED <<queue_vars, add_event, num, lock, ptr>>
    BY <1>1 DEF EpollWait, Move
  <2>4. PayloadInv'
    BY <1>0, <1>1, <2>1, <2>3, QuietStep
       DEF IndInv, PayloadInv, EpollWait, Move, Goto, TypeOK, queue_vars
  <2>5. CountInv'
    BY <1>0, <1>1, <2>1, <2>3, QuietStep
       DEF IndInv, CountInv, EpollWait, Move, Goto, TypeOK, Threads
  <2> QED BY <2>1, <2>2, <2>3, <2>4, <2>5, QuietStep DEF IndInv
<1>2. CASE Drain(t)
  <2> DEFINE to == IF add_event = 0 THEN "wait" ELSE "pop_lock"
  <2>1. /\ Goto(t, "drain", to)
        /\ num' = [num EXCEPT ![t] = add_event]
        /\ add_event' = 0
        /\ UNCHANGED <<queue_vars, lock, ptr, got>>
    BY <1>2 DEF Drain
  <2>2. to \notin Critical /\ to \in ReaderSteps /\ "drain" \notin Critical
    BY DEF Critical, ReaderSteps
  <2>3. Doing' = Doing /\ Mutex' /\ lock # t
    BY <1>0, <2>1, <2>2, OutsideStep
  <2>4. TypeOK'
    BY <1>0, <2>1 DEF TypeOK, Goto, queue_vars
  <2>5. PopHalf' = PopHalf /\ PushHalf' = PushHalf /\ OwedOne' = OwedOne
    BY <2>3 DEF PopHalf, PushHalf, OwedOne
  <2>6. RingInv'
    BY <2>1, <2>3, <2>5 DEF IndInv, RingInv, queue_vars
  <2>7. PayloadInv'
    BY <1>0, <2>1, <2>3, <2>5 DEF IndInv, PayloadInv, Goto, TypeOK, queue_vars
  <2>8. CountInv'
    <3>1. num[t] = 0 /\ num \in [Readers -> Nat] /\ add_event \in Nat
      BY <1>0, <2>1 DEF IndInv, CountInv, Goto, TypeOK
    <3>2. IsFiniteSet(Owing(num))' /\ Credits' = Credits + add_event
      BY <2>1, <3>1, OwingTaken DEF IndInv, CountInv, Credits
    <3>3. current_size' - PopHalf' = add_event' + OwedOne' + Credits'
      BY <1>0, <2>1, <2>5, <3>1, <3>2
         DEF IndInv, CountInv, queue_vars, TypeOK, PopHalf, OwedOne
    <3>4. /\ pc'[t] = "wait" => num'[t] = 0
          /\ pc'[t] = "pop_lock" => num'[t] > 0
          /\ pc'[t] \in {"wait", "pop_lock"}
      BY <1>0, <2>1, <3>1 DEF Goto, TypeOK
    <3>5. \A r \in Readers : r # t => pc'[r] = pc[r] /\ num'[r] = num[r] /\ ptr'[r] = ptr[r]
      BY <1>0, <2>1, <3>1 DEF Goto, TypeOK, Threads
    <3> QED BY <3>2, <3>3, <3>4, <3>5 DEF IndInv, CountInv
  <2> QED BY <2>3, <2>4, <2>6, <2>7, <2>8 DEF IndInv
<1>3. CASE Lock(t, "pop_lock", "pop_check")
  <2>1. Doing = "none" /\ Doing' = "pop_check" /\ lock' = t /\ Mutex'
    BY <1>0, <1>3, LockStep DEF Critical, ReaderSteps
  <2>2. TypeOK'
    BY <1>0, <1>3 DEF TypeOK, Lock, Goto, queue_vars
  <2>3. UNCHANGED <<queue_vars, add_event, num, ptr>>
    BY <1>3 DEF Lock
  <2>4. Doing \notin Half /\ Doing' \notin Half
    BY <2>1 DEF Half
  <2>5. PayloadInv'
    BY <1>0, <1>3, <2>1, <2>3, <2>4, QuietStep
       DEF IndInv, PayloadInv, Lock, Goto, TypeOK, queue_vars
  <2>6. CountInv'
    BY <1>0, <1>3, <2>3, <2>4, QuietStep
       DEF IndInv, CountInv, Lock, Goto, TypeOK, Threads
  <2> QED BY <2>1, <2>2, <2>3, <2>4, <2>5, <2>6, QuietStep DEF IndInv
<1>4. CASE PopCheck(t)
  \* The reader owes a pop, so the queue is not empty.
  <2>1. pc[t] = "pop_check" /\ lock = t /\ Doing = "pop_check"
    BY <1>0, <1>4, ThreadAssumption DEF PopCheck, Goto, Mutex, Critical, Doing, Threads
  <2>2. Credits > 0
    BY <1>0, <2>1, OwingPopped DEF IndInv, CountInv, TypeOK, Credits
  <2>3. PopHalf = 0 /\ PushHalf = 0 /\ OwedOne = 0
    BY <2>1 DEF PopHalf, PushHalf, OwedOne
  <2>4. current_size > 0
    BY <1>0, <2>2, <2>3 DEF IndInv, CountInv, TypeOK
  <2>5. /\ Goto(t, "pop_check", "pop_fetch")
        /\ ptr' = [ptr EXCEPT ![t] = NULL]
        /\ num' = num
        /\ UNCHANGED <<queue_vars, add_event, lock, got>>
    BY <1>0, <1>4, <2>4 DEF PopCheck, is_empty, TypeOK
  <2>6. Doing' = "pop_fetch" /\ Mutex'
    BY <1>0, <2>5, OwnerStep DEF Critical, ReaderSteps
  <2>7. TypeOK'
    BY <1>0, <2>5 DEF TypeOK, Goto, queue_vars
  <2>8. PopHalf' = 0 /\ PushHalf' = 0 /\ OwedOne' = 0
    BY <2>6 DEF PopHalf, PushHalf, OwedOne
  <2>9. RingInv'
    BY <2>3, <2>4, <2>5, <2>6, <2>8 DEF IndInv, RingInv, queue_vars
  <2>10. PayloadInv'
    BY <1>0, <2>3, <2>5, <2>6, <2>8 DEF IndInv, PayloadInv, Goto, TypeOK, queue_vars
  <2>11. CountInv'
    BY <1>0, <2>1, <2>3, <2>5, <2>8
       DEF IndInv, CountInv, Goto, TypeOK, Threads, Credits, Owing, queue_vars
  <2> QED BY <2>6, <2>7, <2>9, <2>10, <2>11 DEF IndInv
<1>5. CASE PopFetch(t)
  <2>1. Doing = "pop_fetch" /\ Doing' = "pop_advance" /\ lock = t /\ Mutex'
    BY <1>0, <1>5, OwnerStep DEF PopFetch, Critical, ReaderSteps
  <2>2. ptr' = [ptr EXCEPT ![t] = ring_buffer[dequeue_offset]]
        /\ UNCHANGED <<queue_vars, add_event, lock, num, got>>
    BY <1>5 DEF PopFetch, PopSlot
  <2>3. TypeOK'
    BY <1>0, <1>5, <2>2 DEF TypeOK, PopFetch, Goto, queue_vars
  <2>4. /\ PopHalf = 0 /\ PushHalf = 0 /\ OwedOne = 0
        /\ PopHalf' = 0 /\ PushHalf' = 0 /\ OwedOne' = 0
    BY <2>1 DEF PopHalf, PushHalf, OwedOne
  <2>5. RingInv'
    BY <2>1, <2>2, <2>4 DEF IndInv, RingInv, queue_vars
  <2>6. PayloadInv'
    BY <1>0, <1>5, <2>1, <2>2, <2>4 DEF IndInv, PayloadInv, PopFetch, Goto, TypeOK, queue_vars
  <2>7. CountInv'
    BY <1>0, <1>5, <2>2, <2>4
       DEF IndInv, CountInv, PopFetch, Goto, TypeOK, Threads, Credits, Owing, queue_vars
  <2> QED BY <2>1, <2>3, <2>5, <2>6, <2>7 DEF IndInv
<1>6. CASE PopAdvance(t)
  <2>1. Doing = "pop_advance" /\ Doing' = "pop_count" /\ lock = t /\ Mutex'
    BY <1>0, <1>6, OwnerStep DEF PopAdvance, Critical, ReaderSteps
  <2>2. dequeue_offset' = Once(dequeue_offset + 1, MaxSize)
    <3>1. dequeue_offset + 1 \in 0 .. 2 * MaxSize - 1
      BY <1>0, MaxSizeAssumption DEF TypeOK, Offsets
    <3> QED BY <1>6, <3>1, MaxSizeAssumption, Wrap DEF PopAdvance, Dequeued
  <2>3. /\ PopHalf = 0 /\ PushHalf = 0 /\ OwedOne = 0
        /\ PopHalf' = 1 /\ PushHalf' = 0 /\ OwedOne' = 0
    BY <2>1 DEF PopHalf, PushHalf, OwedOne
  <2>4. /\ pc[t] = "pop_advance" /\ pc' = [pc EXCEPT ![t] = "pop_count"]
        /\ num' = [num EXCEPT ![t] = num[t] - 1] /\ got' = ptr[t]
        /\ UNCHANGED <<ring_buffer, enqueue_offset, current_size, add_event, lock, ptr>>
    BY <1>0, <1>6 DEF PopAdvance, Goto, TypeOK
  <2>5. num[t] > 0 /\ num[t] \in Nat /\ current_size > 0
    BY <1>0, <2>1, <2>4 DEF IndInv, CountInv, TypeOK, RingInv
  <2>6. TypeOK'
    <3>1. dequeue_offset' \in Offsets
      BY <1>0, <2>2, MaxSizeAssumption DEF TypeOK, Offsets, Once
    <3>2. num' \in [Readers -> Nat]
      BY <1>0, <2>4, <2>5 DEF TypeOK
    <3>3. pc' \in [Threads -> {"idle", "push_lock", "push_check", "push_store", "push_advance",
            "push_count", "push_notify", "push_unlock", "push_fail", "wait", "drain",
            "pop_lock", "pop_check", "pop_fetch", "pop_advance", "pop_count", "pop_unlock",
            "size_lock", "size_read", "size_unlock"}]
      BY <1>0, <2>4 DEF TypeOK
    <3> QED BY <1>0, <2>4, <3>1, <3>2, <3>3 DEF TypeOK
  <2>7. RingInv'
    BY <1>0, <2>1, <2>2, <2>3, <2>4, <2>5, MaxSizeAssumption
       DEF IndInv, RingInv, TypeOK, Offsets, Once
  <2>8. PayloadInv'
    <3>1. ASSUME NEW k \in 0 .. current_size - 2
          PROVE  ring_buffer[Once(Once(dequeue_offset + 1, MaxSize) + k, MaxSize)] \in Values
      <4>1. Once(Once(dequeue_offset + 1, MaxSize) + k, MaxSize)
            = Once(dequeue_offset + (k + 1), MaxSize)
        BY <1>0, MaxSizeAssumption DEF TypeOK, Offsets, Once
      <4>2. k + 1 \in 0 .. current_size - 1
        BY <1>0 DEF TypeOK
      <4> QED BY <1>0, <2>3, <4>1, <4>2 DEF IndInv, PayloadInv, TypeOK
    <3>2. \A k \in 0 .. current_size' - PopHalf' + PushHalf' - 1 :
            ring_buffer'[Once(dequeue_offset' + k, MaxSize)] \in Values
      BY <1>0, <2>2, <2>3, <2>4, <3>1 DEF TypeOK
    <3>3. \A w \in Writers : pc'[w] # "idle" => ptr'[w] \in Values
      BY <1>0, <2>4 DEF IndInv, PayloadInv, TypeOK
    <3> QED BY <2>1, <3>2, <3>3 DEF PayloadInv
  <2>9. CountInv'
    <3>1. IsFiniteSet(Owing(num))' /\ Credits' = Credits - 1
      BY <1>0, <2>4, <2>5, OwingPopped DEF IndInv, CountInv, Credits, TypeOK
    <3>2. current_size' - PopHalf' = add_event' + OwedOne' + Credits'
      BY <1>0, <2>3, <2>4, <3>1 DEF IndInv, CountInv, TypeOK
    <3>3. ptr'[t] # NULL
      <4>1. ptr[t] = ring_buffer[dequeue_offset] /\ dequeue_offset = Once(dequeue_offset + 0, MaxSize)
        BY <1>0, <2>1, MaxSizeAssumption DEF IndInv, PayloadInv, TypeOK, Offsets, Once
      <4>2. 0 \in 0 .. current_size - PopHalf + PushHalf - 1
        BY <1>0, <2>3, <2>5 DEF TypeOK
      <4>3. ring_buffer[Once(dequeue_offset + 0, MaxSize)] \in Values
        BY <4>2 DEF IndInv, PayloadInv
      <4> QED BY <2>4, <4>1, <4>3, ThreadAssumption
    <3>4. pc'[t] = "pop_count"
      BY <1>0, <2>4 DEF TypeOK
    <3>5. \A r \in Readers : r # t => pc'[r] = pc[r] /\ num'[r] = num[r] /\ ptr'[r] = ptr[r]
      BY <1>0, <2>4 DEF TypeOK, Threads
    <3> QED BY <3>1, <3>2, <3>3, <3>4, <3>5 DEF IndInv, CountInv
  <2> QED BY <2>1, <2>6, <2>7, <2>8, <2>9 DEF IndInv
<1>7. CASE PopCount(t)
  <2>1. Doing = "pop_count" /\ Doing' = "pop_unlock" /\ lock = t /\ Mutex'
    BY <1>0, <1>7, OwnerStep DEF PopCount, Critical, ReaderSteps
  <2>2. current_size' = current_size - 1
        /\ UNCHANGED <<ring_buffer, enqueue_offset, dequeue_offset, add_event, lock, ptr, num, got>>
    BY <1>7 DEF PopCount
  <2>3. /\ PopHalf = 1 /\ PushHalf = 0 /\ OwedOne = 0
        /\ PopHalf' = 0 /\ PushHalf' = 0 /\ OwedOne' = 0
    BY <2>1 DEF PopHalf, PushHalf, OwedOne
  <2>4. TypeOK'
    <3>1. current_size' \in 0 .. MaxSize
      BY <1>0, <2>1, <2>2, MaxSizeAssumption DEF IndInv, RingInv, TypeOK
    <3> QED BY <1>0, <1>7, <2>2, <3>1 DEF TypeOK, PopCount, Goto
  <2>5. RingInv'
    BY <1>0, <2>1, <2>2, <2>3 DEF IndInv, RingInv, TypeOK, Offsets
  <2>6. PayloadInv'
    BY <1>0, <1>7, <2>1, <2>2, <2>3 DEF IndInv, PayloadInv, TypeOK, PopCount, Goto
  <2>7. CountInv'
    <3>1. Credits' = Credits /\ (IsFiniteSet(Owing(num)) => IsFiniteSet(Owing(num))')
      BY <2>2 DEF Credits, Owing
    <3>2. current_size' - PopHalf' = add_event' + OwedOne' + Credits'
      BY <1>0, <2>2, <2>3, <3>1 DEF IndInv, CountInv, TypeOK
    <3> QED BY <1>0, <1>7, <2>2, <3>1, <3>2
            DEF IndInv, CountInv, PopCount, Goto, TypeOK, Threads
  <2> QED BY <2>1, <2>4, <2>5, <2>6, <2>7 DEF IndInv
<1>8. CASE Unlock(t, "pop_unlock", AfterPop(t))
  <2>1. AfterPop(t) \in {"wait", "drain", "pop_lock"}
    BY DEF AfterPop
  <2>2. AfterPop(t) \notin Critical /\ AfterPop(t) \in ReaderSteps /\ "pop_unlock" \in Critical
    BY <2>1 DEF Critical, ReaderSteps
  <2>3. Doing = "pop_unlock" /\ Doing' = "none" /\ lock = t /\ Mutex'
    BY <1>0, <1>8, <2>2, UnlockStep
  <2>4. TypeOK'
    BY <1>0, <1>8, <2>1 DEF TypeOK, Unlock, Goto, queue_vars
  <2>5. UNCHANGED <<queue_vars, add_event, num>>
    BY <1>8 DEF Unlock
  <2>6. Doing \notin Half /\ Doing' \notin Half
    BY <2>3 DEF Half
  <2>7. PayloadInv'
    <3>1. \A w \in Writers : pc'[w] # "idle" => ptr'[w] \in Values
      BY <1>0, <1>8 DEF IndInv, PayloadInv, Unlock, Goto, TypeOK
    <3> QED BY <2>3, <2>5, <2>6, <3>1, QuietStep DEF PayloadInv
  <2>8. CountInv'
    <3>1. pc'[t] = AfterPop(t) /\ pc[t] = "pop_unlock" /\ num'[t] = num[t] /\ num[t] \in Nat
      BY <1>0, <1>8 DEF Unlock, Goto, TypeOK
    <3>2. \/ pc'[t] = "wait" /\ num[t] = 0
          \/ pc'[t] = "drain" /\ num[t] = 0
          \/ pc'[t] = "pop_lock" /\ num[t] > 0
      <4>1. CountInv
        BY DEF IndInv
      <4>2. ptr[t] = NULL => num[t] = 0
        BY Zenon, <3>1, <4>1 DEF CountInv
      <4>3. num[t] # 0 => num[t] > 0
        BY <3>1
      <4> QED BY Zenon, <3>1, <4>2, <4>3 DEF AfterPop
    <3>3. \A r \in Readers : r # t => pc'[r] = pc[r] /\ num'[r] = num[r] /\ ptr'[r] = ptr[r]
      BY <1>0, <1>8 DEF Unlock, Goto, TypeOK, Threads
    <3> QED BY <2>5, <2>6, <3>1, <3>2, <3>3, QuietStep DEF IndInv, CountInv
  <2> QED BY <2>3, <2>4, <2>5, <2>6, <2>7, <2>8, QuietStep DEF IndInv
<1> QED BY <1>1, <1>2, <1>3, <1>4, <1>5, <1>6, <1>7, <1>8 DEF Pop

\* queue_size keeps the invariant.
LEMMA SizeInv ==
  ASSUME IndInv, NEW t \in Watchers, QueueSize(t)
  PROVE  IndInv'
<1>0. /\ TypeOK /\ Mutex /\ t \in Threads /\ t \notin Readers /\ t \notin Writers
      /\ \A r \in Readers : r # t /\ r \in Threads
      /\ \A w \in Writers : w # t /\ w \in Threads
  BY ThreadAssumption DEF IndInv, Threads
<1>1. UNCHANGED <<queue_vars, add_event, num>>
  BY DEF QueueSize, SizeCall, SizeRead, Lock, Unlock, Move
<1>2. /\ Mutex'
      /\ \/ Doing' = Doing /\ lock' = lock /\ lock # t
         \/ Doing \notin Half /\ Doing' \notin Half
  <2>1. CASE SizeCall(t)
    BY <1>0, <2>1, OutsideStep, "idle" \notin Critical, "size_lock" \notin Critical
       DEF SizeCall, SizeFirst, Move, Critical, WatcherSteps
  <2>2. CASE Lock(t, "size_lock", "size_read")
    <3>1. Doing = "none" /\ Doing' = "size_read" /\ Mutex'
      BY <1>0, <2>2, LockStep DEF Critical, WatcherSteps
    <3> QED BY <3>1 DEF Half
  <2>3. CASE SizeRead(t)
    <3>1. Doing = "size_read" /\ Doing' = "size_unlock" /\ Mutex'
      BY <1>0, <2>3, OwnerStep DEF SizeRead, Move, Critical, WatcherSteps
    <3> QED BY <3>1 DEF Half
  <2>4. CASE Unlock(t, "size_unlock", "idle")
    <3>1. Doing = "size_unlock" /\ Doing' = "none" /\ Mutex'
      BY <1>0, <2>4, UnlockStep, "idle" \notin Critical DEF Critical, WatcherSteps
    <3> QED BY <3>1 DEF Half
  <2> QED BY <2>1, <2>2, <2>3, <2>4 DEF QueueSize
<1>3. \A o \in Threads : o # t => pc'[o] = pc[o] /\ ptr'[o] = ptr[o]
  BY <1>0 DEF QueueSize, SizeCall, SizeRead, Lock, Unlock, Move, Goto, TypeOK
<1>4. TypeOK'
  <2>1. CASE SizeCall(t)
    BY <1>0, <2>1 DEF SizeCall, SizeFirst, Move, Goto, TypeOK, queue_vars
  <2>2. CASE Lock(t, "size_lock", "size_read")
    BY <1>0, <2>2 DEF Lock, Goto, TypeOK, queue_vars
  <2>3. CASE SizeRead(t)
    BY <1>0, <2>3 DEF SizeRead, Move, Goto, TypeOK, queue_vars
  <2>4. CASE Unlock(t, "size_unlock", "idle")
    BY <1>0, <2>4 DEF Unlock, Goto, TypeOK, queue_vars
  <2> QED BY <2>1, <2>2, <2>3, <2>4 DEF QueueSize
<1>5. PayloadInv'
  <2>1. \A w \in Writers : pc'[w] # "idle" => ptr'[w] \in Values
    BY <1>0, <1>3 DEF IndInv, PayloadInv
  <2>2. Doing' \in {"push_advance", "pop_advance"} =>
          Doing' = Doing /\ lock' = lock /\ ptr'[lock] = ptr[lock]
    BY <1>0, <1>2, <1>3, ThreadAssumption DEF Half, Doing, TypeOK
  <2> QED BY <1>1, <1>2, <2>1, <2>2, QuietStep DEF IndInv, PayloadInv, queue_vars
<1>6. CountInv'
  BY <1>0, <1>1, <1>2, <1>3, QuietStep DEF IndInv, CountInv
<1> QED BY <1>1, <1>2, <1>4, <1>5, <1>6, QuietStep DEF IndInv

\* Every step keeps the invariant.
LEMMA NextInv == IndInv /\ [Next]_vars => IndInv'
<1>1. ASSUME IndInv, UNCHANGED vars PROVE IndInv'
  BY <1>1
     DEF vars, queue_vars, IndInv, TypeOK, Mutex, RingInv, PayloadInv, CountInv, Credits, Owing,
         PopHalf, PushHalf, OwedOne, Doing
<1> QED BY <1>1, PushInv, PopInv, SizeInv DEF Next

\* The inductive invariant holds throughout.
THEOREM Invariance == Spec => []IndInv
BY InitInv, NextInv, PTL DEF Spec

------------------------------------------------------------------------------
(* The safety properties *)

\* What the definitions of LockQueue count, in terms of the owner's step.
CountsRight ==
  /\ At("push_notify") = OwedOne
  /\ At("push_count") = PushHalf
  /\ Held = current_size - PopHalf
  /\ Held \in 0 .. MaxSize
  /\ Held + PushHalf \in 0 .. MaxSize

\* What the abstract queue needs of the counters.
LEMMA Counts == IndInv => CountsRight
<1> SUFFICES ASSUME IndInv PROVE CountsRight
  OBVIOUS
<1>1. /\ At("push_notify") = OwedOne /\ At("push_count") = PushHalf
      /\ At("pop_count") = PopHalf
  BY AtOwner DEF IndInv, TypeOK, Critical, OwedOne, PushHalf, PopHalf
<1>2. PopHalf = 1 => current_size > 0 /\ PushHalf = 0
  BY DEF IndInv, RingInv, PopHalf, PushHalf
<1>3. PushHalf = 1 => current_size < MaxSize
  BY DEF IndInv, RingInv, PushHalf
<1>4. PopHalf \in {0, 1} /\ PushHalf \in {0, 1} /\ current_size \in 0 .. MaxSize
  BY DEF PopHalf, PushHalf, IndInv, TypeOK
<1>5. Held = current_size - PopHalf
  BY <1>1 DEF Held
<1> QED BY <1>1, <1>2, <1>3, <1>4, <1>5, MaxSizeAssumption DEF CountsRight

\* The fields of the ring agree at every step of every critical section
\* (mrmw_queue.c, queue_push and queue_pop under the mutex).
THEOREM RingAlwaysConsistent == Spec => []RingConsistent
<1>1. IndInv => RingConsistent
  <2> SUFFICES ASSUME IndInv PROVE RingConsistent
    OBVIOUS
  <2> DEFINE sum == dequeue_offset + Held + At("push_count")
  <2>1. sum \in 0 .. 2 * MaxSize - 1
    BY Counts, MaxSizeAssumption DEF CountsRight, IndInv, TypeOK, Offsets, PushHalf
  <2>2. sum = dequeue_offset + current_size - PopHalf + PushHalf
    BY Counts DEF CountsRight, IndInv, TypeOK, Offsets, PushHalf, PopHalf
  <2>3. sum % MaxSize = enqueue_offset
    BY <2>1, <2>2, Wrap, MaxSizeAssumption DEF IndInv, RingInv
  <2>4. At("push_store") > 0 => Held < MaxSize
    <3>1. At("push_store") > 0 => Doing = "push_store"
      BY AtOwner DEF IndInv, TypeOK, Critical
    <3> QED BY <3>1, Counts DEF CountsRight, IndInv, RingInv, PopHalf, TypeOK
  <2> QED BY <2>3, <2>4 DEF RingConsistent, IndInv
<1> QED BY <1>1, Invariance, PTL

\* What queue_size returns counts the announced payloads that are not popped.
THEOREM SizeAlwaysExact == Spec => []SizeIsExact
<1>1. IndInv => SizeIsExact
  <2> SUFFICES ASSUME IndInv, NEW t \in Watchers, pc[t] = "size_read"
               PROVE  current_size = add_event + Credits
    BY DEF SizeIsExact
  <2>1. Doing = "size_read"
    BY ThreadAssumption DEF IndInv, Mutex, Critical, Doing, Threads
  <2>2. PopHalf = 0 /\ OwedOne = 0
    BY <2>1 DEF PopHalf, OwedOne
  <2>3. Credits \in Nat
    BY FS_CardinalityType DEF IndInv, CountInv, Credits
  <2> QED BY <2>2, <2>3 DEF IndInv, CountInv, TypeOK
<1> QED BY <1>1, Invariance, PTL

------------------------------------------------------------------------------
(* The mailbox *)

\* The payloads of the abstract queue are the held slots of the ring.
LEMMA ContentsInRing == Contents = InRing(ring_buffer, MaxSize, dequeue_offset, Held)
BY DEF Contents, InRing

\* A step that keeps the ring, its first slot and how much it holds.
LEMMA SameContents ==
  ASSUME UNCHANGED <<ring_buffer, dequeue_offset, add_event, num, got>>,
         Held' = Held, At("push_notify")' = At("push_notify")
  PROVE  UNCHANGED Abs!vars
BY DEF Abs!vars, Contents, Credits, Owing

\* Every line of queue_push is a step of the mailbox or none.
LEMMA PushRefines ==
  ASSUME IndInv, CountsRight, CountsRight', NEW t \in Writers, Push(t)
  PROVE  [Abs!Next]_(Abs!vars)
<1>0. /\ TypeOK /\ Mutex /\ t \in Threads /\ t \notin Readers /\ t \notin Watchers
  BY ThreadAssumption DEF IndInv, Threads
<1>1. CASE PushStore(t)
  <2>1. Doing = "push_store" /\ Doing' = "push_advance"
    BY <1>0, <1>1, OwnerStep DEF PushStore, Critical, WriterSteps
  <2>2. /\ PopHalf = 0 /\ PushHalf = 0 /\ OwedOne = 0
        /\ PopHalf' = 0 /\ PushHalf' = 0 /\ OwedOne' = 0
    BY <2>1 DEF PopHalf, PushHalf, OwedOne
  <2>3. /\ ring_buffer' = [ring_buffer EXCEPT ![enqueue_offset] = ptr[t]]
        /\ UNCHANGED <<dequeue_offset, current_size, add_event, num, got>>
    BY <1>1 DEF PushStore
  <2>4. Held = current_size /\ Held' = current_size /\ current_size \in 0 .. MaxSize - 1
    <3>1. current_size \in 0 .. MaxSize /\ current_size < MaxSize
      BY <1>0, <2>1 DEF IndInv, RingInv, TypeOK
    <3> QED BY <2>2, <2>3, <3>1, MaxSizeAssumption DEF CountsRight
  <2>5. \A k \in 0 .. current_size - 1 : Once(dequeue_offset + k, MaxSize) # enqueue_offset
    BY <1>0, <2>2, <2>4, MaxSizeAssumption DEF IndInv, RingInv, TypeOK, Offsets, Once
  <2>6. Unused(MaxSize, dequeue_offset, current_size, enqueue_offset)
    <3> SUFFICES ASSUME NEW k \in 0 .. current_size - 1
                 PROVE  (dequeue_offset + k) % MaxSize # enqueue_offset
      BY DEF Unused
    <3>1. dequeue_offset + k \in 0 .. 2 * MaxSize - 1
      BY <1>0, <2>4, MaxSizeAssumption DEF TypeOK, Offsets
    <3> QED BY <2>5, <3>1, Wrap, MaxSizeAssumption
  <2>7. Contents' = Contents
    <3> DEFINE T == Values \cup {NULL}
               n == current_size
               v == ptr[t]
    <3>1. /\ ring_buffer \in Ring(T, MaxSize)
          /\ dequeue_offset \in 0 .. MaxSize - 1 /\ enqueue_offset \in 0 .. MaxSize - 1
          /\ n \in 0 .. MaxSize
          /\ MaxSize \in Nat \ {0}
      BY <1>0, <2>4, MaxSizeAssumption DEF TypeOK, Offsets, Ring
    <3>2. Unused(MaxSize, dequeue_offset, n, enqueue_offset)
      BY <2>6
    <3>3. Contents' = InRing(Stored(ring_buffer, enqueue_offset, v), MaxSize, dequeue_offset, n)
      BY <2>3, <2>4 DEF Contents, InRing, Stored
    <3>4. Contents = InRing(ring_buffer, MaxSize, dequeue_offset, n)
      BY <2>4 DEF Contents, InRing
    <3> HIDE DEF n, T, v
    <3>5. InRing(Stored(ring_buffer, enqueue_offset, v), MaxSize, dequeue_offset, n)
            = InRing(ring_buffer, MaxSize, dequeue_offset, n)
      BY <3>1, <3>2, InRingStore
    <3> QED BY <3>3, <3>4, <3>5
  <2>8. At("push_notify")' = At("push_notify") /\ Credits' = Credits
    BY <2>2, <2>3 DEF CountsRight, Credits, Owing
  <2> QED BY <2>3, <2>7, <2>8 DEF Abs!vars
<1>2. CASE PushCount(t)
  <2>1. Doing = "push_count" /\ Doing' = "push_notify" /\ lock = t
    BY <1>0, <1>2, OwnerStep DEF PushCount, Critical, WriterSteps
  <2>2. /\ PopHalf = 0 /\ PushHalf = 1 /\ OwedOne = 0
        /\ PopHalf' = 0 /\ OwedOne' = 1
    BY <2>1 DEF PopHalf, PushHalf, OwedOne
  <2>3. /\ current_size' = current_size + 1
        /\ UNCHANGED <<ring_buffer, dequeue_offset, add_event, num, got>>
    BY <1>2 DEF PushCount
  <2> DEFINE T == Values \cup {NULL}
             n == current_size
             v == ring_buffer[(dequeue_offset + n) % MaxSize]
  <2>4. Held = n /\ Held' = n + 1 /\ n \in 0 .. MaxSize - 1 /\ MaxSize \in Nat \ {0}
    <3>1. current_size \in 0 .. MaxSize /\ current_size < MaxSize
      BY <1>0, <2>1 DEF IndInv, RingInv, TypeOK
    <3> QED BY <2>2, <2>3, <3>1, MaxSizeAssumption DEF CountsRight
  <2>5. v \in Values
    <3>1. dequeue_offset + n \in 0 .. 2 * MaxSize - 1
      BY <1>0, <2>4 DEF TypeOK, Offsets
    <3>2. n \in 0 .. current_size - PopHalf + PushHalf - 1
      BY <2>2, <2>4
    <3>3. ring_buffer[Once(dequeue_offset + n, MaxSize)] \in Values
      BY <3>2 DEF IndInv, PayloadInv
    <3>4. (dequeue_offset + n) % MaxSize = Once(dequeue_offset + n, MaxSize)
      BY <2>4, <3>1, Wrap, Zenon
    <3> QED BY <3>3, <3>4
  <2>6. ring_buffer \in Ring(T, MaxSize) /\ dequeue_offset \in 0 .. MaxSize - 1
    BY <1>0 DEF TypeOK, Offsets, Ring
  <2>7. /\ Contents' = InRing(ring_buffer, MaxSize, dequeue_offset, n + 1)
        /\ Contents = InRing(ring_buffer, MaxSize, dequeue_offset, n)
    BY <2>3, <2>4 DEF Contents, InRing
  <2>8. Contents' = Append(Contents, v)
    <3> HIDE DEF n, T
    <3> QED BY <2>4, <2>6, <2>7, InRingAppend
  <2>9. Len(Contents) = n
    BY <2>4 DEF Contents
  <2>10. At("push_notify") = 0 /\ At("push_notify")' = 1 /\ Credits' = Credits
    BY <2>2, <2>3 DEF CountsRight, Credits, Owing
  <2>11. Abs!Push(v)
    BY <2>3, <2>4, <2>8, <2>9, <2>10 DEF Abs!Push
  <2> QED BY <2>5, <2>11 DEF Abs!Next
<1>3. CASE PushNotify(t)
  <2>1. Doing = "push_notify" /\ Doing' = "push_unlock"
    BY <1>0, <1>3, OwnerStep DEF PushNotify, Critical, WriterSteps
  <2>2. /\ PopHalf = 0 /\ OwedOne = 1
        /\ PopHalf' = 0 /\ OwedOne' = 0
    BY <2>1 DEF PopHalf, OwedOne
  <2>3. add_event' = add_event + 1 /\ UNCHANGED <<queue_vars, num, got>>
    BY <1>3 DEF PushNotify
  <2>4. Held' = Held /\ At("push_notify") = 1 /\ At("push_notify")' = 0
    BY <2>2, <2>3 DEF CountsRight, queue_vars
  <2>5. Contents' = Contents /\ Credits' = Credits
    BY <2>3, <2>4 DEF Contents, queue_vars, Credits, Owing
  <2>6. Abs!Notify
    BY <2>3, <2>4, <2>5 DEF Abs!Notify
  <2> QED BY <2>6 DEF Abs!Next
<1>4. ASSUME UNCHANGED <<queue_vars, add_event, num, got>>,
             Doing' = Doing \/ (Doing \notin Half /\ Doing' \notin Half)
                            \/ (Doing = "push_check" /\ Doing' = "push_store")
      PROVE  UNCHANGED Abs!vars
  <2>1. PopHalf' = PopHalf /\ OwedOne' = OwedOne
    BY <1>4 DEF Half, PopHalf, OwedOne
  <2>2. Held' = Held /\ At("push_notify")' = At("push_notify")
    BY <1>4, <2>1 DEF CountsRight, queue_vars
  <2> QED BY <1>4, <2>2, SameContents DEF queue_vars
<1>5. ASSUME NEW v \in Values, PushCall(t, v) PROVE UNCHANGED Abs!vars
  <2>1. Doing' = Doing
    BY <1>0, <1>5, OutsideStep, "idle" \notin Critical, "push_lock" \notin Critical
       DEF PushCall, Critical, WriterSteps
  <2> QED BY <1>4, <1>5, <2>1 DEF PushCall
<1>6. CASE Lock(t, "push_lock", "push_check")
  <2>1. Doing = "none" /\ Doing' = "push_check"
    BY <1>0, <1>6, LockStep DEF Critical, WriterSteps
  <2> QED BY <1>4, <1>6, <2>1 DEF Lock, Half
<1>7. CASE PushCheck(t)
  <2> DEFINE to == IF is_full THEN ReturnFull ELSE "push_store"
  <2>1. Goto(t, "push_check", to) /\ UNCHANGED <<queue_vars, add_event, lock, ptr, num, got>>
    BY <1>7 DEF PushCheck, Move
  <2>2. to \in {"push_fail", "push_store"}
    BY DEF ReturnFull
  <2> HIDE DEF to
  <2>3. Doing = "push_check" /\ Doing' = to
    BY <1>0, <2>1, <2>2, OwnerStep DEF Critical, WriterSteps
  <2> QED BY <1>4, <2>1, <2>2, <2>3 DEF Half
<1>8. CASE Unlock(t, "push_fail", "idle") \/ Unlock(t, "push_unlock", "idle")
  <2>1. Doing \in {"push_fail", "push_unlock"} /\ Doing' = "none"
    BY <1>0, <1>8, UnlockStep, "idle" \notin Critical DEF Critical, WriterSteps
  <2> QED BY <1>4, <1>8, <2>1 DEF Unlock, Half
<1>9. CASE PushAdvance(t)
  <2>1. Doing = "push_advance" /\ Doing' = "push_count"
    BY <1>0, <1>9, OwnerStep DEF PushAdvance, Critical, WriterSteps
  <2>2. /\ PopHalf = 0 /\ OwedOne = 0
        /\ PopHalf' = 0 /\ OwedOne' = 0
    BY <2>1 DEF PopHalf, OwedOne
  <2>3. UNCHANGED <<ring_buffer, dequeue_offset, current_size, add_event, num, got>>
    BY <1>9 DEF PushAdvance
  <2>4. Held' = Held /\ At("push_notify")' = At("push_notify")
    BY <2>2, <2>3 DEF CountsRight
  <2> QED BY <2>3, <2>4, SameContents
<1> QED BY <1>1, <1>2, <1>3, <1>5, <1>6, <1>7, <1>8, <1>9 DEF Push

\* Every line of queue_pop is a step of the mailbox or none.
LEMMA PopRefines ==
  ASSUME IndInv, CountsRight, CountsRight', NEW t \in Readers, Pop(t)
  PROVE  [Abs!Next]_(Abs!vars)
<1>0. /\ TypeOK /\ Mutex /\ t \in Threads /\ t \notin Writers /\ t \notin Watchers
      /\ Credits \in Nat
  BY ThreadAssumption, FS_CardinalityType DEF IndInv, Threads, CountInv, Credits
<1>1. CASE PopAdvance(t)
  <2>1. Doing = "pop_advance" /\ Doing' = "pop_count" /\ lock = t
    BY <1>0, <1>1, OwnerStep DEF PopAdvance, Critical, ReaderSteps
  <2>2. /\ PopHalf = 0 /\ OwedOne = 0
        /\ PopHalf' = 1 /\ OwedOne' = 0
    BY <2>1 DEF PopHalf, OwedOne
  <2>3. /\ pc[t] = "pop_advance"
        /\ num' = [num EXCEPT ![t] = num[t] - 1] /\ got' = ptr[t]
        /\ dequeue_offset' = (dequeue_offset + 1) % MaxSize
        /\ UNCHANGED <<ring_buffer, current_size, add_event>>
    BY <1>0, <1>1 DEF PopAdvance, Goto, TypeOK, Dequeued
  <2> DEFINE T == Values \cup {NULL}
             n == current_size
  <2>4. Held = n /\ Held' = n - 1 /\ n \in 1 .. MaxSize /\ MaxSize \in Nat \ {0}
    <3>1. current_size \in 0 .. MaxSize /\ current_size > 0
      BY <1>0, <2>1 DEF IndInv, RingInv, TypeOK
    <3> QED BY <2>2, <2>3, <3>1, MaxSizeAssumption DEF CountsRight
  <2>5. ring_buffer \in Ring(T, MaxSize) /\ dequeue_offset \in 0 .. MaxSize - 1
    BY <1>0 DEF TypeOK, Offsets, Ring
  <2>6. /\ Contents' = InRing(ring_buffer, MaxSize, (dequeue_offset + 1) % MaxSize, n - 1)
        /\ Contents = InRing(ring_buffer, MaxSize, dequeue_offset, n)
    BY <2>3, <2>4 DEF Contents, InRing
  <2>7. /\ Contents # << >>
        /\ Head(Contents) = ring_buffer[dequeue_offset]
        /\ Tail(Contents) = Contents'
    <3> HIDE DEF n, T
    <3> QED BY <2>4, <2>5, <2>6, InRingTail
  <2>8. got' = Head(Contents)
    BY <2>1, <2>3, <2>7 DEF IndInv, PayloadInv
  <2>9. Credits > 0 /\ Credits' = Credits - 1
    BY <1>0, <2>3, OwingPopped DEF IndInv, CountInv, Credits, TypeOK
  <2>10. At("push_notify")' = At("push_notify")
    BY <2>2 DEF CountsRight
  <2>11. Abs!Pop
    BY <2>3, <2>7, <2>8, <2>9, <2>10 DEF Abs!Pop
  <2> QED BY <2>11 DEF Abs!Next
<1>2. CASE Drain(t)
  <2> DEFINE to == IF add_event = 0 THEN "wait" ELSE "pop_lock"
  <2>1. /\ Goto(t, "drain", to)
        /\ num' = [num EXCEPT ![t] = add_event]
        /\ add_event' = 0
        /\ UNCHANGED <<queue_vars, lock, ptr, got>>
    BY <1>2 DEF Drain
  <2>2. to \notin Critical /\ to \in ReaderSteps /\ "drain" \notin Critical
    BY DEF Critical, ReaderSteps
  <2>3. Doing' = Doing
    BY <1>0, <2>1, <2>2, OutsideStep
  <2>4. Held' = Held /\ At("push_notify")' = At("push_notify")
    BY <2>1, <2>3 DEF CountsRight, queue_vars, PopHalf, OwedOne
  <2>5. num[t] = 0 /\ num \in [Readers -> Nat] /\ add_event \in Nat
    BY <1>0, <2>1 DEF IndInv, CountInv, Goto, TypeOK
  <2>6. Credits' = Credits + add_event
    BY <2>1, <2>5, OwingTaken DEF IndInv, CountInv, Credits
  <2>7. Contents' = Contents
    BY <2>1, <2>4 DEF Contents, queue_vars
  <2>8. CASE add_event = 0
    BY <1>0, <2>1, <2>4, <2>6, <2>7, <2>8 DEF Abs!vars
  <2>9. CASE add_event > 0
    <3>1. Abs!TakeEvents
      BY <2>1, <2>4, <2>6, <2>7, <2>9 DEF Abs!TakeEvents
    <3> QED BY <3>1 DEF Abs!Next
  <2> QED BY <2>5, <2>8, <2>9
<1>3. CASE PopCount(t)
  <2>1. Doing = "pop_count" /\ Doing' = "pop_unlock"
    BY <1>0, <1>3, OwnerStep DEF PopCount, Critical, ReaderSteps
  <2>2. /\ PopHalf = 1 /\ OwedOne = 0
        /\ PopHalf' = 0 /\ OwedOne' = 0
    BY <2>1 DEF PopHalf, OwedOne
  <2>3. /\ current_size' = current_size - 1
        /\ UNCHANGED <<ring_buffer, dequeue_offset, add_event, num, got>>
    BY <1>3 DEF PopCount
  <2>4. Held' = Held /\ At("push_notify")' = At("push_notify")
    BY <1>0, <2>2, <2>3 DEF CountsRight, TypeOK
  <2> QED BY <2>3, <2>4, SameContents
<1>4. CASE PopCheck(t)
  <2>1. pc[t] = "pop_check" /\ lock = t /\ Doing = "pop_check"
    BY <1>0, <1>4, ThreadAssumption DEF PopCheck, Goto, Mutex, Critical, Doing, Threads
  <2>2. Credits > 0
    BY <1>0, <2>1, OwingPopped DEF IndInv, CountInv, TypeOK, Credits
  <2>3. PopHalf = 0 /\ OwedOne = 0
    BY <2>1 DEF PopHalf, OwedOne
  <2>4. current_size > 0
    BY <1>0, <2>2, <2>3 DEF IndInv, CountInv, TypeOK
  <2>5. /\ Goto(t, "pop_check", "pop_fetch")
        /\ num' = num
        /\ UNCHANGED <<queue_vars, add_event, lock, got>>
    BY <1>0, <1>4, <2>4 DEF PopCheck, is_empty, TypeOK
  <2>6. Doing' = "pop_fetch"
    BY <1>0, <2>5, OwnerStep DEF Critical, ReaderSteps
  <2>7. PopHalf' = 0 /\ OwedOne' = 0
    BY <2>6 DEF PopHalf, OwedOne
  <2>8. Held' = Held /\ At("push_notify")' = At("push_notify")
    BY <2>3, <2>5, <2>7 DEF CountsRight, queue_vars
  <2> QED BY <2>5, <2>8, SameContents DEF queue_vars
<1>5. ASSUME UNCHANGED <<queue_vars, add_event, num, got>>,
             Doing' = Doing \/ (Doing \notin {"pop_count", "push_notify"}
                                /\ Doing' \notin {"pop_count", "push_notify"})
      PROVE  UNCHANGED Abs!vars
  <2>1. PopHalf' = PopHalf /\ OwedOne' = OwedOne
    BY <1>5 DEF PopHalf, OwedOne
  <2>2. Held' = Held /\ At("push_notify")' = At("push_notify")
    BY <1>5, <2>1 DEF CountsRight, queue_vars
  <2> QED BY <1>5, <2>2, SameContents DEF queue_vars
<1>6. CASE EpollWait(t)
  <2>1. Doing' = Doing
    BY <1>0, <1>6, OutsideStep, "wait" \notin Critical, "drain" \notin Critical
       DEF EpollWait, Move, Critical, ReaderSteps
  <2> QED BY <1>5, <1>6, <2>1 DEF EpollWait, Move
<1>7. CASE Lock(t, "pop_lock", "pop_check")
  <2>1. Doing = "none" /\ Doing' = "pop_check"
    BY <1>0, <1>7, LockStep DEF Critical, ReaderSteps
  <2> QED BY <1>5, <1>7, <2>1 DEF Lock
<1>8. CASE PopFetch(t)
  <2>1. Doing = "pop_fetch" /\ Doing' = "pop_advance"
    BY <1>0, <1>8, OwnerStep DEF PopFetch, Critical, ReaderSteps
  <2> QED BY <1>5, <1>8, <2>1 DEF PopFetch
<1>9. CASE Unlock(t, "pop_unlock", AfterPop(t))
  <2>1. AfterPop(t) \in {"wait", "drain", "pop_lock"}
    BY DEF AfterPop
  <2>2. AfterPop(t) \notin Critical /\ AfterPop(t) \in ReaderSteps /\ "pop_unlock" \in Critical
    BY <2>1 DEF Critical, ReaderSteps
  <2>3. Doing = "pop_unlock" /\ Doing' = "none"
    BY <1>0, <1>9, <2>2, UnlockStep
  <2> QED BY <1>5, <1>9, <2>3 DEF Unlock
<1> QED BY <1>1, <1>2, <1>3, <1>4, <1>6, <1>7, <1>8, <1>9 DEF Pop

\* queue_size is no step of the mailbox.
LEMMA SizeRefines ==
  ASSUME IndInv, CountsRight, CountsRight', NEW t \in Watchers, QueueSize(t)
  PROVE  UNCHANGED Abs!vars
<1>0. /\ TypeOK /\ Mutex /\ t \in Threads /\ t \notin Writers /\ t \notin Readers
  BY ThreadAssumption DEF IndInv, Threads
<1>1. \/ Doing' = Doing
      \/ Doing \in {"none", "size_read", "size_unlock"} /\ Doing' \in {"none", "size_read", "size_unlock"}
  <2>1. CASE SizeCall(t)
    BY <1>0, <2>1, OutsideStep, "idle" \notin Critical, "size_lock" \notin Critical
       DEF SizeCall, SizeFirst, Move, Critical, WatcherSteps
  <2>2. CASE Lock(t, "size_lock", "size_read")
    BY <1>0, <2>2, LockStep DEF Critical, WatcherSteps
  <2>3. CASE SizeRead(t)
    BY <1>0, <2>3, OwnerStep DEF SizeRead, Move, Critical, WatcherSteps
  <2>4. CASE Unlock(t, "size_unlock", "idle")
    BY <1>0, <2>4, UnlockStep, "idle" \notin Critical DEF Critical, WatcherSteps
  <2> QED BY <2>1, <2>2, <2>3, <2>4 DEF QueueSize
<1>2. UNCHANGED <<queue_vars, add_event, num, got>>
  BY DEF QueueSize, SizeCall, SizeRead, Lock, Unlock, Move
<1>3. PopHalf' = PopHalf /\ OwedOne' = OwedOne
  BY <1>1 DEF PopHalf, OwedOne
<1>4. Held' = Held /\ At("push_notify")' = At("push_notify")
  BY <1>2, <1>3 DEF CountsRight, queue_vars
<1> QED BY <1>2, <1>4, SameContents DEF queue_vars

\* Every step of the ring is a step of the mailbox or none.
LEMMA NextRefines ==
  IndInv /\ CountsRight /\ CountsRight' /\ [Next]_vars => [Abs!Next]_(Abs!vars)
<1>1. UNCHANGED vars => UNCHANGED Abs!vars
  BY DEF vars, queue_vars, Abs!vars, Contents, Held, At, Credits, Owing
<1> QED BY <1>1, PushRefines, PopRefines, SizeRefines DEF Next

\* mrmw_queue.c implements the mailbox of queue.h, whatever the number of
\* threads that push, pop and ask for the size.
THEOREM LockQueueIsMailbox == Spec => ImplementsMailbox
<1>1. Init => Abs!Init
  <2> SUFFICES ASSUME Init PROVE Abs!Init
    OBVIOUS
  <2>1. IndInv
    BY InitInv
  <2>2. Doing = "none"
    BY DEF Init, Doing
  <2>3. OwedOne = 0 /\ PopHalf = 0
    BY <2>2 DEF OwedOne, PopHalf
  <2>4. Held = 0 /\ At("push_notify") = 0
    BY <2>1, <2>3, Counts DEF CountsRight, Init
  <2>5. Credits = 0
    BY FS_EmptySet DEF Init, Credits, Owing
  <2>6. Contents = << >>
    BY <2>4 DEF Contents
  <2> QED BY <2>4, <2>5, <2>6 DEF Init, Abs!Init
<1> QED BY <1>1, Invariance, Counts, NextRefines, PTL DEF Spec, ImplementsMailbox, Abs!Spec

============================================================================
