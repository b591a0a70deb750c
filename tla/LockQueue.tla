------------------------------ MODULE LockQueue ------------------------------
(***************************************************************************)
(* src/src/mrmw_queue.c: the ring buffer behind a mutex, the queue the     *)
(* server is linked with (lock_queue in src/src/CMakeLists.txt).           *)
(*                                                                         *)
(* Any number of threads may push, pop and ask for the size.  A critical   *)
(* section is modelled one access at a time, so that it is the mutex that  *)
(* keeps the threads apart.  Readers run process_epoll_event of actor.c,   *)
(* whose eventfd_read takes no lock.                                       *)
(***************************************************************************)
EXTENDS Naturals, Sequences, FiniteSets

CONSTANTS
  Values,      \* payload pointers
  NULL,        \* the null pointer
  Writers, Readers, Watchers,   \* threads that push, pop, ask for the size
  Unlocked,    \* the mutex has no owner
  MaxSize      \* max_size of queue_init

ASSUME MaxSizeAssumption == MaxSize \in Nat \ {0}

ASSUME ThreadAssumption ==
  /\ Writers \cap Readers = {}
  /\ Writers \cap Watchers = {}
  /\ Readers \cap Watchers = {}
  /\ Unlocked \notin Writers \cup Readers \cup Watchers
  /\ NULL \notin Values

VARIABLES
  ring_buffer, enqueue_offset, dequeue_offset, current_size, add_event,
  lock,   \* owner of the mutex
  pc,     \* next step of each thread
  ptr,    \* the payload a thread is pushing or has fetched
  num,    \* pops each reader still owes the notifications it took
  got     \* the last payload a pop took out

queue_vars == <<ring_buffer, enqueue_offset, dequeue_offset, current_size>>
vars == <<queue_vars, add_event, lock, pc, ptr, num, got>>

Threads == Writers \cup Readers \cup Watchers
Offsets == 0 .. MaxSize - 1

is_full  == current_size = MaxSize
is_empty == current_size = 0

Goto(t, from, to) == pc[t] = from /\ pc' = [pc EXCEPT ![t] = to]

\* A step that only moves on.
Move(t, from, to) ==
  /\ Goto(t, from, to)
  /\ UNCHANGED <<queue_vars, add_event, lock, ptr, num, got>>

Init ==
  /\ ring_buffer = [i \in Offsets |-> NULL]
  /\ enqueue_offset = 0
  /\ dequeue_offset = 0
  /\ current_size = 0
  /\ add_event = 0
  /\ lock = Unlocked
  /\ pc = [t \in Threads |-> IF t \in Readers THEN "wait" ELSE "idle"]
  /\ ptr = [t \in Threads |-> NULL]
  /\ num = [t \in Readers |-> 0]
  /\ got = NULL

\* pthread_mutex_lock blocks until the mutex is free.
Lock(t, from, to) ==
  /\ lock = Unlocked
  /\ lock' = t
  /\ Goto(t, from, to)
  /\ UNCHANGED <<queue_vars, add_event, ptr, num, got>>

\* The last thing every operation does: its local pointer is gone as well.
Unlock(t, from, to) ==
  /\ lock' = Unlocked
  /\ Goto(t, from, to)
  /\ ptr' = [ptr EXCEPT ![t] = NULL]
  /\ UNCHANGED <<queue_vars, add_event, num, got>>

------------------------------------------------------------------------------
(* queue_push *)

PushCall(t, v) ==
  /\ Goto(t, "idle", "push_lock")
  /\ ptr' = [ptr EXCEPT ![t] = v]
  /\ UNCHANGED <<queue_vars, add_event, lock, num, got>>

\* Mutant: a full queue is waited for with the mutex held.
SpinFull == "push_check"

\* The early return for a full queue.
ReturnFull == "push_fail"

PushCheck(t) == Move(t, "push_check", IF is_full THEN ReturnFull ELSE "push_store")

PushStore(t) ==
  /\ Goto(t, "push_store", "push_advance")
  /\ ring_buffer' = [ring_buffer EXCEPT ![enqueue_offset] = ptr[t]]
  /\ UNCHANGED <<enqueue_offset, dequeue_offset, current_size, add_event, lock, ptr, num, got>>

PushAdvance(t) ==
  /\ Goto(t, "push_advance", "push_count")
  /\ enqueue_offset' = (enqueue_offset + 1) % MaxSize
  /\ UNCHANGED <<ring_buffer, dequeue_offset, current_size, add_event, lock, ptr, num, got>>

PushCount(t) ==
  /\ Goto(t, "push_count", "push_notify")
  /\ current_size' = current_size + 1
  /\ UNCHANGED <<ring_buffer, enqueue_offset, dequeue_offset, add_event, lock, ptr, num, got>>

\* eventfd_write before the mutex is released
PushNotify(t) ==
  /\ Goto(t, "push_notify", "push_unlock")
  /\ add_event' = add_event + 1
  /\ UNCHANGED <<queue_vars, lock, ptr, num, got>>

Push(t) ==
  \/ \E v \in Values : PushCall(t, v)
  \/ Lock(t, "push_lock", "push_check")
  \/ PushCheck(t)
  \/ Unlock(t, "push_fail", "idle")       \* QUEUE_FAILURE
  \/ PushStore(t)
  \/ PushAdvance(t)
  \/ PushCount(t)
  \/ PushNotify(t)
  \/ Unlock(t, "push_unlock", "idle")     \* QUEUE_SUCCESS

------------------------------------------------------------------------------
(* process_epoll_event and queue_pop *)

EpollWait(t) == add_event > 0 /\ Move(t, "wait", "drain")

Drain(t) ==
  /\ Goto(t, "drain", IF add_event = 0 THEN "wait" ELSE "pop_lock")
  /\ num' = [num EXCEPT ![t] = add_event]
  /\ add_event' = 0
  /\ UNCHANGED <<queue_vars, lock, ptr, got>>

\* The null result makes process_epoll_event return, its count unused.
PopCheck(t) ==
  /\ Goto(t, "pop_check", IF is_empty THEN "pop_unlock" ELSE "pop_fetch")
  /\ ptr' = [ptr EXCEPT ![t] = NULL]
  /\ num' = [num EXCEPT ![t] = IF is_empty THEN 0 ELSE @]
  /\ UNCHANGED <<queue_vars, add_event, lock, got>>

\* Mutant: the slot is read one place late.
NextSlot == (dequeue_offset + 1) % MaxSize

PopSlot == dequeue_offset

PopFetch(t) ==
  /\ Goto(t, "pop_fetch", "pop_advance")
  /\ ptr' = [ptr EXCEPT ![t] = ring_buffer[PopSlot]]
  /\ UNCHANGED <<queue_vars, add_event, lock, num, got>>

\* Mutant: the offset is wrapped one slot too early.
DequeuedShort(i) == IF i >= MaxSize - 2 THEN 0 ELSE i + 1

Dequeued(i) == (i + 1) % MaxSize

PopAdvance(t) ==
  /\ Goto(t, "pop_advance", "pop_count")
  /\ dequeue_offset' = Dequeued(dequeue_offset)
  /\ num' = [num EXCEPT ![t] = @ - 1]
  /\ got' = ptr[t]
  /\ UNCHANGED <<ring_buffer, enqueue_offset, current_size, add_event, lock, ptr>>

PopCount(t) ==
  /\ Goto(t, "pop_count", "pop_unlock")
  /\ current_size' = current_size - 1
  /\ UNCHANGED <<ring_buffer, enqueue_offset, dequeue_offset, add_event, lock, ptr, num, got>>

\* process_epoll_event pops again until its count is used up, then reads the
\* eventfd again; it goes back to epoll_wait after a null result.
AfterPop(t) ==
  IF ptr[t] = NULL THEN "wait" ELSE IF num[t] = 0 THEN "drain" ELSE "pop_lock"

Pop(t) ==
  \/ EpollWait(t)
  \/ Drain(t)
  \/ Lock(t, "pop_lock", "pop_check")
  \/ PopCheck(t)
  \/ PopFetch(t)
  \/ PopAdvance(t)
  \/ PopCount(t)
  \/ Unlock(t, "pop_unlock", AfterPop(t))

------------------------------------------------------------------------------
(* queue_size *)

\* Mutant: the size is read without the mutex.
SizeUnlocked == "size_read"

SizeFirst == "size_lock"

SizeCall(t) == Move(t, "idle", SizeFirst)

SizeRead(t) == Move(t, "size_read", "size_unlock")

QueueSize(t) ==
  \/ SizeCall(t)
  \/ Lock(t, "size_lock", "size_read")
  \/ SizeRead(t)
  \/ Unlock(t, "size_unlock", "idle")

------------------------------------------------------------------------------

Next ==
  \/ \E t \in Writers : Push(t)
  \/ \E t \in Readers : Pop(t)
  \/ \E t \in Watchers : QueueSize(t)

Spec == Init /\ [][Next]_vars

\* A thread that owns the mutex keeps being scheduled.  Nothing is assumed
\* about who gets the mutex next: pthread mutexes are not fair.
FairSpec ==
  /\ Spec
  /\ \A t \in Writers : WF_vars(lock = t /\ Push(t))
  /\ \A t \in Readers : WF_vars(lock = t /\ Pop(t))
  /\ \A t \in Watchers : WF_vars(lock = t /\ QueueSize(t))

------------------------------------------------------------------------------
(* Properties *)

TypeOK ==
  /\ ring_buffer \in [Offsets -> Values \cup {NULL}]
  /\ enqueue_offset \in Offsets
  /\ dequeue_offset \in Offsets
  /\ current_size \in 0 .. MaxSize
  /\ add_event \in Nat
  /\ lock \in Threads \cup {Unlocked}
  /\ pc \in [Threads ->
       {"idle", "push_lock", "push_check", "push_store", "push_advance", "push_count",
        "push_notify", "push_unlock", "push_fail", "wait", "drain", "pop_lock", "pop_check",
        "pop_fetch", "pop_advance", "pop_count", "pop_unlock", "size_lock", "size_read",
        "size_unlock"}]
  /\ ptr \in [Threads -> Values \cup {NULL}]
  /\ num \in [Readers -> Nat]
  /\ got \in Values \cup {NULL}

At(step) == Cardinality({t \in Threads : pc[t] = step})

\* How many payloads the ring holds: a pop in progress has moved
\* dequeue_offset before it counts the payload out.
Held == current_size - At("pop_count")

\* The pops the readers owe for the notifications they took, as pairs.
Owing(pops) == UNION {{r} \X (1 .. pops[r]) : r \in Readers}
Credits == Cardinality(Owing(num))

(***************************************************************************)
(* The three fields that describe the ring agree at every step of every    *)
(* critical section: dequeue_offset plus the payloads held leads to        *)
(* enqueue_offset, and a push about to store has a free slot.              *)
(* All of it presumes the types (TypeOK).                                  *)
(***************************************************************************)
RingConsistent ==
  /\ TypeOK
  /\ (dequeue_offset + Held + At("push_count")) % MaxSize = enqueue_offset
  /\ At("push_store") > 0 => Held < MaxSize

(***************************************************************************)
(* The number queue_size returns is the number of payloads whose push has  *)
(* been announced and whose pop has not been made: the statistics thread   *)
(* never sees a push or a pop half done.                                   *)
(***************************************************************************)
SizeIsExact ==
  \A t \in Watchers : pc[t] = "size_read" =>
    current_size = add_event + Credits

(***************************************************************************)
(* A thread that takes the mutex gives it back, on the early return of     *)
(* queue_push for a full queue as on the others.                           *)
(***************************************************************************)
LockIsReleased == \A t \in Threads : (lock = t) ~> (lock # t)

------------------------------------------------------------------------------
(* The mailbox this queue implements *)

Contents == [k \in 1 .. Held |-> ring_buffer[(dequeue_offset + k - 1) % MaxSize]]

Abs == INSTANCE Mailbox WITH
  Capacity <- MaxSize,
  items <- Contents,
  owed <- At("push_notify"),
  event <- add_event,
  credit <- Credits

(***************************************************************************)
(* mrmw_queue.c, whatever the number of threads, implements the mailbox of *)
(* queue.h with all max_size places usable: FIFO, one notification for     *)
(* each payload, and a pop that has been announced never finds it empty.   *)
(***************************************************************************)
ImplementsMailbox == Abs!Spec

==============================================================================
