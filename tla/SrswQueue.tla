------------------------------ MODULE SrswQueue ------------------------------
(***************************************************************************)
(* src/src/srsw_queue.c: the ring buffer with one writer and one reader,   *)
(* one action per access to shared memory.                                 *)
(*                                                                         *)
(* The writer runs queue_push for payloads of its choice (an io worker in  *)
(* client_handle_read).  The reader runs process_epoll_event of actor.c:   *)
(* epoll_wait, eventfd_read, then as many queue_pop calls as the           *)
(* descriptor counted.  push_offset is stored only by the writer and       *)
(* pop_offset only by the reader, so the relaxed load of a thread's own    *)
(* offset is folded into its first step.  The release store that ends an   *)
(* operation and the acquire load that starts one of the other thread      *)
(* order the accesses to the slots, so the interleavings of these steps    *)
(* are the executions of the C program.                                    *)
(***************************************************************************)
EXTENDS Naturals, Sequences

CONSTANTS
  Values,   \* payload pointers
  NULL,     \* the null pointer
  Junk,     \* a word of heap memory the queue did not write
  Size,     \* max_size: the number of slots the offsets range over
  Word      \* sizeof(void*): bytes of a slot

\* pow_2_size makes the size a power of two, so "& mask" is "% Size".
ASSUME SizeAssumption ==
  /\ Size \in Nat \ {0}
  /\ Word \in Nat \ {0}

ASSUME ValueAssumption == NULL \notin Values /\ Junk \notin Values /\ Junk # NULL

VARIABLES
  ring_buffer, push_offset, pop_offset, add_event,
  w_pc,     \* the writer's next step
  w_ptr,    \* the argument of queue_push
  r_pc,     \* the reader's next step
  r_num,    \* pops the reader still owes the notifications it took
  r_ptr,    \* the local ptr of queue_pop
  r_got     \* the last non-null result of queue_pop

w_vars == <<w_pc, w_ptr>>
r_vars == <<r_pc, r_num, r_ptr, r_got>>
vars == <<ring_buffer, push_offset, pop_offset, add_event, w_vars, r_vars>>

Offsets == 0 .. Size - 1

WriterSteps == {"idle", "load_pop", "store", "publish", "notify"}
ReaderSteps == {"wait", "drain", "load_push", "fetch", "advance"}

\* posix_memalign(.., sizeof(size_t), size) reserves Size BYTES.
Allocated(i) == (i + 1) * Word <= Size

\* Mutant: the offset runs past the end of the ring.
StepNoWrap(i) == i + 1

\* (offset + 1) & queue->mask
Step(i) == (i + 1) % Size

\* The arithmetic of queue_size on a pair of offsets.
SizeOf(push, pop) == IF push >= pop THEN push - pop ELSE Size - pop + push

Init ==
  /\ ring_buffer = [i \in Offsets |-> Junk]
  /\ push_offset = 0
  /\ pop_offset = 0
  /\ add_event = 0
  /\ w_pc = "idle"
  /\ w_ptr = NULL
  /\ r_pc = "wait"
  /\ r_num = 0
  /\ r_ptr = NULL
  /\ r_got = NULL

------------------------------------------------------------------------------
(* queue_push *)

PushBegin(v) ==
  /\ w_pc = "idle"
  /\ w_ptr' = v
  /\ w_pc' = "load_pop"
  /\ UNCHANGED <<ring_buffer, push_offset, pop_offset, add_event, r_vars>>

\* Mutant: one slot is not kept free, so a full ring looks empty.
NeverFull == FALSE

Full == Step(push_offset) = pop_offset

\* The acquire load of pop_offset decides: QUEUE_FAILURE when the ring is full.
PushLoadPop ==
  /\ w_pc = "load_pop"
  /\ w_pc' = IF Full THEN "idle" ELSE "store"
  /\ UNCHANGED <<ring_buffer, push_offset, pop_offset, add_event, w_ptr, r_vars>>

PushStore ==
  /\ w_pc = "store"
  /\ ring_buffer' = [ring_buffer EXCEPT ![push_offset] = w_ptr]
  /\ w_pc' = "publish"
  /\ UNCHANGED <<push_offset, pop_offset, add_event, w_ptr, r_vars>>

PushPublish ==
  /\ w_pc = "publish"
  /\ push_offset' = Step(push_offset)
  /\ w_pc' = "notify"
  /\ UNCHANGED <<ring_buffer, pop_offset, add_event, w_ptr, r_vars>>

\* Mutant: no notification is sent.
NotNotified(n) == n

\* eventfd_write(queue->add_event, 1)
Notified(n) == n + 1

\* After the payload is visible.
PushNotify ==
  /\ w_pc = "notify"
  /\ add_event' = Notified(add_event)
  /\ w_pc' = "idle"
  /\ UNCHANGED <<ring_buffer, push_offset, pop_offset, w_ptr, r_vars>>

------------------------------------------------------------------------------
(* process_epoll_event and queue_pop *)

\* epoll_wait reports the level-triggered descriptor while it is not zero.
EpollWait ==
  /\ r_pc = "wait"
  /\ add_event > 0
  /\ r_pc' = "drain"
  /\ UNCHANGED <<ring_buffer, push_offset, pop_offset, add_event, w_vars, r_num, r_ptr, r_got>>

\* Mutant: one read of the descriptor is taken for one payload.
OneToRead(n) == IF n = 0 THEN 0 ELSE 1

num_to_read(n) == n

\* Mutant: the count is read and not cleared (an EFD_SEMAPHORE descriptor).
LeftUnread(n) == n

LeftAfterRead(n) == 0

\* eventfd_read: returns the count and clears it; EAGAIN ends the loop.
Drain ==
  /\ r_pc = "drain"
  /\ r_num' = num_to_read(add_event)
  /\ add_event' = LeftAfterRead(add_event)
  /\ r_pc' = IF add_event = 0 THEN "wait" ELSE "load_push"
  /\ UNCHANGED <<ring_buffer, push_offset, pop_offset, w_vars, r_ptr, r_got>>

\* The acquire load of push_offset; a null result abandons the loop.
PopLoadPush ==
  /\ r_pc = "load_push"
  /\ IF pop_offset = push_offset
     THEN r_pc' = "wait" /\ r_num' = 0
     ELSE r_pc' = "fetch" /\ r_num' = r_num
  /\ UNCHANGED <<ring_buffer, push_offset, pop_offset, add_event, w_vars, r_ptr, r_got>>

\* Mutant: the slot is read one place late.
NextSlot == Step(pop_offset)

PopSlot == pop_offset

\* A slot outside the allocation holds whatever the heap left there.
PopFetch ==
  /\ r_pc = "fetch"
  /\ r_ptr' \in IF Allocated(PopSlot) THEN {ring_buffer[PopSlot]}
                ELSE {ring_buffer[PopSlot], Junk}
  /\ r_pc' = "advance"
  /\ UNCHANGED <<ring_buffer, push_offset, pop_offset, add_event, w_vars, r_num, r_got>>

\* The release store of pop_offset, the return, and the loop test "i < num".
PopAdvance ==
  /\ r_pc = "advance"
  /\ pop_offset' = Step(pop_offset)
  /\ r_got' = r_ptr
  /\ r_num' = r_num - 1
  /\ r_pc' = IF r_num = 1 THEN "drain" ELSE "load_push"
  /\ UNCHANGED <<ring_buffer, push_offset, add_event, w_vars, r_ptr>>

------------------------------------------------------------------------------

Writer ==
  \/ \E v \in Values : PushBegin(v)
  \/ PushLoadPop
  \/ PushStore
  \/ PushPublish
  \/ PushNotify

Reader ==
  \/ EpollWait
  \/ Drain
  \/ PopLoadPush
  \/ PopFetch
  \/ PopAdvance

Next == Writer \/ Reader

Spec == Init /\ [][Next]_vars

------------------------------------------------------------------------------
(* Properties *)

TypeOK ==
  /\ ring_buffer \in [Offsets -> Values \cup {Junk}]
  /\ push_offset \in Offsets
  /\ pop_offset \in Offsets
  /\ add_event \in Nat
  /\ w_pc \in WriterSteps
  /\ w_ptr \in Values \cup {NULL}
  /\ w_pc # "idle" => w_ptr \in Values
  /\ r_pc \in ReaderSteps
  /\ r_num \in Nat
  /\ r_ptr \in Values \cup {NULL, Junk}
  /\ r_got \in Values \cup {NULL, Junk}

\* 1 between the release store of push_offset and eventfd_write, else 0.
Owed == IF w_pc = "notify" THEN 1 ELSE 0

(***************************************************************************)
(* Every payload in the ring is announced exactly once: by the             *)
(* notification queue_push is about to write, by the event descriptor, or  *)
(* by a pop process_epoll_event still has to make.  No wake-up is lost     *)
(* and none is left over.                                                  *)
(***************************************************************************)
EventAccounting == SizeOf(push_offset, pop_offset) = Owed + add_event + r_num

(***************************************************************************)
(* queue_pop never returns NULL to process_epoll_event: the branch         *)
(* "request_context == NULL" of actor.c, which would abandon the remaining *)
(* count, is dead.                                                         *)
(***************************************************************************)
NoNullPop == r_pc = "load_push" => pop_offset # push_offset

(***************************************************************************)
(* The plain store of queue_push and the plain load of queue_pop never     *)
(* touch one slot at the same time, and a store never hits a slot that     *)
(* holds a payload not yet popped.                                         *)
(***************************************************************************)
SlotExclusive ==
  /\ w_pc \in {"store", "publish"} => Step(push_offset) # pop_offset
  /\ w_pc = "store" /\ r_pc = "fetch" => push_offset # pop_offset

(***************************************************************************)
(* "the internal buffer used to store the messages" (srsw_queue.c:24):     *)
(* every slot queue_push stores into lies in the memory queue_init         *)
(* reserved for the buffer.                                                *)
(***************************************************************************)
StoreInBuffer == w_pc = "store" => Allocated(push_offset)

(***************************************************************************)
(* The oldest payload is always popped in the end: the reader cannot sleep *)
(* in epoll_wait, nor leave its loop, with a payload in the ring whose     *)
(* push has returned.                                                      *)
(***************************************************************************)
HeadIsPopped ==
  \A i \in Offsets : (pop_offset = i /\ push_offset # i) ~> (pop_offset # i)

------------------------------------------------------------------------------
(* The mailbox this queue implements *)

\* The payloads between the offsets, oldest first.
Contents ==
  [k \in 1 .. SizeOf(push_offset, pop_offset) |->
     ring_buffer[(pop_offset + k - 1) % Size]]

Abs == INSTANCE Mailbox WITH
  Capacity <- Size - 1,
  items <- Contents,
  owed <- Owed,
  event <- add_event,
  credit <- r_num,
  got <- r_got

(***************************************************************************)
(* srsw_queue.c with its reader implements the mailbox of queue.h: FIFO,   *)
(* at most Size - 1 payloads, one notification for each, and a pop that    *)
(* has been announced returns the oldest payload.                          *)
(***************************************************************************)
ImplementsMailbox == Abs!Spec

==============================================================================
