------------------------------- MODULE Mailbox -------------------------------
(***************************************************************************)
(* What a mailbox of queue.h promises to the one thread that drains it: a  *)
(* bounded FIFO of payload pointers and an event file descriptor that is   *)
(* notified once for every payload pushed.                                 *)
(*                                                                         *)
(* The reader is process_epoll_event in actor.c: it takes the whole count  *)
(* of the event descriptor and then pops exactly that many payloads, so    *)
(* the promise is about three places a notification can be: still owed by  *)
(* a push that has published its payload, in the descriptor, or held by    *)
(* the reader as a credit for a pop.                                       *)
(***************************************************************************)
EXTENDS Naturals, Sequences

CONSTANTS
  Values,     \* the payload pointers
  NULL,       \* what a reader holds before its first pop
  Capacity    \* how many payloads fit

VARIABLES
  items,      \* the payloads in the mailbox, oldest first
  owed,       \* payloads published whose notification is not yet written
  event,      \* the counter of the event file descriptor
  credit,     \* notifications the reader has taken and not yet popped for
  got         \* the payload the last successful pop returned

vars == <<items, owed, event, credit, got>>

Init ==
  /\ items = << >>
  /\ owed = 0
  /\ event = 0
  /\ credit = 0
  /\ got = NULL

\* queue_push succeeds: only below the capacity, at the tail.
Push(v) ==
  /\ Len(items) < Capacity
  /\ items' = Append(items, v)
  /\ owed' = owed + 1
  /\ UNCHANGED <<event, credit, got>>

\* "a notification is sent to the event file descriptor"
Notify ==
  /\ owed > 0
  /\ owed' = owed - 1
  /\ event' = event + 1
  /\ UNCHANGED <<items, credit, got>>

\* The reader's eventfd_read: takes the whole count and clears it.
TakeEvents ==
  /\ event > 0
  /\ credit' = credit + event
  /\ event' = 0
  /\ UNCHANGED <<items, owed, got>>

\* queue_pop with a credit in hand: never finds the mailbox empty, and
\* returns the oldest payload.
Pop ==
  /\ credit > 0
  /\ items # << >>
  /\ got' = Head(items)
  /\ items' = Tail(items)
  /\ credit' = credit - 1
  /\ UNCHANGED <<owed, event>>

Next ==
  \/ \E v \in Values : Push(v)
  \/ Notify
  \/ TakeEvents
  \/ Pop

Spec == Init /\ [][Next]_vars

==============================================================================
