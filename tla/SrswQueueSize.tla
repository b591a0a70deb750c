---------------------------- MODULE SrswQueueSize ----------------------------
(***************************************************************************)
(* queue_size of src/src/srsw_queue.c called by the statistics thread      *)
(* (queue_usage in stats_thread.c) while a writer and a reader are at work *)
(* on the ring: two separate loads, push_offset first; and pow_2_size, by  *)
(* which queue_init rounds the size it is asked for.                       *)
(***************************************************************************)
EXTENDS SrswQueue, FiniteSets

------------------------------------------------------------------------------
(* pow_2_size on a machine word, a set of bit positions *)

Word64 == 0 .. 63

Bits(n) == {b \in 0 .. 30 : (n \div 2 ^ b) % 2 = 1}

\* value--, wrapping round at zero.
Decrement(v) ==
  IF v = {} THEN Word64
  ELSE LET low == CHOOSE b \in v : \A c \in v : b <= c
       IN (v \ {low}) \cup 0 .. low - 1

\* value++, wrapping round at the largest word.
Increment(v) ==
  IF v = Word64 THEN {}
  ELSE LET low == CHOOSE b \in Word64 \ v : \A c \in Word64 \ v : b <= c
       IN {low} \cup {b \in v : b > low}

\* value |= value >> n
Smear(v, n) == v \cup {b \in Word64 : b + n \in v}

pow_2_size(v) ==
  Increment(Smear(Smear(Smear(Smear(Smear(Decrement(v), 1), 2), 4), 8), 16))

\* The ring has the least power of two that is not below the size asked for,
\* so that mask = size - 1 selects the offsets.  A size of zero wraps round to
\* zero again, and a ring of no slots; sizes above 2^32 would need a sixth shift.
ASSUME PowTwoAssumption ==
  /\ \A n \in 1 .. 1025 :
       \E k \in 0 .. 11 : /\ pow_2_size(Bits(n)) = {k}
                          /\ n <= 2 ^ k
                          /\ k > 0 => 2 ^ (k - 1) < n
  /\ \A k \in 0 .. 31 : pow_2_size({k}) = {k}
  /\ \A k \in 1 .. 31 : pow_2_size({0, k}) = {k + 1}
  /\ pow_2_size({}) = {}
  /\ Cardinality(pow_2_size({0, 40})) > 1

------------------------------------------------------------------------------
(* queue_size *)

VARIABLES
  s_pc,        \* "idle", or "load_pop" between the two loads
  s_push,      \* the local push
  s_first,     \* history: the size of the ring at the first load
  s_overtaken  \* history: the reader has popped a payload pushed after it

s_vars == <<s_pc, s_push, s_first, s_overtaken>>

SizeInit ==
  /\ Init
  /\ s_pc = "idle"
  /\ s_push = 0
  /\ s_first = 0
  /\ s_overtaken = FALSE

SizeLoadPush ==
  /\ s_pc = "idle"
  /\ s_push' = push_offset
  /\ s_first' = SizeOf(push_offset, pop_offset)
  /\ s_pc' = "load_pop"
  /\ UNCHANGED <<vars, s_overtaken>>

\* Mutant: the distance is taken the other way round.
SizeResultReversed == SizeOf(pop_offset, s_push)

\* What queue_size returns when the second load happens now.
SizeResult == SizeOf(s_push, pop_offset)

\* The load of pop_offset and the return.
SizeLoadPop ==
  /\ s_pc = "load_pop"
  /\ s_pc' = "idle"
  /\ s_push' = 0
  /\ s_first' = 0
  /\ s_overtaken' = FALSE
  /\ UNCHANGED vars

\* A step of the writer or the reader, with the history of the call.
QueueStep ==
  /\ Next
  /\ s_overtaken' = (s_overtaken \/ (/\ s_pc = "load_pop"
                                     /\ pop_offset = s_push
                                     /\ pop_offset' # pop_offset))
  /\ s_first' = IF s_overtaken' THEN 0 ELSE s_first
  /\ UNCHANGED <<s_pc, s_push>>

SizeNext == SizeLoadPush \/ SizeLoadPop \/ QueueStep

\* Every thread that is inside a call keeps being scheduled; nothing obliges
\* the writer to start a push.
SizeSpec ==
  /\ SizeInit
  /\ [][SizeNext]_<<vars, s_vars>>
  /\ WF_vars(Reader)
  /\ WF_vars(PushLoadPop \/ PushStore \/ PushPublish \/ PushNotify)

(***************************************************************************)
(* The offset queue_size loaded first is stale when the second is loaded.  *)
(* Its result is still never more than the ring held at the first load,    *)
(* unless the reader has meanwhile popped a payload that was pushed after  *)
(* it: then, and only then, the distance goes the wrong way round the ring *)
(* and a queue that is nearly empty is reported as nearly full.            *)
(***************************************************************************)
SizeNotOver == s_pc = "load_pop" /\ ~s_overtaken => SizeResult <= s_first

==============================================================================
