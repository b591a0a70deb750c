----------------------------- MODULE Monitoring ------------------------------
(***************************************************************************)
(* src/src/stats_thread.c, and its place in the whole: the statistics      *)
(* thread wakes up, walks over every mailbox and loads the counters while  *)
(* main is still starting the server and while the workers count requests. *)
(*                                                                         *)
(* The values of a report are arguments of one call of printf, computed    *)
(* one after the other in an order C leaves open, and sleep(5) may end at  *)
(* any time of the start-up.  So the next value to be computed is any of   *)
(* them, at any time; the two that are a single load change nothing here.  *)
(***************************************************************************)
EXTENDS Startup, Statistics

VARIABLES
  doing,     \* the value being computed, or "none"
  walk,      \* actor_id and queue_id of queue_usage
  quotient,  \* the operands loaded by server_stats_get_time
  early      \* history: the walk began before every mailbox existed

thread_vars == <<doing, walk, quotient, early>>
vars == <<start_vars, stat_vars, thread_vars>>

None == <<"none">>

Init ==
  /\ StartInit
  /\ StatInit
  /\ doing = None
  /\ walk = [actor_id |-> 0, queue_id |-> 0]
  /\ quotient = [time |-> 0, requests |-> 0]
  /\ early = FALSE

BeginWalk ==
  /\ doing = None
  /\ thread[stats_thread] = "running"
  /\ doing' = <<"queues">>
  /\ early' = ~AllReady
  /\ UNCHANGED <<start_vars, stat_vars, walk, quotient>>

\* Mutant: the outer loop goes one actor too far.
WalkedTooFar(w) == w.actor_id > ActorCount \/ io_worker_count = 0

\* The two loops of queue_usage have ended.
Walked(w) == w.actor_id >= ActorCount \/ io_worker_count = 0

\* The memory behind the queue the walk is at; past the array it is anything.
QueueAt(w) ==
  IF w.actor_id \in Actors THEN input_queue[w.actor_id][w.queue_id] ELSE "garbage"

\* One turn of the inner loop: queue_size through a NULL pointer crashes, and
\* through garbage it crashes or adds some number.
WalkStep ==
  /\ doing = <<"queues">>
  /\ ~Walked(walk)
  /\ exited' \in CASE QueueAt(walk) = "ready" -> {"no"}
                   [] QueueAt(walk) = "null" -> {"crash"}
                   [] QueueAt(walk) = "garbage" -> {"no", "crash"}
  /\ walk' = IF walk.queue_id + 1 < io_worker_count
             THEN [walk EXCEPT !.queue_id = @ + 1]
             ELSE [actor_id |-> walk.actor_id + 1, queue_id |-> 0]
  /\ UNCHANGED <<io_worker_count, main, input_queue, thread, stat_vars,
                 doing, quotient, early>>

EndWalk ==
  /\ doing = <<"queues">>
  /\ Walked(walk)
  /\ doing' = None
  /\ walk' = [actor_id |-> 0, queue_id |-> 0]
  /\ early' = FALSE
  /\ UNCHANGED <<start_vars, stat_vars, quotient>>

\* Mutant: the number of requests is loaded first.
LoadsSwapped == [first |-> "requests", second |-> "time"]

\* The order of the two loads of server_stats_get_time.
Loads == [first |-> "time", second |-> "requests"]

\* What one of the two loads finds.
Loaded(what, t) == IF what = "time" THEN avg_micros[t] ELSE total_requests_processed

LoadFirst(t) ==
  /\ doing = None
  /\ thread[stats_thread] = "running"
  /\ doing' = <<"time", t>>
  /\ quotient' = [quotient EXCEPT ![Loads.first] = Loaded(Loads.first, t)]
  /\ UNCHANGED <<start_vars, stat_vars, walk, early>>

LoadSecond(t) ==
  /\ doing = <<"time", t>>
  /\ quotient' = [quotient EXCEPT ![Loads.second] = Loaded(Loads.second, t)]
  /\ doing' = <<"divide">>
  /\ UNCHANGED <<start_vars, stat_vars, walk, early>>

Divide ==
  /\ doing = <<"divide">>
  /\ doing' = None
  /\ quotient' = [time |-> 0, requests |-> 0]
  /\ UNCHANGED <<start_vars, stat_vars, walk, early>>

stats_loop ==
  \/ BeginWalk
  \/ WalkStep
  \/ EndWalk
  \/ \E t \in Types : LoadFirst(t) \/ LoadSecond(t)
  \/ Divide

Main == (MainStep \/ StartFails) /\ UNCHANGED <<stat_vars, thread_vars>>

Barrier(t) == pthread_barrier_wait(t) /\ UNCHANGED <<stat_vars, thread_vars>>

Serve(w) ==
  /\ thread[<<"io", w>>] = "running"
  /\ WorkerStep(w)
  /\ UNCHANGED <<start_vars, thread_vars>>

Next ==
  /\ exited = "no"
  /\ \/ Main
     \/ \E t \in Threads : Barrier(t)
     \/ \E w \in Workers : Serve(w)
     \/ stats_loop

Spec == Init /\ [][Next]_vars

\* The threads are scheduled, and main gets on with the start-up.
FairSpec ==
  /\ Spec
  /\ WF_vars(exited = "no" /\ Main)
  /\ \A t \in Threads : WF_vars(exited = "no" /\ Barrier(t))

------------------------------------------------------------------------------
(* Properties *)

(***************************************************************************)
(* The statistics thread is the only one that can look at the mailboxes    *)
(* before the barrier opens (main.c:151, stats_thread.c:16).  A walk that  *)
(* begins when all mailboxes exist never meets a pointer that is not a     *)
(* queue: with at least one worker, only a wake-up before the end of the   *)
(* start-up can crash the server.                                          *)
(***************************************************************************)
CrashNeedsEarlyWalk == exited = "crash" /\ io_worker_count > 0 => early

\* No request measures longer than this.
MaxMicros == MaxIntervals * (MaxClock \div NsPerMicro + 1)

(***************************************************************************)
(* A reported average is never above the longest request, and never a      *)
(* division of something by zero: because time is loaded before requests,  *)
(* and a request is counted before its times are added, every time in the  *)
(* sum belongs to a request in the divisor.                                *)
(***************************************************************************)
NeverOverstated == doing = <<"divide">> => quotient.time <= quotient.requests * MaxMicros

==============================================================================
