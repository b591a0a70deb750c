------------------------------- MODULE Startup -------------------------------
(***************************************************************************)
(* src/src/main.c: how main builds the mailboxes, creates the threads and  *)
(* lets them go together, up to the join it never returns from.            *)
(*                                                                         *)
(* app_actors is zeroed memory, so an actor's input_queue is NULL until    *)
(* create_actor allocates it, and its slots hold garbage until queue_init. *)
(* A failed CHECK, here or in another thread, ends the whole process.      *)
(***************************************************************************)
EXTENDS Naturals, FiniteSets

CONSTANTS
  ActorCount,   \* get_nprocs()
  MaxWorkers    \* bound: the number of I/O workers asked for

ASSUME StartupAssumption ==
  /\ ActorCount \in Nat \ {0}
  /\ MaxWorkers \in Nat

Actors == 0 .. ActorCount - 1
Queues == 0 .. MaxWorkers - 1

stats_thread == <<"stats", 0>>
Threads == ({"app"} \X Actors) \cup ({"io"} \X Queues) \cup {stats_thread}

VARIABLES
  io_worker_count,  \* argv[1]
  main,             \* main's place: the loop it is in, its index, the queue
  input_queue,      \* of each actor: "null", "garbage" or "ready"
  thread,           \* "none", "starting", "waiting" at the barrier, "running"
  exited            \* how the process ended, "no" while it runs

start_vars == <<io_worker_count, main, input_queue, thread, exited>>

At(loop, i, q) == [loop |-> loop, i |-> i, q |-> q]

StartInit ==
  /\ io_worker_count \in 0 .. MaxWorkers
  /\ main = At("stats", 0, 0)
  /\ input_queue = [a \in Actors |-> [q \in Queues |-> "null"]]
  /\ thread = [t \in Threads |-> "none"]
  /\ exited = "no"

\* The statistics thread is created first and is not behind the barrier.
create_stats ==
  /\ main.loop = "stats"
  /\ thread' = [thread EXCEPT ![stats_thread] = "running"]
  /\ main' = At("malloc", 0, 0)
  /\ UNCHANGED <<io_worker_count, input_queue, exited>>

\* create_actor in three parts: the array of queues, each queue, the thread.
MallocQueues ==
  /\ main.loop = "malloc"
  /\ input_queue' = [input_queue EXCEPT ![main.i] = [q \in Queues |-> "garbage"]]
  /\ main' = At("queue", main.i, 0)
  /\ UNCHANGED <<io_worker_count, thread, exited>>

InitQueue ==
  /\ main.loop = "queue"
  /\ main.q < io_worker_count
  /\ input_queue' = [input_queue EXCEPT ![main.i][main.q] = "ready"]
  /\ main' = At("queue", main.i, main.q + 1)
  /\ UNCHANGED <<io_worker_count, thread, exited>>

SpawnActor ==
  /\ main.loop = "queue"
  /\ main.q = io_worker_count
  /\ thread' = [thread EXCEPT ![<<"app", main.i>>] = "starting"]
  /\ main' = IF main.i + 1 < ActorCount THEN At("malloc", main.i + 1, 0)
                                        ELSE At("io", 0, 0)
  /\ UNCHANGED <<io_worker_count, input_queue, exited>>

\* create_socket and create_io_worker.
create_io_worker ==
  /\ main.loop = "io"
  /\ main.i < io_worker_count
  /\ thread' = [thread EXCEPT ![<<"io", main.i>>] = "starting"]
  /\ main' = At("io", main.i + 1, 0)
  /\ UNCHANGED <<io_worker_count, input_queue, exited>>

\* The last worker is joined.  Without a worker io_thread was never assigned:
\* the join hangs, fails its CHECK or crashes.
Join ==
  /\ main.loop = "io"
  /\ main.i = io_worker_count
  /\ main' = At("join", 0, 0)
  /\ exited' \in IF io_worker_count = 0 THEN {"no", "check", "crash"} ELSE {"no"}
  /\ UNCHANGED <<io_worker_count, input_queue, thread>>

\* A CHECK of main or of one of its helpers fails.
StartFails ==
  /\ main.loop # "join"
  /\ exited' = "check"
  /\ UNCHANGED <<io_worker_count, main, input_queue, thread>>

MainStep ==
  \/ create_stats
  \/ MallocQueues
  \/ InitQueue
  \/ SpawnActor
  \/ create_io_worker
  \/ Join

\* Mutant: the barrier is as wide as the number of workers.
WorkersOnly == io_worker_count

\* Mutant: the statistics thread is counted too.
AllThreads == ActorCount + io_worker_count + 1

\* The count given to pthread_barrier_init.
barrier_count == ActorCount + io_worker_count

\* run_actor and io_event_loop begin with it: the last one to come lets
\* everybody go.
pthread_barrier_wait(t) ==
  LET here == {x \in Threads : thread[x] = "waiting"} \cup {t}
  IN /\ thread[t] = "starting"
     /\ thread' = IF Cardinality(here) = barrier_count
                  THEN [x \in Threads |-> IF x \in here THEN "running" ELSE thread[x]]
                  ELSE [thread EXCEPT ![t] = "waiting"]
     /\ UNCHANGED <<io_worker_count, main, input_queue, exited>>

------------------------------------------------------------------------------
(* Properties *)

StartTypeOK ==
  /\ io_worker_count \in 0 .. MaxWorkers
  /\ main \in [loop : {"stats", "malloc", "queue", "io", "join"},
               i : 0 .. ActorCount + MaxWorkers, q : 0 .. MaxWorkers]
  /\ input_queue \in [Actors -> [Queues -> {"null", "garbage", "ready"}]]
  /\ thread \in [Threads -> {"none", "starting", "waiting", "running"}]
  /\ exited \in {"no", "check", "crash"}

\* The actors and the workers this process is to have.
Expected == ({"app"} \X Actors) \cup ({"io"} \X (0 .. io_worker_count - 1))

AllReady == \A a \in Actors, q \in 0 .. io_worker_count - 1 : input_queue[a][q] = "ready"

(***************************************************************************)
(* "make sure all application threads have started" (io_worker.c:97,       *)
(* actor.c:103): an actor or a worker is past the barrier only when every  *)
(* mailbox exists and every actor and worker has come to the barrier, so   *)
(* no push of a worker can meet an actor that is not there.                *)
(* All of it presumes the types (StartTypeOK).                             *)
(***************************************************************************)
BarrierCovers ==
  /\ StartTypeOK
  /\ (\E t \in Expected : thread[t] = "running")
      => AllReady /\ \A t \in Expected : thread[t] = "running"

(***************************************************************************)
(* Unless the process ends, every actor and every worker gets going: the   *)
(* barrier waits for exactly the threads main creates.                     *)
(***************************************************************************)
EverybodyStarts == <>(exited # "no" \/ \A t \in Expected : thread[t] = "running")

==============================================================================
