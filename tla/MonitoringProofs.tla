--------------------------- MODULE MonitoringProofs --------------------------
(***************************************************************************)
(* Proofs about the start-up, the statistics and the thread that reports   *)
(* them: for every number of actors, workers and time types, every         *)
(* resolution of the clock and every interleaving, BarrierCovers,          *)
(* CrashNeedsEarlyWalk, TimesAccurate, CountsExact and NeverOverstated.    *)
(*                                                                         *)
(* The inductive invariant has three parts.  StartInv says how far main    *)
(* has come, which mailboxes and which threads exist at that place, and    *)
(* that the threads are past the barrier all together or not at all.       *)
(* StatInv bounds the error and the size of the times of each request that *)
(* are still to be added, and of the sums.  ThreadInv is what the          *)
(* statistics thread may rely on in the middle of a walk or between two    *)
(* loads.                                                                  *)
(***************************************************************************)
EXTENDS Monitoring, FiniteSetTheorems, TLAPS

\* The place of main.
MainInv ==
  /\ main.loop = "stats" => main.i = 0 /\ main.q = 0
  /\ main.loop = "malloc" => main.i \in Actors
  /\ main.loop = "queue" => main.i \in Actors /\ main.q <= io_worker_count
  /\ main.loop = "io" => main.i <= io_worker_count

\* create_actor has returned for the actor a.
ActorMade(a) ==
  \/ main.loop \in {"malloc", "queue"} /\ a < main.i
  \/ main.loop \in {"io", "join"}

\* create_io_worker has returned for the worker q.
WorkerMade(q) ==
  \/ main.loop = "io" /\ q < main.i
  \/ main.loop = "join" /\ q < io_worker_count

\* create_actor has not begun for the actor a.
Untouched(a) ==
  \/ main.loop = "stats"
  \/ main.loop = "malloc" /\ main.i <= a
  \/ main.loop = "queue" /\ main.i < a

QueueInv ==
  /\ \A a \in Actors, q \in 0 .. io_worker_count - 1 :
       /\ ActorMade(a) => input_queue[a][q] = "ready"
       /\ Untouched(a) => input_queue[a][q] = "null"
  /\ main.loop = "queue" => \A q \in 0 .. main.q - 1 : input_queue[main.i][q] = "ready"

ThreadsInv ==
  /\ \A a \in Actors : thread[<<"app", a>>] = "none" <=> ~ActorMade(a)
  /\ \A q \in Queues : thread[<<"io", q>>] = "none" <=> ~WorkerMade(q)
  /\ thread[stats_thread] \in {"none", "running"}
  /\ (\E t \in Expected : thread[t] = "running") => \A t \in Expected : thread[t] = "running"

StartInv ==
  /\ StartTypeOK
  /\ MainInv
  /\ QueueInv
  /\ ThreadsInv

\* No interval measures longer than this.
Longest == MaxClock \div NsPerMicro + 1

\* A sum of n intervals that took k ticks differs from them by less than a
\* microsecond each.
Close(sum, k, n) ==
  /\ -((NsPerMicro - 1) * n) <= NsPerMicro * sum - k
  /\ NsPerMicro * sum - k <= (NsPerMicro - 1) * n

\* What is still to be added of a request.
RequestInv(r) ==
  /\ r.stage # "add" => r.next = 0
  /\ r.keep => r.stage \in {"count", "add"}
  /\ r.stage = "open" => r.intervals[TOTAL_TIME] = 0
  /\ \A t \in Types : r.next <= t =>
       /\ Close(r.total_micros[t], r.ticks[t], r.intervals[t])
       /\ r.intervals[t] <= MaxIntervals
       /\ r.total_micros[t] <= r.intervals[t] * Longest

SumInv ==
  \A t \in Types :
    /\ Close(avg_micros[t], recorded.ticks[t], recorded.intervals[t])
    /\ avg_micros[t] <= recorded.requests[t] * MaxMicros

StatInv ==
  /\ CountsExact
  /\ \A w \in Workers : RequestInv(request[w])
  /\ SumInv

ThreadInv ==
  /\ doing \in {None, <<"queues">>, <<"divide">>} \cup {<<"time", t>> : t \in Types}
  /\ walk \in [actor_id : Nat, queue_id : Nat]
  /\ walk.queue_id = 0 \/ walk.queue_id < io_worker_count
  /\ quotient \in [time : Nat, requests : Nat]
  /\ early \in BOOLEAN
  /\ doing = <<"queues">> => early \/ AllReady
  /\ CrashNeedsEarlyWalk
  /\ \A t \in Types : doing = <<"time", t>> =>
       quotient.time <= total_requests_processed * MaxMicros
  /\ NeverOverstated

IndInv == StartInv /\ StatInv /\ ThreadInv

------------------------------------------------------------------------------
(* The start-up *)

\* The constants, as the steps use them.
LEMMA Constants ==
  /\ ActorCount \in Nat \ {0} /\ MaxWorkers \in Nat /\ 0 \in Actors
  /\ \A a \in Actors : <<"app", a>> \in Threads
  /\ \A q \in Queues : <<"io", q>> \in Threads
  /\ stats_thread \in Threads
BY StartupAssumption DEF Actors, Queues, Threads, stats_thread

\* The names of the threads are different.
LEMMA ThreadNames ==
  ASSUME NEW a, NEW q
  PROVE  <<"app", a>> # <<"io", q>> /\ <<"app", a>> # stats_thread /\ <<"io", q>> # stats_thread
BY DEF stats_thread

\* A thread of this process is an actor or one of its workers.
LEMMA ExpectedThreads ==
  ASSUME StartTypeOK
  PROVE  /\ \A a \in Actors : <<"app", a>> \in Expected
         /\ \A q \in 0 .. io_worker_count - 1 : <<"io", q>> \in Expected /\ q \in Queues
         /\ \A t \in Expected : \/ \E a \in Actors : t = <<"app", a>>
                                \/ \E q \in 0 .. io_worker_count - 1 : t = <<"io", q>>
         /\ Expected \subseteq Threads
         /\ stats_thread \notin Expected
<1>1. \A q \in 0 .. io_worker_count - 1 : q \in Queues
  BY Constants DEF StartTypeOK, Queues
<1>2. \A a \in Actors : <<"app", a>> \in Expected
  BY DEF Expected
<1>3. \A q \in 0 .. io_worker_count - 1 : <<"io", q>> \in Expected
  BY DEF Expected
<1>4. \A t \in Expected : \/ \E a \in Actors : t = <<"app", a>>
                          \/ \E q \in 0 .. io_worker_count - 1 : t = <<"io", q>>
  BY DEF Expected
<1>5. Expected \subseteq Threads
  BY <1>1, <1>4, Constants
<1>6. stats_thread \notin Expected
  BY <1>4, ThreadNames
<1> QED BY <1>1, <1>2, <1>3, <1>4, <1>5, <1>6

\* pthread_barrier_init is given the number of threads that will come.
LEMMA ExpectedCount ==
  ASSUME StartTypeOK
  PROVE  IsFiniteSet(Expected) /\ Cardinality(Expected) = barrier_count
<1> DEFINE A == {"app"} \X Actors
           Q == 0 .. io_worker_count - 1
           B == {"io"} \X Q
<1>1. io_worker_count \in Nat /\ ActorCount \in Nat
  BY Constants DEF StartTypeOK
<1>2. IsFiniteSet(Actors) /\ Cardinality(Actors) = ActorCount
  BY <1>1, FS_Interval DEF Actors
<1>3. IsFiniteSet(Q) /\ Cardinality(Q) = io_worker_count
  BY <1>1, FS_Interval
<1>4. /\ IsFiniteSet({"app"}) /\ Cardinality({"app"}) = 1
      /\ IsFiniteSet({"io"}) /\ Cardinality({"io"}) = 1
  BY FS_Singleton
<1>5. IsFiniteSet(A) /\ Cardinality(A) = ActorCount
  <2>1. IsFiniteSet(A) /\ Cardinality(A) = 1 * Cardinality(Actors)
    BY <1>2, <1>4, FS_Product
  <2> QED BY <1>1, <1>2, <2>1
<1>6. IsFiniteSet(B) /\ Cardinality(B) = io_worker_count
  <2> HIDE DEF Q
  <2>1. IsFiniteSet(B) /\ Cardinality(B) = 1 * Cardinality(Q)
    BY <1>3, <1>4, FS_Product
  <2> QED BY <1>1, <1>3, <2>1
<1>7. A \cap B = {}
  BY ThreadNames
<1>8. Expected = A \cup B
  BY DEF Expected
<1> HIDE DEF A, B
<1>9. IsFiniteSet(A \cup B) /\ Cardinality(A \cup B) = Cardinality(A) + Cardinality(B) - Cardinality(A \cap B)
  BY <1>5, <1>6, FS_Union
<1>10. Cardinality(A \cap B) = 0
  BY <1>7, FS_EmptySet
<1> QED BY <1>1, <1>5, <1>6, <1>8, <1>9, <1>10 DEF barrier_count

\* Nothing exists yet.
LEMMA StartInitInv == StartInit => StartInv
<1> SUFFICES ASSUME StartInit PROVE StartInv
  OBVIOUS
<1>1. StartTypeOK
  BY Constants DEF StartInit, StartTypeOK, At
<1>2. main.loop = "stats" /\ main.i = 0 /\ main.q = 0
  BY DEF StartInit, At
<1>3. MainInv
  BY <1>2 DEF MainInv
<1>4. \A a \in Actors, q \in 0 .. io_worker_count - 1 : input_queue[a][q] = "null"
  BY <1>1, ExpectedThreads DEF StartInit
<1>5. QueueInv
  BY <1>2, <1>4 DEF QueueInv, ActorMade
<1>6. \A t \in Threads : thread[t] = "none"
  BY DEF StartInit
<1>7. ThreadsInv
  BY <1>1, <1>2, <1>6, Constants, ExpectedThreads DEF ThreadsInv, ActorMade, WorkerMade
<1> QED BY <1>1, <1>3, <1>5, <1>7 DEF StartInv

\* A thread that is created is one more before the barrier.
LEMMA Spawned ==
  ASSUME StartInv, NEW x \in Expected, thread[x] = "none",
         thread' = [thread EXCEPT ![x] = "starting"], io_worker_count' = io_worker_count
  PROVE  /\ thread' \in [Threads -> {"none", "starting", "waiting", "running"}]
         /\ \A t \in Threads : t # x => thread'[t] = thread[t]
         /\ thread'[x] = "starting"
         /\ thread'[stats_thread] = thread[stats_thread]
         /\ \A t \in Expected' : thread'[t] # "running"
<1>1. StartTypeOK /\ ThreadsInv
  BY DEF StartInv
<1>2. Expected' = Expected /\ x \in Threads /\ x # stats_thread
  BY <1>1, ExpectedThreads DEF Expected
<1>3. thread \in [Threads -> {"none", "starting", "waiting", "running"}]
  BY <1>1 DEF StartTypeOK
<1>4. \A t \in Expected : thread[t] # "running"
  BY <1>1 DEF ThreadsInv
<1> QED BY <1>1, <1>2, <1>3, <1>4, Constants, ExpectedThreads

\* The steps of main.
LEMMA MainInvariant ==
  ASSUME StartInv, MainStep
  PROVE  StartInv'
<1>0. StartTypeOK /\ MainInv /\ QueueInv /\ ThreadsInv
  BY DEF StartInv
<1>1. PICK W \in Nat : W = io_worker_count /\ W <= MaxWorkers
  BY <1>0, Constants DEF StartTypeOK
<1>2. /\ ActorCount \in Nat \ {0} /\ MaxWorkers \in Nat
      /\ main.loop \in {"stats", "malloc", "queue", "io", "join"}
      /\ main.i \in 0 .. ActorCount + MaxWorkers /\ main.q \in 0 .. MaxWorkers
      /\ input_queue \in [Actors -> [Queues -> {"null", "garbage", "ready"}]]
      /\ thread \in [Threads -> {"none", "starting", "waiting", "running"}]
      /\ exited \in {"no", "check", "crash"}
  BY <1>0, Constants DEF StartTypeOK
<1>3. \A q \in 0 .. W - 1 : q \in Queues /\ <<"io", q>> \in Expected
  BY <1>0, <1>1, ExpectedThreads
<1>4. \A a : a \in Actors <=> a \in Nat /\ a < ActorCount
  BY <1>2 DEF Actors
<1>5. io_worker_count' = io_worker_count
  BY DEF MainStep, create_stats, MallocQueues, InitQueue, SpawnActor, create_io_worker, Join
<1>6. Expected' = Expected
  BY <1>5 DEF Expected
<1>7. CASE create_stats
  <2>1. /\ main.loop = "stats" /\ main'.loop = "malloc" /\ main'.i = 0 /\ main'.q = 0
        /\ main' = At("malloc", 0, 0)
        /\ thread' = [thread EXCEPT ![stats_thread] = "running"]
        /\ input_queue' = input_queue /\ exited' = exited
    BY <1>7 DEF create_stats, At
  <2>2. /\ thread' \in [Threads -> {"none", "starting", "waiting", "running"}]
        /\ thread'[stats_thread] = "running"
        /\ \A t \in Threads : t # stats_thread => thread'[t] = thread[t]
    BY <1>2, <2>1, Constants
  <2>3. StartTypeOK'
    BY <1>0, <1>1, <1>2, <1>5, <2>1, <2>2 DEF StartTypeOK, At
  <2>4. MainInv'
    BY <1>2, <1>4, <2>1 DEF MainInv
  <2>5. QueueInv'
    BY <1>0, <1>4, <1>5, <2>1 DEF QueueInv, ActorMade, Untouched
  <2>6. ThreadsInv'
    <3>1. \A a \in Actors : thread'[<<"app", a>>] = thread[<<"app", a>>]
      BY <2>2, Constants, ThreadNames
    <3>2. \A q \in Queues : thread'[<<"io", q>>] = thread[<<"io", q>>]
      BY <2>2, Constants, ThreadNames
    <3>3. \A t \in Expected : thread'[t] = thread[t]
      BY <1>0, <2>2, ExpectedThreads
    <3>4. \A a \in Actors : ~ActorMade(a)' /\ ~ActorMade(a)
      BY <1>4, <2>1 DEF ActorMade
    <3>5. \A q \in Queues : ~WorkerMade(q)' /\ ~WorkerMade(q)
      BY <2>1 DEF WorkerMade
    <3> QED BY <1>0, <1>6, <2>2, <3>1, <3>2, <3>3, <3>4, <3>5 DEF ThreadsInv
  <2> QED BY <2>3, <2>4, <2>5, <2>6 DEF StartInv
<1>8. CASE MallocQueues
  <2>1. /\ main.loop = "malloc" /\ main'.loop = "queue" /\ main'.i = main.i /\ main'.q = 0
        /\ main' = At("queue", main.i, 0)
        /\ input_queue' = [input_queue EXCEPT ![main.i] = [q \in Queues |-> "garbage"]]
        /\ thread' = thread /\ exited' = exited
    BY <1>8 DEF MallocQueues, At
  <2>2. main.i \in Actors
    BY <1>0, <2>1 DEF MainInv
  <2>3. /\ input_queue' \in [Actors -> [Queues -> {"null", "garbage", "ready"}]]
        /\ \A a \in Actors : a # main.i => input_queue'[a] = input_queue[a]
    BY <1>2, <2>1, <2>2
  <2>4. StartTypeOK'
    BY <1>0, <1>1, <1>2, <1>5, <2>1, <2>3 DEF StartTypeOK, At
  <2>5. MainInv'
    BY <1>1, <1>5, <2>1, <2>2 DEF MainInv
  <2>6. QueueInv'
    <3> SUFFICES ASSUME NEW a \in Actors, NEW q \in 0 .. io_worker_count - 1
                 PROVE  /\ ActorMade(a)' => input_queue'[a][q] = "ready"
                        /\ Untouched(a)' => input_queue'[a][q] = "null"
      BY <1>5, <2>1 DEF QueueInv
    <3>1. ActorMade(a)' <=> a < main.i
      BY <2>1 DEF ActorMade
    <3>2. Untouched(a)' <=> main.i < a
      BY <2>1 DEF Untouched
    <3>3. a < main.i => input_queue[a][q] = "ready" /\ a # main.i
      BY <1>0, <1>2, <1>4, <2>1 DEF QueueInv, ActorMade
    <3>4. main.i < a => input_queue[a][q] = "null" /\ a # main.i
      BY <1>0, <1>2, <1>4, <2>1 DEF QueueInv, Untouched
    <3> QED BY <2>3, <3>1, <3>2, <3>3, <3>4
  <2>7. ThreadsInv'
    <3>1. \A a : ActorMade(a)' <=> ActorMade(a)
      BY <2>1 DEF ActorMade
    <3>2. \A q : WorkerMade(q)' <=> WorkerMade(q)
      BY <2>1 DEF WorkerMade
    <3> QED BY <1>0, <1>6, <2>1, <3>1, <3>2 DEF ThreadsInv
  <2> QED BY <2>4, <2>5, <2>6, <2>7 DEF StartInv
<1>9. CASE InitQueue
  <2>1. /\ main.loop = "queue" /\ main.q < W /\ main'.loop = "queue"
        /\ main'.i = main.i /\ main'.q = main.q + 1
        /\ main' = At("queue", main.i, main.q + 1)
        /\ input_queue' = [input_queue EXCEPT ![main.i][main.q] = "ready"]
        /\ thread' = thread /\ exited' = exited
    BY <1>1, <1>9 DEF InitQueue, At
  <2>2. main.i \in Actors /\ main.q \in Queues /\ main.q \in Nat
    <3>1. main.i \in Actors
      BY <1>0, <2>1 DEF MainInv
    <3>2. main.q \in 0 .. W - 1
      BY <1>1, <1>2, <2>1
    <3>3. main.q \in Queues
      BY <1>3, <3>2
    <3>4. main.q \in Nat
      BY <1>2
    <3> QED BY <3>1, <3>3, <3>4
  <2>3. /\ input_queue' \in [Actors -> [Queues -> {"null", "garbage", "ready"}]]
        /\ \A a \in Actors : a # main.i => input_queue'[a] = input_queue[a]
        /\ \A q \in Queues : q # main.q => input_queue'[main.i][q] = input_queue[main.i][q]
        /\ input_queue'[main.i][main.q] = "ready"
    BY <1>2, <2>1, <2>2
  <2>4. StartTypeOK'
    BY <1>0, <1>1, <1>2, <1>5, <2>1, <2>3 DEF StartTypeOK, At
  <2>5. MainInv'
    BY <1>1, <1>2, <1>5, <2>1, <2>2 DEF MainInv
  <2>6. QueueInv'
    <3>1. ASSUME NEW a \in Actors, NEW q \in 0 .. io_worker_count - 1
          PROVE  /\ ActorMade(a)' => input_queue'[a][q] = "ready"
                 /\ Untouched(a)' => input_queue'[a][q] = "null"
      <4>1. ActorMade(a)' <=> a < main.i
        BY <2>1 DEF ActorMade
      <4>2. Untouched(a)' <=> main.i < a
        BY <2>1 DEF Untouched
      <4>3. a < main.i => input_queue[a][q] = "ready" /\ a # main.i
        BY <1>0, <1>2, <1>4, <2>1 DEF QueueInv, ActorMade
      <4>4. main.i < a => input_queue[a][q] = "null" /\ a # main.i
        BY <1>0, <1>2, <1>4, <2>1 DEF QueueInv, Untouched
      <4> QED BY <2>3, <4>1, <4>2, <4>3, <4>4
    <3>2. ASSUME NEW q \in 0 .. (main.q + 1) - 1
          PROVE  input_queue'[main.i][q] = "ready"
      <4>1. CASE q = main.q
        BY <2>3, <4>1
      <4>2. CASE q # main.q
        <5>1. q \in 0 .. main.q - 1 /\ q \in 0 .. W - 1
          BY <1>1, <2>1, <2>2, <4>2
        <5> QED BY <1>0, <1>3, <2>1, <2>3, <4>2, <5>1 DEF QueueInv
      <4> QED BY <4>1, <4>2
    <3> QED BY <1>5, <2>1, <3>1, <3>2 DEF QueueInv
  <2>7. ThreadsInv'
    <3>1. \A a : ActorMade(a)' <=> ActorMade(a)
      BY <2>1 DEF ActorMade
    <3>2. \A q : WorkerMade(q)' <=> WorkerMade(q)
      BY <2>1 DEF WorkerMade
    <3> QED BY <1>0, <1>6, <2>1, <3>1, <3>2 DEF ThreadsInv
  <2> QED BY <2>4, <2>5, <2>6, <2>7 DEF StartInv
<1>10. CASE SpawnActor
  <2>1. /\ main.loop = "queue" /\ main.q = W
        /\ thread' = [thread EXCEPT ![<<"app", main.i>>] = "starting"]
        /\ main' = IF main.i + 1 < ActorCount THEN At("malloc", main.i + 1, 0) ELSE At("io", 0, 0)
        /\ input_queue' = input_queue /\ exited' = exited
    BY <1>1, <1>10 DEF SpawnActor
  <2>2. main.i \in Actors
    BY <1>0, <2>1 DEF MainInv
  <2>3. /\ main.i + 1 < ActorCount => main'.loop = "malloc" /\ main'.i = main.i + 1 /\ main'.q = 0
        /\ ~(main.i + 1 < ActorCount) => main'.loop = "io" /\ main'.i = 0 /\ main'.q = 0
    BY <2>1 DEF At
  <2>4. \A a \in Actors : ActorMade(a)' <=> a <= main.i
    BY <1>2, <1>4, <2>2, <2>3 DEF ActorMade
  <2>5. \A a \in Actors : /\ ActorMade(a) <=> a < main.i
                          /\ Untouched(a)' <=> main.i < a
                          /\ Untouched(a) <=> main.i < a
    BY <1>2, <1>4, <2>1, <2>2, <2>3 DEF ActorMade, Untouched
  <2>6. \A q \in Queues : ~WorkerMade(q) /\ ~WorkerMade(q)'
    BY <1>2, <2>1, <2>3 DEF WorkerMade, Queues
  <2>7. <<"app", main.i>> \in Expected /\ thread[<<"app", main.i>>] = "none"
    <3>1. <<"app", main.i>> \in Expected
      BY <1>0, <2>2, ExpectedThreads
    <3>2. ~ActorMade(main.i)
      BY <1>2, <2>2, <2>5
    <3> QED BY <1>0, <2>2, <3>1, <3>2 DEF ThreadsInv
  <2>8. /\ thread' \in [Threads -> {"none", "starting", "waiting", "running"}]
        /\ \A t \in Threads : t # <<"app", main.i>> => thread'[t] = thread[t]
        /\ thread'[<<"app", main.i>>] = "starting"
        /\ thread'[stats_thread] = thread[stats_thread]
        /\ \A t \in Expected' : thread'[t] # "running"
    BY <1>5, <2>1, <2>7, Spawned
  <2>9. StartTypeOK'
    <3>1. main' \in [loop : {"stats", "malloc", "queue", "io", "join"},
                     i : 0 .. ActorCount + MaxWorkers, q : 0 .. MaxWorkers]
      BY <1>2, <1>4, <2>1, <2>2 DEF At
    <3> QED BY <1>0, <1>1, <1>2, <1>5, <2>1, <2>8, <3>1 DEF StartTypeOK
  <2>10. MainInv'
    BY <1>1, <1>2, <1>4, <1>5, <2>2, <2>3 DEF MainInv
  <2>11. QueueInv'
    <3>1. ASSUME NEW a \in Actors, NEW q \in 0 .. io_worker_count - 1
          PROVE  /\ ActorMade(a)' => input_queue[a][q] = "ready"
                 /\ Untouched(a)' => input_queue[a][q] = "null"
      <4>1. CASE a = main.i
        <5>1. input_queue[a][q] = "ready"
          BY <1>0, <1>1, <2>1, <4>1 DEF QueueInv
        <5>2. ~Untouched(a)'
          BY <1>2, <2>5, <4>1
        <5> QED BY <5>1, <5>2
      <4>2. CASE a # main.i
        <5>1. ActorMade(a)' => ActorMade(a)
          BY <1>2, <1>4, <2>4, <2>5, <4>2
        <5> QED BY <1>0, <2>5, <5>1 DEF QueueInv
      <4> QED BY <4>1, <4>2
    <3>2. main'.loop # "queue"
      BY <2>3
    <3> QED BY <1>5, <2>1, <3>1, <3>2 DEF QueueInv
  <2>12. ThreadsInv'
    <3>1. ASSUME NEW a \in Actors
          PROVE  thread'[<<"app", a>>] = "none" <=> ~ActorMade(a)'
      <4>1. CASE a = main.i
        BY <1>2, <2>4, <2>8, <4>1
      <4>2. CASE a # main.i
        <5>1. ActorMade(a)' <=> ActorMade(a)
          BY <1>2, <1>4, <2>4, <2>5, <4>2
        <5>2. thread'[<<"app", a>>] = thread[<<"app", a>>]
          BY <2>8, <4>2, Constants
        <5> QED BY <1>0, <5>1, <5>2 DEF ThreadsInv
      <4> QED BY <4>1, <4>2
    <3>2. ASSUME NEW q \in Queues
          PROVE  thread'[<<"io", q>>] = "none" <=> ~WorkerMade(q)'
      <4>1. thread'[<<"io", q>>] = thread[<<"io", q>>]
        BY <2>8, Constants, ThreadNames
      <4> QED BY <1>0, <2>6, <4>1 DEF ThreadsInv
    <3> QED BY <1>0, <2>8, <3>1, <3>2 DEF ThreadsInv
  <2> QED BY <2>9, <2>10, <2>11, <2>12 DEF StartInv
<1>11. CASE create_io_worker
  <2>1. /\ main.loop = "io" /\ main.i < W /\ main'.loop = "io" /\ main'.i = main.i + 1
        /\ thread' = [thread EXCEPT ![<<"io", main.i>>] = "starting"]
        /\ main' = At("io", main.i + 1, 0)
        /\ input_queue' = input_queue /\ exited' = exited
    BY <1>1, <1>11 DEF create_io_worker, At
  <2>2. main.i \in 0 .. W - 1 /\ main.i \in Queues /\ main.i + 1 <= MaxWorkers
    BY <1>1, <1>2, <1>3, <2>1
  <2>3. \A a : ActorMade(a)' /\ ActorMade(a) /\ ~Untouched(a)'
    BY <2>1 DEF ActorMade, Untouched
  <2>4. \A q \in Queues : (WorkerMade(q) <=> q < main.i) /\ (WorkerMade(q)' <=> q < main.i + 1)
    BY <2>1 DEF WorkerMade
  <2>5. <<"io", main.i>> \in Expected /\ thread[<<"io", main.i>>] = "none"
    <3>1. ~WorkerMade(main.i)
      BY <1>2, <2>2, <2>4
    <3> QED BY <1>0, <1>3, <2>2, <3>1 DEF ThreadsInv
  <2>6. /\ thread' \in [Threads -> {"none", "starting", "waiting", "running"}]
        /\ \A t \in Threads : t # <<"io", main.i>> => thread'[t] = thread[t]
        /\ thread'[<<"io", main.i>>] = "starting"
        /\ thread'[stats_thread] = thread[stats_thread]
        /\ \A t \in Expected' : thread'[t] # "running"
    BY <1>5, <2>1, <2>5, Spawned
  <2>7. StartTypeOK'
    BY <1>0, <1>1, <1>2, <1>5, <2>1, <2>2, <2>6 DEF StartTypeOK, At
  <2>8. MainInv'
    BY <1>1, <1>2, <1>5, <2>1 DEF MainInv
  <2>9. QueueInv'
    BY <1>0, <1>5, <2>1, <2>3 DEF QueueInv
  <2>10. ThreadsInv'
    <3>1. ASSUME NEW a \in Actors
          PROVE  thread'[<<"app", a>>] = "none" <=> ~ActorMade(a)'
      <4>1. thread'[<<"app", a>>] = thread[<<"app", a>>]
        BY <2>6, Constants, ThreadNames
      <4> QED BY <1>0, <2>3, <4>1 DEF ThreadsInv
    <3>2. ASSUME NEW q \in Queues
          PROVE  thread'[<<"io", q>>] = "none" <=> ~WorkerMade(q)'
      <4>0. q \in Nat
        BY <1>2 DEF Queues
      <4>1. CASE q = main.i
        BY <1>2, <2>4, <2>6, <4>1
      <4>2. CASE q # main.i
        <5>1. WorkerMade(q)' <=> WorkerMade(q)
          BY <1>2, <2>4, <4>0, <4>2
        <5>2. thread'[<<"io", q>>] = thread[<<"io", q>>]
          BY <2>6, <4>2, Constants
        <5> QED BY <1>0, <5>1, <5>2 DEF ThreadsInv
      <4> QED BY <4>1, <4>2
    <3> QED BY <1>0, <2>6, <3>1, <3>2 DEF ThreadsInv
  <2> QED BY <2>7, <2>8, <2>9, <2>10 DEF StartInv
<1>12. CASE Join
  <2>1. /\ main.loop = "io" /\ main.i = W /\ main'.loop = "join"
        /\ main' = At("join", 0, 0) /\ exited' \in {"no", "check", "crash"}
        /\ input_queue' = input_queue /\ thread' = thread
    BY <1>1, <1>12 DEF Join, At
  <2>2. \A a : ActorMade(a)' /\ ActorMade(a) /\ ~Untouched(a)'
    BY <2>1 DEF ActorMade, Untouched
  <2>3. \A q : WorkerMade(q)' <=> WorkerMade(q)
    BY <1>1, <1>5, <2>1 DEF WorkerMade
  <2>4. StartTypeOK'
    BY <1>0, <1>1, <1>2, <1>5, <2>1 DEF StartTypeOK, At
  <2>5. MainInv' /\ QueueInv'
    BY <1>0, <1>5, <2>1, <2>2 DEF MainInv, QueueInv
  <2>6. ThreadsInv'
    BY <1>0, <1>6, <2>1, <2>2, <2>3 DEF ThreadsInv
  <2> QED BY <2>4, <2>5, <2>6 DEF StartInv
<1> QED BY <1>7, <1>8, <1>9, <1>10, <1>11, <1>12 DEF MainStep

\* Everybody comes to the barrier: the last one lets all go at once, and then
\* main has created all of them, so every mailbox is ready.
LEMMA BarrierInvariant ==
  ASSUME StartInv, NEW x \in Threads, pthread_barrier_wait(x)
  PROVE  StartInv'
<1> DEFINE here == {t \in Threads : thread[t] = "waiting"} \cup {x}
<1>0. StartTypeOK /\ MainInv /\ QueueInv /\ ThreadsInv
  BY DEF StartInv
<1>1. /\ thread[x] = "starting"
      /\ thread' = IF Cardinality(here) = barrier_count
                   THEN [t \in Threads |-> IF t \in here THEN "running" ELSE thread[t]]
                   ELSE [thread EXCEPT ![x] = "waiting"]
      /\ UNCHANGED <<io_worker_count, main, input_queue, exited>>
  BY DEF pthread_barrier_wait
<1>2. thread \in [Threads -> {"none", "starting", "waiting", "running"}]
  BY <1>0 DEF StartTypeOK
<1>3. Expected' = Expected
  BY <1>1 DEF Expected
<1>4. \A t \in Threads : thread[t] \in {"starting", "waiting"} => t \in Expected
  <2> SUFFICES ASSUME NEW t \in Threads, thread[t] \in {"starting", "waiting"}
               PROVE  t \in Expected
    OBVIOUS
  <2>1. t # stats_thread
    BY <1>0 DEF ThreadsInv
  <2>2. CASE \E a \in Actors : t = <<"app", a>>
    BY <1>0, <2>2, ExpectedThreads
  <2>3. CASE \E q \in Queues : t = <<"io", q>>
    <3>1. PICK q \in Queues : t = <<"io", q>>
      BY <2>3
    <3>2. WorkerMade(q)
      BY <1>0, <3>1 DEF ThreadsInv
    <3>3. q < io_worker_count /\ q \in Nat /\ io_worker_count \in Nat
      BY <1>0, <3>2, Constants DEF WorkerMade, MainInv, StartTypeOK, Queues
    <3>4. q \in 0 .. io_worker_count - 1
      BY <3>3
    <3> QED BY <1>0, <3>1, <3>4, ExpectedThreads
  <2> QED BY <2>1, <2>2, <2>3 DEF Threads
<1>5. here \subseteq Expected /\ x \in Expected
  BY <1>1, <1>4
<1>6. \A t \in Expected : thread[t] # "running"
  BY <1>0, <1>1, <1>5 DEF ThreadsInv
<1>7. /\ thread' \in [Threads -> {"none", "starting", "waiting", "running"}]
      /\ \A t \in Threads : thread'[t] = "none" <=> thread[t] = "none"
      /\ \A t \in Threads : t \notin Expected => thread'[t] = thread[t]
  <2> HIDE DEF here
  <2>1. \A t \in here : t \in Expected
    BY <1>5
  <2>2. \A t \in here : thread[t] # "none"
    BY <1>1 DEF here
  <2>3. CASE Cardinality(here) = barrier_count
    <3>1. thread' = [t \in Threads |-> IF t \in here THEN "running" ELSE thread[t]]
      BY <1>1, <2>3
    <3> QED BY <1>2, <2>1, <2>2, <3>1
  <2>4. CASE Cardinality(here) # barrier_count
    <3>1. thread' = [thread EXCEPT ![x] = "waiting"]
      BY <1>1, <2>4
    <3> QED BY <1>1, <1>2, <1>5, <3>1
  <2> QED BY <2>3, <2>4
<1>8. \/ \A t \in Expected : thread'[t] = "running"
      \/ \A t \in Expected : thread'[t] # "running"
  <2> HIDE DEF here
  <2>1. CASE Cardinality(here) = barrier_count
    <3>1. IsFiniteSet(Expected) /\ Cardinality(here) = Cardinality(Expected)
      BY <1>0, <2>1, ExpectedCount
    <3>2. here = Expected
      BY <1>5, <3>1, FS_Subset
    <3>3. \A t \in Expected : t \in Threads
      BY <1>0, ExpectedThreads
    <3> QED BY <1>1, <2>1, <3>2, <3>3
  <2>2. CASE Cardinality(here) # barrier_count
    <3>1. thread' = [thread EXCEPT ![x] = "waiting"]
      BY <1>1, <2>2
    <3>2. \A t \in Expected : t \in Threads
      BY <1>0, ExpectedThreads
    <3> QED BY <1>2, <1>6, <3>1, <3>2
  <2> QED BY <2>1, <2>2
<1>9. StartTypeOK' /\ MainInv' /\ QueueInv'
  BY <1>0, <1>1, <1>7 DEF StartTypeOK, MainInv, QueueInv, ActorMade, Untouched
<1>10. ThreadsInv'
  <2>1. thread'[stats_thread] = thread[stats_thread]
    BY <1>0, <1>7, Constants, ExpectedThreads
  <2>2. \A a : ActorMade(a)' <=> ActorMade(a)
    BY <1>1 DEF ActorMade
  <2>3. \A q : WorkerMade(q)' <=> WorkerMade(q)
    BY <1>1 DEF WorkerMade
  <2>4. \A a \in Actors : thread'[<<"app", a>>] = "none" <=> ~ActorMade(a)'
    BY <1>0, <1>7, <2>2, Constants DEF ThreadsInv
  <2>5. \A q \in Queues : thread'[<<"io", q>>] = "none" <=> ~WorkerMade(q)'
    BY <1>0, <1>7, <2>3, Constants DEF ThreadsInv
  <2> QED BY <1>0, <1>3, <1>8, <2>1, <2>4, <2>5 DEF ThreadsInv
<1> QED BY <1>9, <1>10 DEF StartInv

\* The steps that leave the start-up alone, whatever ends the process.
LEMMA StartFrame ==
  ASSUME StartInv, UNCHANGED <<io_worker_count, main, input_queue, thread>>,
         exited' \in {"no", "check", "crash"}
  PROVE  StartInv'
BY DEF StartInv, StartTypeOK, MainInv, QueueInv, ThreadsInv, ActorMade, WorkerMade, Untouched,
       Expected

\* The invariant of the start-up is what the barrier promises.
LEMMA BarrierLemma == StartInv => BarrierCovers
<1> SUFFICES ASSUME StartInv, \E t \in Expected : thread[t] = "running"
             PROVE  AllReady /\ \A t \in Expected : thread[t] = "running"
  BY DEF StartInv, BarrierCovers
<1>0. StartTypeOK /\ QueueInv /\ ThreadsInv
  BY DEF StartInv
<1>1. \A t \in Expected : thread[t] = "running"
  BY <1>0 DEF ThreadsInv
<1>2. \A a \in Actors : ActorMade(a)
  BY <1>0, <1>1, ExpectedThreads DEF ThreadsInv
<1> QED BY <1>0, <1>1, <1>2 DEF QueueInv, AllReady

\* Mailboxes that exist stay.
LEMMA ReadyStays ==
  ASSUME StartInv, MainStep, AllReady
  PROVE  AllReady'
<1>0. StartTypeOK /\ MainInv /\ QueueInv
  BY DEF StartInv
<1>1. /\ ActorCount \in Nat \ {0}
      /\ input_queue \in [Actors -> [Queues -> {"null", "garbage", "ready"}]]
      /\ \A q \in 0 .. io_worker_count - 1 : q \in Queues
  <2>1. \A q \in 0 .. io_worker_count - 1 : q \in Queues
    BY <1>0, ExpectedThreads
  <2> QED BY <1>0, <2>1, Constants DEF StartTypeOK
<1>2. CASE MallocQueues
  <2>1. main.i \in Actors /\ Untouched(main.i) /\ io_worker_count' = io_worker_count
    BY <1>0, <1>1, <1>2 DEF MainInv, MallocQueues, Untouched, Actors
  <2>2. \A q \in 0 .. io_worker_count - 1 : input_queue[main.i][q] = "null"
    BY <1>0, <2>1 DEF QueueInv
  <2>3. \A q : q \notin 0 .. io_worker_count - 1
    BY <2>1, <2>2 DEF AllReady
  <2> QED BY <2>1, <2>3 DEF AllReady
<1>3. CASE InitQueue
  <2>1. /\ input_queue' = [input_queue EXCEPT ![main.i][main.q] = "ready"]
        /\ io_worker_count' = io_worker_count /\ main.i \in Actors
    BY <1>0, <1>3 DEF InitQueue, MainInv
  <2>2. \A a \in Actors, q \in Queues :
          input_queue[a][q] = "ready" => input_queue'[a][q] = "ready"
    BY <1>1, <2>1
  <2> QED BY <1>1, <2>1, <2>2 DEF AllReady
<1>4. CASE create_stats \/ SpawnActor \/ create_io_worker \/ Join
  BY <1>4 DEF create_stats, SpawnActor, create_io_worker, Join, AllReady
<1> QED BY <1>2, <1>3, <1>4 DEF MainStep

------------------------------------------------------------------------------
(* The clock *)

\* Division with remainder.
LEMMA Division ==
  ASSUME NEW n \in Nat, NEW d \in Nat \ {0}
  PROVE  /\ n \div d \in Nat /\ n % d \in 0 .. d - 1
         /\ n = d * (n \div d) + (n % d)
OBVIOUS

\* Products of numbers are numbers.
LEMMA Products ==
  ASSUME NEW a \in Int, NEW b \in Int
  PROVE  a * b \in Int /\ a * (-b) = -(a * b) /\ (a \in Nat /\ b \in Nat => a * b \in Nat)
OBVIOUS

\* A division in C is off by less than the divisor.
LEMMA QuotientClose ==
  ASSUME NEW x \in Int, NEW d \in Nat \ {0}
  PROVE  /\ Quotient(x, d) \in Int
         /\ -(d - 1) <= d * Quotient(x, d) - x
         /\ d * Quotient(x, d) - x <= d - 1
<1>1. CASE x >= 0
  <2>1. x \in Nat
    BY <1>1
  <2>2. PICK k \in Nat, r \in 0 .. d - 1 : k = x \div d /\ x = d * k + r
    BY <2>1, Division
  <2>3. Quotient(x, d) = k
    BY <1>1, <2>2 DEF Quotient
  <2> DEFINE y == d * k
  <2>4. y \in Int /\ x = y + r
    BY <2>2, Products
  <2> HIDE DEF y
  <2>5. -(d - 1) <= y - x /\ y - x <= d - 1
    BY <2>4
  <2> QED BY <2>3, <2>5 DEF y
<1>2. CASE ~(x >= 0)
  <2>1. -x \in Nat
    BY <1>2
  <2>2. PICK k \in Nat, r \in 0 .. d - 1 : k = (-x) \div d /\ -x = d * k + r
    BY <2>1, Division
  <2>3. Quotient(x, d) = -k
    BY <1>2, <2>2 DEF Quotient
  <2> DEFINE y == d * k
  <2>4. y \in Int /\ -x = y + r /\ d * (-k) = -y
    BY <2>2, Products
  <2> HIDE DEF y
  <2>5. -(d - 1) <= (-y) - x /\ (-y) - x <= d - 1
    BY <2>4
  <2>6. d * Quotient(x, d) = -y
    BY <2>3, <2>4
  <2> QED BY <2>3, <2>5, <2>6
<1> QED BY <1>1, <1>2

\* A number less than the next multiple is no greater multiple.
LEMMA MultipleOrder ==
  ASSUME NEW d \in Nat \ {0}, NEW a \in Int, NEW b \in Int, d * a < d * (b + 1)
  PROVE  a <= b
<1> SUFFICES ASSUME a > b PROVE FALSE
  OBVIOUS
<1>1. PICK c \in Nat : a = (b + 1) + c
  <2>1. a - (b + 1) \in Nat /\ a = (b + 1) + (a - (b + 1))
    OBVIOUS
  <2> QED BY <2>1
<1>2. d * a = d * (b + 1) + d * c
  BY <1>1
<1>3. d * c \in Nat /\ d * (b + 1) \in Int
  BY Products
<1> QED BY <1>2, <1>3

\* get_time_delta cancels the seconds exactly and truncates once.
LEMMA DeltaClose ==
  ASSUME NEW c \in Nat, NEW d \in Nat
  PROVE  LET delta == get_time_delta(timespec(c), timespec(d))
         IN /\ delta \in Int
            /\ -(NsPerMicro - 1) <= NsPerMicro * delta - (d - c)
            /\ NsPerMicro * delta - (d - c) <= NsPerMicro - 1
<1> DEFINE N == NsPerMicro
           P == MicrosPerSec
           M == N * P
<1>1. N \in Nat \ {0} /\ P \in Nat \ {0}
  BY StatisticsAssumption
<1>2. M \in Nat \ {0}
  <2> HIDE DEF N, P
  <2> QED BY <1>1
<1>3. PICK sc \in Nat, nc \in Nat : sc = c \div M /\ nc = c % M /\ c = M * sc + nc
  <2> HIDE DEF M
  <2> QED BY <1>2, Division
<1>4. PICK sd \in Nat, nd \in Nat : sd = d \div M /\ nd = d % M /\ d = M * sd + nd
  <2> HIDE DEF M
  <2> QED BY <1>2, Division
<1> DEFINE x == nd - nc
           k == sd - sc
           z == Quotient(x, N)
<1>5. x \in Int /\ k \in Int
  BY <1>3, <1>4
<1>6. z \in Int /\ -(N - 1) <= N * z - x /\ N * z - x <= N - 1
  <2> HIDE DEF x, N
  <2> QED BY <1>1, <1>5, QuotientClose
<1>7. get_time_delta(timespec(c), timespec(d)) = P * k + z
  BY <1>3, <1>4 DEF get_time_delta, timespec
<1>8. d - c = M * k + x
  <2> HIDE DEF M
  <2>1. M * k = M * sd - M * sc
    BY <1>2, <1>3, <1>4
  <2>2. M * sd \in Int /\ M * sc \in Int
    BY <1>2, Products
  <2> QED BY <1>3, <1>4, <2>1, <2>2
<1> HIDE DEF N, P, x, k, z
<1>9. N * (P * k + z) = M * k + N * z
  <2>1. N * (P * k) = (N * P) * k
    BY <1>1, <1>5
  <2>2. P * k \in Int
    BY <1>1, <1>5
  <2>3. N * (P * k + z) = N * (P * k) + N * z
    BY <1>1, <1>6, <2>2
  <2> QED BY <2>1, <2>3
<1>10. M * k \in Int /\ N * z \in Int /\ P * k \in Int /\ N \in Int
  BY <1>1, <1>2, <1>5, <1>6, Products
<1> HIDE DEF M
<1> DEFINE u == M * k
           v == N * z
           delta == P * k + z
<1>11. delta \in Int
  BY <1>6, <1>10
<1>12. N * delta = u + v /\ d - c = u + x
  BY <1>8, <1>9
<1>13. u \in Int /\ v \in Int /\ -(N - 1) <= v - x /\ v - x <= N - 1
  BY <1>6, <1>10
<1> HIDE DEF u, v, delta
<1>14. -(N - 1) <= N * delta - (d - c) /\ N * delta - (d - c) <= N - 1
  BY <1>5, <1>10, <1>12, <1>13
<1> QED BY <1>7, <1>11, <1>14 DEF delta, N

\* The time of an interval is not negative, and no longer than Longest.
LEMMA DeltaRange ==
  ASSUME NEW c \in 0 .. MaxClock, NEW d \in 0 .. MaxClock, c < d
  PROVE  LET delta == get_time_delta(timespec(c), timespec(d))
         IN /\ delta \in Nat /\ delta <= Longest
            /\ Close(delta, d - c, 1)
<1> DEFINE N == NsPerMicro
           delta == get_time_delta(timespec(c), timespec(d))
<1>1. N \in Nat \ {0} /\ MaxClock \in Nat \ {0}
  BY StatisticsAssumption
<1>2. c \in Nat /\ d \in Nat /\ d <= MaxClock
  BY <1>1
<1>3. delta \in Int /\ -(N - 1) <= N * delta - (d - c) /\ N * delta - (d - c) <= N - 1
  BY <1>2, DeltaClose
<1> HIDE DEF delta, N
<1>4. N * delta \in Int
  BY <1>1, <1>3, Products
<1>5. delta \in Nat
  <2>1. N * delta > -N
    BY <1>1, <1>2, <1>3, <1>4
  <2>2. CASE delta <= -1
    <3>1. PICK e \in Nat : delta = (-1) - e
      <4>1. (-1) - delta \in Nat /\ delta = (-1) - ((-1) - delta)
        BY <1>3, <2>2
      <4> QED BY <4>1
    <3>2. N * delta = -N - N * e
      BY <1>1, <3>1
    <3>3. N * e \in Nat
      BY <1>1, Products
    <3> QED BY <1>1, <2>1, <3>2, <3>3
  <2> QED BY <1>3, <2>2
<1>6. PICK q \in Nat, r \in 0 .. N - 1 : q = MaxClock \div N /\ MaxClock = N * q + r
  <2>1. MaxClock \in Nat
    BY <1>1
  <2> QED BY <1>1, <2>1, Division
<1>7. Longest = q + 1
  BY <1>6 DEF Longest, N
<1>8. delta <= q + 1
  <2>1. N * ((q + 1) + 1) = N * q + N + N
    BY <1>1, <1>6
  <2>2. N * q \in Nat
    BY <1>1, <1>6, Products
  <2>3. N * delta < N * ((q + 1) + 1)
    BY <1>1, <1>2, <1>3, <1>4, <1>6, <2>1, <2>2
  <2> QED BY <1>1, <1>3, <1>6, <2>3, MultipleOrder
<1>9. Close(delta, d - c, 1)
  <2>1. (N - 1) * 1 = N - 1
    BY <1>1
  <2> QED BY <1>3, <2>1 DEF Close, N
<1> QED BY <1>5, <1>7, <1>8, <1>9 DEF delta

------------------------------------------------------------------------------
(* The statistics *)

\* The workers that have counted a request and not yet added its type t, and
\* the ones with a connection.
Adding(t) == {w \in Workers : request[w].stage = "add" /\ request[w].next <= t}
Busy == {w \in Workers : request[w].stage = "open" \/ request[w].keep}

\* The constants, as the steps use them.
LEMMA StatConstants ==
  /\ IsFiniteSet(Workers) /\ NumTypes \in Nat \ {0} /\ NsPerMicro \in Nat \ {0}
  /\ MaxIntervals \in Nat \ {0} /\ Longest \in Nat \ {0}
  /\ MaxMicros \in Nat /\ MaxMicros = MaxIntervals * Longest
  /\ Types \subseteq Nat /\ TOTAL_TIME \in Types /\ TOTAL_TIME = 0
<1>1. /\ IsFiniteSet(Workers) /\ NumTypes \in Nat \ {0} /\ NsPerMicro \in Nat \ {0}
      /\ MaxIntervals \in Nat \ {0} /\ MaxClock \in Nat
  BY StatisticsAssumption
<1>2. MaxClock \div NsPerMicro \in Nat
  BY <1>1, Division
<1>3. Longest \in Nat \ {0}
  BY <1>2 DEF Longest
<1>4. MaxMicros \in Nat /\ MaxMicros = MaxIntervals * Longest
  BY <1>1, <1>3, Products DEF MaxMicros, Longest
<1>5. Types \subseteq Nat /\ TOTAL_TIME \in Types /\ TOTAL_TIME = 0
  BY <1>1 DEF Types, TOTAL_TIME
<1> QED BY <1>1, <1>3, <1>4, <1>5

\* Counting the workers of a set.
LEMMA Counted ==
  ASSUME NEW S \in SUBSET Workers
  PROVE  /\ Cardinality(S) \in Nat
         /\ \A w : w \notin S => Cardinality(S \cup {w}) = Cardinality(S) + 1
<1>1. IsFiniteSet(S)
  BY StatConstants, FS_Subset
<1> QED BY <1>1, FS_CardinalityType, FS_AddElement

\* The error of a sum is within the slack of all its intervals.
LEMMA CloseSum ==
  ASSUME NEW a \in Nat, NEW k \in Nat, NEW n \in Nat, Close(a, k, n),
         NEW b \in Nat, NEW l \in Nat, NEW m \in Nat, Close(b, l, m)
  PROVE  Close(a + b, k + l, n + m)
<1> DEFINE N == NsPerMicro
           x == N * a
           y == N * b
           u == (N - 1) * n
           v == (N - 1) * m
<1>1. N \in Nat \ {0} /\ N - 1 \in Nat
  BY StatConstants
<1> HIDE DEF N
<1>2. N * (a + b) = x + y /\ (N - 1) * (n + m) = u + v
  BY <1>1
<1>3. x \in Nat /\ y \in Nat /\ u \in Nat /\ v \in Nat
  BY <1>1, Products
<1>4. -u <= x - k /\ x - k <= u /\ -v <= y - l /\ y - l <= v
  BY DEF Close, N
<1> HIDE DEF x, y, u, v
<1>5. -(u + v) <= (x + y) - (k + l) /\ (x + y) - (k + l) <= u + v
  BY <1>3, <1>4
<1>6. /\ -((N - 1) * (n + m)) <= N * (a + b) - (k + l)
      /\ N * (a + b) - (k + l) <= (N - 1) * (n + m)
  BY <1>2, <1>5
<1> QED BY <1>6 DEF Close, N

\* The same for a bound on each summand.
LEMMA BoundedSum ==
  ASSUME NEW a \in Nat, NEW n \in Nat, NEW b \in Nat, NEW m \in Nat, NEW bound \in Nat,
         a <= n * bound, b <= m * bound
  PROVE  a + b <= (n + m) * bound
<1> DEFINE x == n * bound
           y == m * bound
<1>1. (n + m) * bound = x + y
  OBVIOUS
<1>2. x \in Nat /\ y \in Nat /\ a <= x /\ b <= y
  BY Products
<1> HIDE DEF x, y
<1> QED BY <1>1, <1>2

\* Fewer summands give no greater bound.
LEMMA FewerBound ==
  ASSUME NEW n \in Nat, NEW m \in Nat, n <= m, NEW bound \in Nat
  PROVE  n * bound <= m * bound
<1>1. PICK c \in Nat : m = n + c
  <2>1. m - n \in Nat /\ m = n + (m - n)
    OBVIOUS
  <2> QED BY <2>1
<1>2. m * bound = n * bound + c * bound
  BY <1>1
<1>3. n * bound \in Nat /\ c * bound \in Nat
  BY Products
<1> QED BY <1>2, <1>3

\* Nothing has been measured.
LEMMA ZeroClose == Close(0, 0, 0) /\ \A b \in Nat : 0 <= 0 * b
BY StatConstants DEF Close

\* A request that starts.
LEMMA FreshRequest ==
  /\ NoRequest \in PerRequestStats /\ RequestInv(NoRequest)
  /\ NoRequest.stage = "none" /\ NoRequest.next = 0 /\ NoRequest.keep = FALSE
  /\ per_request_clear_time \in PerRequestStats /\ RequestInv(per_request_clear_time)
  /\ per_request_clear_time.stage = "open" /\ per_request_clear_time.next = 0
  /\ per_request_clear_time.keep = FALSE
<1>1. 0 \in Types /\ Zero \in [Types -> Nat] /\ \A t \in Types : Zero[t] = 0
  BY StatConstants DEF Zero
<1>2. NoRequest \in PerRequestStats
  BY <1>1 DEF NoRequest, PerRequestStats
<1>3. per_request_clear_time \in PerRequestStats
  BY <1>2 DEF per_request_clear_time, PerRequestStats
<1>4. /\ NoRequest.stage = "none" /\ NoRequest.next = 0 /\ NoRequest.keep = FALSE
      /\ NoRequest.total_micros = Zero /\ NoRequest.ticks = Zero /\ NoRequest.intervals = Zero
  BY DEF NoRequest
<1>5. /\ per_request_clear_time.stage = "open" /\ per_request_clear_time.next = 0
      /\ per_request_clear_time.keep = FALSE
      /\ per_request_clear_time.total_micros = Zero /\ per_request_clear_time.ticks = Zero
      /\ per_request_clear_time.intervals = Zero
  BY DEF NoRequest, per_request_clear_time
<1>6. \A t \in Types : /\ Close(Zero[t], Zero[t], Zero[t])
                       /\ Zero[t] <= MaxIntervals
                       /\ Zero[t] <= Zero[t] * Longest
  BY <1>1, ZeroClose, StatConstants
<1>7. RequestInv(NoRequest)
  BY <1>4, <1>6 DEF RequestInv
<1>8. RequestInv(per_request_clear_time)
  BY <1>1, <1>5, <1>6, StatConstants DEF RequestInv
<1> QED BY <1>2, <1>3, <1>4, <1>5, <1>7, <1>8

\* x is the request r after one more interval of type t.
IsRecorded(x, r, t) ==
  /\ x \in PerRequestStats
  /\ x.stage = r.stage /\ x.next = 0 /\ x.keep = r.keep
  /\ \A s \in Types : s # t => x.intervals[s] = r.intervals[s]
  /\ \A s \in Types : /\ Close(x.total_micros[s], x.ticks[s], x.intervals[s])
                      /\ x.intervals[s] <= MaxIntervals
                      /\ x.total_micros[s] <= x.intervals[s] * Longest

\* One interval of type t: what per_request_record_end changes.
LEMMA RecordedFacts ==
  ASSUME NEW r \in PerRequestStats, RequestInv(r), r.next = 0, NEW t \in Types,
         r.intervals[t] < MaxIntervals,
         NEW c \in 0 .. MaxClock, NEW d \in 0 .. MaxClock, c < d
  PROVE  IsRecorded(Recorded(r, t, c, d), r, t)
<1> DEFINE delta == get_time_delta(timespec(c), timespec(d))
           x == Recorded(r, t, c, d)
           micros == [r.total_micros EXCEPT ![t] = @ + delta]
           ticks == [r.ticks EXCEPT ![t] = @ + (d - c)]
           intervals == [r.intervals EXCEPT ![t] = @ + 1]
<1>1. delta \in Nat /\ delta <= Longest /\ Close(delta, d - c, 1) /\ d - c \in Nat
  <2>1. d - c \in Nat
    BY StatisticsAssumption
  <2> QED BY <2>1, DeltaRange
<1>2. /\ r.total_micros \in [Types -> Nat] /\ r.ticks \in [Types -> Nat]
      /\ r.intervals \in [Types -> Nat] /\ r.stage \in {"none", "open", "count", "add"}
      /\ r.next \in Types /\ r.keep \in BOOLEAN
  BY DEF PerRequestStats
<1>3. x = [stage |-> r.stage, next |-> r.next, keep |-> r.keep,
           total_micros |-> micros, ticks |-> ticks, intervals |-> intervals]
  <2>1. r = [stage |-> r.stage, next |-> r.next, keep |-> r.keep,
             total_micros |-> r.total_micros, ticks |-> r.ticks, intervals |-> r.intervals]
    BY DEF PerRequestStats
  <2>2. x = [r EXCEPT !.total_micros = micros, !.ticks = ticks, !.intervals = intervals]
    <3> HIDE DEF delta
    <3> QED BY DEF Recorded, delta
  <2> HIDE DEF micros, ticks, intervals, x
  <2> QED BY <2>1, <2>2
<1> HIDE DEF delta, x
<1>4. micros \in [Types -> Nat] /\ ticks \in [Types -> Nat] /\ intervals \in [Types -> Nat]
  BY <1>1, <1>2
<1>5. /\ micros[t] = r.total_micros[t] + delta /\ ticks[t] = r.ticks[t] + (d - c)
      /\ intervals[t] = r.intervals[t] + 1
      /\ \A s \in Types : s # t => /\ micros[s] = r.total_micros[s] /\ ticks[s] = r.ticks[s]
                                   /\ intervals[s] = r.intervals[s]
  BY <1>2
<1> HIDE DEF micros, ticks, intervals
<1>6. x \in PerRequestStats
  BY <1>2, <1>3, <1>4 DEF PerRequestStats
<1>7. \A s \in Types : /\ Close(r.total_micros[s], r.ticks[s], r.intervals[s])
                       /\ r.intervals[s] <= MaxIntervals
                       /\ r.total_micros[s] <= r.intervals[s] * Longest
  BY StatConstants DEF RequestInv
<1>8. /\ Close(micros[t], ticks[t], intervals[t])
      /\ intervals[t] <= MaxIntervals
      /\ micros[t] <= intervals[t] * Longest
  <2>0. PICK a \in Nat, k \in Nat, n \in Nat, e \in Nat :
          a = r.total_micros[t] /\ k = r.ticks[t] /\ n = r.intervals[t] /\ e = d - c
    BY <1>1, <1>2
  <2>1. Close(a, k, n) /\ a <= n * Longest /\ n < MaxIntervals
    BY <1>7, <2>0
  <2>2. Close(delta, e, 1)
    BY <1>1, <2>0
  <2>3. Close(a + delta, k + e, n + 1)
    BY <1>1, <2>1, <2>2, CloseSum
  <2>4. Longest \in Nat /\ delta <= 1 * Longest
    BY <1>1, StatConstants
  <2>5. a + delta <= (n + 1) * Longest
    BY <1>1, <2>1, <2>4, BoundedSum
  <2>6. n + 1 <= MaxIntervals
    BY <2>1, StatConstants
  <2> QED BY <1>5, <2>0, <2>3, <2>5, <2>6
<1>9. \A s \in Types : /\ Close(micros[s], ticks[s], intervals[s])
                       /\ intervals[s] <= MaxIntervals
                       /\ micros[s] <= intervals[s] * Longest
  BY <1>5, <1>7, <1>8
<1>10. /\ x.stage = r.stage /\ x.next = 0 /\ x.keep = r.keep
       /\ x.total_micros = micros /\ x.ticks = ticks /\ x.intervals = intervals
  BY <1>3
<1>11. IsRecorded(x, r, t)
  BY <1>5, <1>6, <1>9, <1>10 DEF IsRecorded
<1> QED BY <1>11 DEF x

\* One worker's request changes.
LEMMA OneChanges ==
  ASSUME StatTypeOK, NEW w \in Workers, NEW x \in PerRequestStats,
         request' = [request EXCEPT ![w] = x]
  PROVE  /\ request' \in [Workers -> PerRequestStats] /\ request'[w] = x
         /\ \A v \in Workers : v # w => request'[v] = request[v]
BY DEF StatTypeOK

\* The set of the workers that satisfy something when one of them changes.
LEMMA OneMoved ==
  ASSUME NEW S \in SUBSET Workers, NEW T \in SUBSET Workers, NEW w \in Workers,
         \A v \in Workers : v # w => (v \in T <=> v \in S)
  PROVE  /\ (w \in T <=> w \in S) => Cardinality(T) = Cardinality(S)
         /\ w \in T /\ w \notin S => Cardinality(T) = Cardinality(S) + 1
         /\ w \notin T /\ w \in S => Cardinality(S) = Cardinality(T) + 1
<1>1. (w \in T <=> w \in S) => T = S
  OBVIOUS
<1>2. w \in T /\ w \notin S => T = S \cup {w}
  OBVIOUS
<1>3. w \notin T /\ w \in S => S = T \cup {w}
  OBVIOUS
<1> QED BY <1>1, <1>2, <1>3, Counted

\* What the invariant says, in the terms of the steps.
LEMMA StatFacts ==
  ASSUME StatInv
  PROVE  /\ StatTypeOK /\ SumInv
         /\ \A w \in Workers : request[w] \in PerRequestStats /\ RequestInv(request[w])
         /\ \A t \in Types : /\ Adding(t) \in SUBSET Workers /\ recorded.requests[t] \in Nat
                             /\ Cardinality(Adding(t)) \in Nat
                             /\ total_requests_processed
                                  = recorded.requests[t] + Cardinality(Adding(t))
         /\ Busy \in SUBSET Workers /\ active_connections = Cardinality(Busy)
<1>1. StatTypeOK /\ SumInv /\ active_connections = Cardinality(Busy)
  BY DEF StatInv, CountsExact, Busy
<1>2. \A w \in Workers : request[w] \in PerRequestStats /\ RequestInv(request[w])
  BY <1>1 DEF StatInv, StatTypeOK
<1>3. \A t \in Types : Adding(t) \in SUBSET Workers
  BY DEF Adding
<1>4. \A t \in Types : total_requests_processed = recorded.requests[t] + Cardinality(Adding(t))
  BY DEF StatInv, CountsExact, Adding
<1>5. \A t \in Types : recorded.requests[t] \in Nat
  BY <1>1 DEF StatTypeOK
<1>6. Busy \in SUBSET Workers
  BY DEF Busy
<1> QED BY <1>1, <1>2, <1>3, <1>4, <1>5, <1>6, Counted

\* A step on the request of w that leaves the sums and the total alone.
LEMMA RequestStep ==
  ASSUME StatInv, NEW w \in Workers, NEW x \in PerRequestStats, RequestInv(x),
         request' = [request EXCEPT ![w] = x], request[w].stage # "add", x.stage # "add",
         UNCHANGED <<avg_micros, total_requests_processed, recorded>>,
         active_connections' \in Nat, active_connections' = Cardinality(Busy')
  PROVE  StatInv'
<1>0. StatTypeOK
  BY StatFacts
<1>1. /\ request' \in [Workers -> PerRequestStats] /\ request'[w] = x
      /\ \A v \in Workers : v # w => request'[v] = request[v]
  BY <1>0, OneChanges
<1>2. StatTypeOK'
  BY <1>0, <1>1 DEF StatTypeOK
<1>3. \A t \in Types : Adding(t)' = Adding(t)
  BY <1>1 DEF Adding
<1>4. CountsExact'
  <2>1. \A t \in Types : total_requests_processed' = recorded'.requests[t] + Cardinality(Adding(t)')
    BY <1>3, StatFacts
  <2> QED BY <1>2, <2>1 DEF CountsExact, Adding, Busy
<1>5. SumInv'
  BY StatFacts DEF SumInv
<1>6. \A v \in Workers : RequestInv(request'[v])
  BY <1>1, StatFacts
<1> QED BY <1>4, <1>5, <1>6 DEF StatInv, RequestInv, Close

\* server_stats_incr_active_connections for a new connection.
LEMMA AcceptInv ==
  ASSUME StatInv, NEW w \in Workers, Accept(w)
  PROVE  StatInv' /\ total_requests_processed' = total_requests_processed
<1> DEFINE x == per_request_clear_time
<1>1. /\ request[w].stage = "none" /\ request' = [request EXCEPT ![w] = x]
      /\ active_connections' = active_connections + 1
      /\ UNCHANGED <<avg_micros, total_requests_processed, recorded>>
  BY DEF Accept
<1>2. x \in PerRequestStats /\ RequestInv(x) /\ x.stage = "open"
  BY FreshRequest
<1> HIDE DEF x
<1>3. /\ request'[w] = x
      /\ \A v \in Workers : v # w => request'[v] = request[v]
  BY <1>1, <1>2, StatFacts, OneChanges
<1>4. w \in Busy' /\ w \notin Busy
  <2>1. ~request[w].keep
    BY <1>1, StatFacts DEF RequestInv
  <2> QED BY <1>1, <1>2, <1>3, <2>1 DEF Busy
<1>5. Cardinality(Busy') = Cardinality(Busy) + 1
  <2>1. \A v \in Workers : v # w => (v \in Busy' <=> v \in Busy)
    BY <1>3 DEF Busy
  <2>2. Busy' \in SUBSET Workers
    BY DEF Busy
  <2> QED BY <1>4, <2>1, <2>2, StatFacts, OneMoved
<1>6. active_connections' = Cardinality(Busy') /\ active_connections' \in Nat
  BY <1>1, <1>5, StatFacts, Counted
<1> QED BY <1>1, <1>2, <1>6, RequestStep

\* per_request_record_end for an interval that is not the total.
LEMMA MeasureInv ==
  ASSUME StatInv, NEW w \in Workers, NEW t \in Types,
         NEW c \in 0 .. MaxClock, NEW d \in 0 .. MaxClock, MeasureInterval(w, t, c, d)
  PROVE  StatInv' /\ total_requests_processed' = total_requests_processed
<1> DEFINE x == Recorded(request[w], t, c, d)
<1>1. /\ request[w].stage = "open" /\ t # TOTAL_TIME /\ c < d
      /\ request[w].intervals[t] < MaxIntervals
      /\ request' = [request EXCEPT ![w] = x]
      /\ UNCHANGED <<avg_micros, active_connections, total_requests_processed, recorded>>
  BY DEF MeasureInterval
<1>2. PICK r \in PerRequestStats : r = request[w] /\ RequestInv(r) /\ r.next = 0 /\ ~r.keep
  <2>1. PICK r \in PerRequestStats : r = request[w] /\ RequestInv(r)
    BY StatFacts, Zenon
  <2>2. r.next = 0 /\ ~r.keep
    BY <1>1, <2>1 DEF RequestInv
  <2> QED BY <2>1, <2>2
<1>3. /\ x \in PerRequestStats /\ x.stage = "open" /\ x.next = 0 /\ x.keep = r.keep
      /\ \A s \in Types : s # t => x.intervals[s] = r.intervals[s]
      /\ \A s \in Types : /\ Close(x.total_micros[s], x.ticks[s], x.intervals[s])
                          /\ x.intervals[s] <= MaxIntervals
                          /\ x.total_micros[s] <= x.intervals[s] * Longest
  <2>1. IsRecorded(Recorded(r, t, c, d), r, t)
    BY <1>1, <1>2, RecordedFacts, Zenon
  <2>2. x = Recorded(r, t, c, d)
    BY <1>2, Zenon
  <2>3. IsRecorded(x, r, t) /\ r.stage = "open"
    BY <1>1, <1>2, <2>1, <2>2, Zenon
  <2> HIDE DEF x
  <2> QED BY <2>3 DEF IsRecorded
<1> HIDE DEF x
<1>4. PICK y \in PerRequestStats : y = x
  BY <1>3
<1>5. RequestInv(y)
  <2>1. r.intervals[TOTAL_TIME] = 0
    BY <1>1, <1>2 DEF RequestInv
  <2>2. y.intervals[TOTAL_TIME] = 0
    BY <1>1, <1>3, <1>4, <2>1, StatConstants
  <2>3. \A s \in Types : /\ Close(y.total_micros[s], y.ticks[s], y.intervals[s])
                         /\ y.intervals[s] <= MaxIntervals
                         /\ y.total_micros[s] <= y.intervals[s] * Longest
    BY <1>3, <1>4, Zenon
  <2>4. y.stage = "open" /\ y.next = 0 /\ ~y.keep
    BY <1>2, <1>3, <1>4, Zenon
  <2> QED BY <2>2, <2>3, <2>4 DEF RequestInv
<1>6. /\ request'[w] = y
      /\ \A v \in Workers : v # w => request'[v] = request[v]
  BY <1>1, <1>4, StatFacts, OneChanges
<1>7. Busy' = Busy
  BY <1>1, <1>2, <1>3, <1>4, <1>6 DEF Busy
<1>8. active_connections' = Cardinality(Busy') /\ active_connections' \in Nat
  BY <1>1, <1>7, StatFacts, Counted
<1> QED BY <1>1, <1>3, <1>4, <1>5, <1>8, RequestStep

\* client_reset_connection and client_close_connection.
LEMMA EndInv ==
  ASSUME StatInv, NEW w \in Workers, NEW keep \in BOOLEAN,
         NEW c \in 0 .. MaxClock, NEW d \in 0 .. MaxClock, EndRequest(w, keep, c, d)
  PROVE  StatInv' /\ total_requests_processed' = total_requests_processed
<1> DEFINE z == Recorded(request[w], TOTAL_TIME, c, d)
           x == [z EXCEPT !.stage = "count", !.keep = keep]
<1>1. /\ request[w].stage = "open" /\ c < d
      /\ request' = [request EXCEPT ![w] = x]
      /\ active_connections' = IF keep THEN active_connections ELSE active_connections - 1
      /\ UNCHANGED <<avg_micros, total_requests_processed, recorded>>
  BY DEF EndRequest
<1>2. PICK r \in PerRequestStats :
        r = request[w] /\ RequestInv(r) /\ r.next = 0 /\ ~r.keep /\ r.intervals[TOTAL_TIME] = 0
  BY <1>1, StatFacts DEF RequestInv
<1>3. /\ z \in PerRequestStats /\ z.next = 0
      /\ \A s \in Types : /\ Close(z.total_micros[s], z.ticks[s], z.intervals[s])
                          /\ z.intervals[s] <= MaxIntervals
                          /\ z.total_micros[s] <= z.intervals[s] * Longest
  <2>1. r.intervals[TOTAL_TIME] < MaxIntervals
    BY <1>2, StatConstants
  <2>2. TOTAL_TIME \in Types
    BY StatConstants
  <2>3. IsRecorded(Recorded(r, TOTAL_TIME, c, d), r, TOTAL_TIME)
    BY <1>1, <1>2, <2>1, <2>2, RecordedFacts, Zenon
  <2>4. IsRecorded(z, r, TOTAL_TIME)
    BY <1>2, <2>3, Zenon
  <2> HIDE DEF z
  <2> QED BY <2>4 DEF IsRecorded
<1> HIDE DEF z
<1>4. /\ x \in PerRequestStats /\ x.stage = "count" /\ x.keep = keep /\ x.next = 0
      /\ x.total_micros = z.total_micros /\ x.ticks = z.ticks /\ x.intervals = z.intervals
  BY <1>3 DEF PerRequestStats
<1>5. PICK y \in PerRequestStats : y = x
  BY <1>4
<1> HIDE DEF x
<1>6. RequestInv(y)
  BY <1>3, <1>4, <1>5 DEF RequestInv
<1>7. /\ request'[w] = y
      /\ \A v \in Workers : v # w => request'[v] = request[v]
  BY <1>1, <1>5, StatFacts, OneChanges
<1>8. w \in Busy /\ (w \in Busy' <=> keep)
  BY <1>1, <1>4, <1>5, <1>7 DEF Busy
<1>9. /\ keep => Cardinality(Busy') = Cardinality(Busy)
      /\ ~keep => Cardinality(Busy) = Cardinality(Busy') + 1
  <2>1. \A v \in Workers : v # w => (v \in Busy' <=> v \in Busy)
    BY <1>7 DEF Busy
  <2>2. Busy' \in SUBSET Workers
    BY DEF Busy
  <2> QED BY <1>8, <2>1, <2>2, StatFacts, OneMoved
<1>10. active_connections' = Cardinality(Busy') /\ active_connections' \in Nat
  <2>1. Busy' \in SUBSET Workers
    BY DEF Busy
  <2>2. Cardinality(Busy') \in Nat
    BY <2>1, Counted
  <2> QED BY <1>1, <1>9, <2>2, StatFacts
<1> QED BY <1>1, <1>4, <1>5, <1>6, <1>10, RequestStep

\* server_stats_incr_total_requests: the request is owed to the sum of every type.
LEMMA CountInv ==
  ASSUME StatInv, NEW w \in Workers, server_stats_incr_total_requests(w)
  PROVE  StatInv' /\ total_requests_processed' = total_requests_processed + 1
<1> DEFINE x == [request[w] EXCEPT !.stage = "add"]
<1>0. StatTypeOK /\ SumInv /\ total_requests_processed \in Nat
  BY StatFacts DEF StatTypeOK
<1>1. /\ request[w].stage = "count" /\ total_requests_processed' = total_requests_processed + 1
      /\ request' = [request EXCEPT ![w] = x]
      /\ UNCHANGED <<avg_micros, active_connections, recorded>>
  BY DEF server_stats_incr_total_requests
<1>2. PICK r \in PerRequestStats : r = request[w] /\ RequestInv(r) /\ r.next = 0
  BY <1>1, StatFacts DEF RequestInv
<1>3. /\ x \in PerRequestStats /\ x.stage = "add" /\ x.next = 0 /\ x.keep = r.keep
      /\ x.total_micros = r.total_micros /\ x.ticks = r.ticks /\ x.intervals = r.intervals
  BY <1>2 DEF PerRequestStats
<1>4. PICK y \in PerRequestStats : y = x
  BY <1>3
<1> HIDE DEF x
<1>5. RequestInv(y)
  BY <1>2, <1>3, <1>4 DEF RequestInv
<1>6. /\ request' \in [Workers -> PerRequestStats] /\ request'[w] = y
      /\ \A v \in Workers : v # w => request'[v] = request[v]
  BY <1>0, <1>1, <1>4, OneChanges
<1>7. StatTypeOK'
  BY <1>0, <1>1, <1>6 DEF StatTypeOK
<1>8. Busy' = Busy
  BY <1>1, <1>2, <1>3, <1>4, <1>6 DEF Busy
<1>9. ASSUME NEW t \in Types
      PROVE  total_requests_processed' = recorded'.requests[t] + Cardinality(Adding(t)')
  <2>1. w \in Adding(t)' /\ w \notin Adding(t)
    BY <1>1, <1>3, <1>4, <1>6, StatConstants DEF Adding
  <2>2. \A v \in Workers : v # w => (v \in Adding(t)' <=> v \in Adding(t))
    BY <1>6 DEF Adding
  <2>3. Adding(t)' \in SUBSET Workers
    BY DEF Adding
  <2>4. Cardinality(Adding(t)') = Cardinality(Adding(t)) + 1
    BY <2>1, <2>2, <2>3, StatFacts, OneMoved
  <2> QED BY <1>1, <2>4, StatFacts
<1>10. active_connections' = Cardinality(Busy')
  BY <1>1, <1>8, StatFacts
<1>11. CountsExact'
  BY <1>7, <1>9, <1>10 DEF CountsExact, Adding, Busy
<1>12. SumInv'
  BY <1>0, <1>1 DEF SumInv, Close
<1>13. \A v \in Workers : RequestInv(request'[v])
  BY <1>5, <1>6, StatFacts
<1> QED BY <1>1, <1>11, <1>12, <1>13 DEF StatInv, RequestInv, Close

\* The request after one of its types was added.
LEMMA AfterAddFacts ==
  ASSUME NEW r \in PerRequestStats, RequestInv(r), r.stage = "add"
  PROVE  /\ AfterAdd(r) \in PerRequestStats /\ RequestInv(AfterAdd(r))
         /\ \A t \in Types : AfterAdd(r).stage = "add" /\ AfterAdd(r).next <= t
                               <=> r.next < t
         /\ AfterAdd(r).stage = "open" \/ AfterAdd(r).keep <=> r.keep
<1>0. /\ r.total_micros \in [Types -> Nat] /\ r.ticks \in [Types -> Nat]
      /\ r.intervals \in [Types -> Nat] /\ r.next \in Types /\ r.keep \in BOOLEAN
  BY DEF PerRequestStats
<1>1. \A t : t \in Types <=> t \in Nat /\ t < NumTypes
  BY StatConstants DEF Types
<1>2. PICK n \in Nat : n = r.next
  BY <1>0, <1>1
<1>3. CASE r.next + 1 < NumTypes
  <2> DEFINE ticks == [r.ticks EXCEPT ![r.next] = 0]
             intervals == [r.intervals EXCEPT ![r.next] = 0]
             x == [r EXCEPT !.next = r.next + 1, !.ticks = ticks, !.intervals = intervals]
  <2>1. AfterAdd(r) = x
    BY <1>3 DEF AfterAdd
  <2>2. r.next + 1 \in Types
    BY <1>3, <1>1, <1>2
  <2>3. /\ ticks \in [Types -> Nat] /\ intervals \in [Types -> Nat]
        /\ \A t \in Types : t # r.next => ticks[t] = r.ticks[t] /\ intervals[t] = r.intervals[t]
    BY <1>0
  <2> HIDE DEF ticks, intervals
  <2>4. /\ x \in PerRequestStats /\ x.stage = "add" /\ x.next = r.next + 1 /\ x.keep = r.keep
        /\ x.total_micros = r.total_micros /\ x.ticks = ticks /\ x.intervals = intervals
    BY <2>2, <2>3 DEF PerRequestStats
  <2>5. PICK y \in PerRequestStats : y = x
    BY <2>4
  <2> HIDE DEF x
  <2>6. \A t \in Types : r.next + 1 <= t <=> r.next < t
    BY <1>1, <1>2
  <2>7. RequestInv(y)
    <3>1. \A t \in Types : y.next <= t => r.next <= t /\ t # r.next
      BY <1>1, <1>2, <2>4, <2>5
    <3>2. y.keep => y.stage \in {"count", "add"}
      BY <2>4, <2>5
    <3>3. \A t \in Types : r.next <= t =>
            /\ Close(r.total_micros[t], r.ticks[t], r.intervals[t])
            /\ r.intervals[t] <= MaxIntervals
            /\ r.total_micros[t] <= r.intervals[t] * Longest
      BY DEF RequestInv
    <3> QED BY <2>3, <2>4, <2>5, <3>1, <3>2, <3>3 DEF RequestInv
  <2> QED BY <2>1, <2>4, <2>5, <2>6, <2>7
<1>4. CASE ~(r.next + 1 < NumTypes)
  <2>1. AfterAdd(r) = IF r.keep THEN per_request_clear_time ELSE NoRequest
    BY <1>4 DEF AfterAdd
  <2>2. \A t \in Types : ~(r.next < t)
    BY <1>4, <1>1, <1>2, StatConstants
  <2> QED BY <2>1, <2>2, FreshRequest
<1> QED BY <1>3, <1>4

\* server_stats_record_request: one atomic add pays the request to one sum.
LEMMA AddInv ==
  ASSUME StatInv, NEW w \in Workers, server_stats_record_request(w)
  PROVE  StatInv' /\ total_requests_processed' = total_requests_processed
<1>0. StatTypeOK /\ SumInv
  BY StatFacts
<1>1. PICK r \in PerRequestStats : r = request[w] /\ RequestInv(r)
  BY StatFacts
<1>2. PICK s \in Types : s = r.next
  BY DEF PerRequestStats
<1> DEFINE ticks == [recorded.ticks EXCEPT ![s] = @ + r.ticks[s]]
           intervals == [recorded.intervals EXCEPT ![s] = @ + r.intervals[s]]
           requests == [recorded.requests EXCEPT ![s] = @ + 1]
           x == AfterAdd(r)
<1>3. /\ r.stage = "add"
      /\ avg_micros' = [avg_micros EXCEPT ![s] = @ + r.total_micros[s]]
      /\ recorded' = [recorded EXCEPT !.ticks = ticks, !.intervals = intervals,
                                      !.requests = requests]
      /\ request' = [request EXCEPT ![w] = x]
      /\ UNCHANGED <<active_connections, total_requests_processed>>
  BY <1>1, <1>2 DEF server_stats_record_request
<1>4. /\ x \in PerRequestStats /\ RequestInv(x)
      /\ \A t \in Types : x.stage = "add" /\ x.next <= t <=> s < t
      /\ x.stage = "open" \/ x.keep <=> r.keep
  BY <1>1, <1>2, <1>3, AfterAddFacts
<1>5. PICK y \in PerRequestStats : y = x
  BY <1>4
<1> HIDE DEF x
<1>6. /\ request' \in [Workers -> PerRequestStats] /\ request'[w] = y
      /\ \A v \in Workers : v # w => request'[v] = request[v]
  BY <1>0, <1>3, <1>5, OneChanges
<1>7. /\ r.total_micros \in [Types -> Nat] /\ r.ticks \in [Types -> Nat]
      /\ r.intervals \in [Types -> Nat]
      /\ avg_micros \in [Types -> Nat] /\ recorded.ticks \in [Types -> Nat]
      /\ recorded.intervals \in [Types -> Nat] /\ recorded.requests \in [Types -> Nat]
  BY <1>0 DEF PerRequestStats, StatTypeOK
<1>8. /\ ticks \in [Types -> Nat] /\ intervals \in [Types -> Nat] /\ requests \in [Types -> Nat]
      /\ avg_micros' \in [Types -> Nat]
      /\ ticks[s] = recorded.ticks[s] + r.ticks[s]
      /\ intervals[s] = recorded.intervals[s] + r.intervals[s]
      /\ requests[s] = recorded.requests[s] + 1
      /\ avg_micros'[s] = avg_micros[s] + r.total_micros[s]
      /\ \A t \in Types : t # s =>
           /\ ticks[t] = recorded.ticks[t] /\ intervals[t] = recorded.intervals[t]
           /\ requests[t] = recorded.requests[t] /\ avg_micros'[t] = avg_micros[t]
  BY <1>3, <1>7
<1> HIDE DEF ticks, intervals, requests
<1>9. recorded' \in [ticks : [Types -> Nat], intervals : [Types -> Nat],
                     requests : [Types -> Nat]]
      /\ recorded'.ticks = ticks /\ recorded'.intervals = intervals
      /\ recorded'.requests = requests
  BY <1>0, <1>3, <1>8 DEF StatTypeOK
<1>10. StatTypeOK'
  BY <1>0, <1>3, <1>6, <1>8, <1>9 DEF StatTypeOK
<1>11. ASSUME NEW t \in Types
       PROVE  total_requests_processed' = recorded'.requests[t] + Cardinality(Adding(t)')
  <2>0. t \in Nat /\ s \in Nat
    BY StatConstants
  <2>1. (w \in Adding(t)' <=> s < t) /\ (w \in Adding(t) <=> s <= t)
    BY <1>1, <1>2, <1>3, <1>4, <1>5, <1>6 DEF Adding
  <2>2. \A v \in Workers : v # w => (v \in Adding(t)' <=> v \in Adding(t))
    BY <1>6 DEF Adding
  <2>3. Adding(t)' \in SUBSET Workers /\ Adding(t) \in SUBSET Workers
    BY DEF Adding
  <2>4. CASE t = s
    <3>1. Cardinality(Adding(t)) = Cardinality(Adding(t)') + 1
      BY <2>0, <2>1, <2>2, <2>3, <2>4, OneMoved
    <3>2. Cardinality(Adding(t)') \in Nat
      BY <2>3, Counted
    <3>3. requests[t] = recorded.requests[t] + 1
      BY <1>8, <2>4
    <3> QED BY <1>3, <1>9, <3>1, <3>2, <3>3, StatFacts
  <2>5. CASE t # s
    <3>1. Cardinality(Adding(t)') = Cardinality(Adding(t))
      BY <2>0, <2>1, <2>2, <2>3, <2>5, OneMoved
    <3> QED BY <1>3, <1>8, <1>9, <2>5, <3>1, StatFacts
  <2> QED BY <2>4, <2>5
<1>12. Busy' = Busy
  BY <1>1, <1>3, <1>4, <1>5, <1>6 DEF Busy
<1>13. CountsExact'
  <2>1. active_connections' = Cardinality(Busy')
    BY <1>3, <1>12, StatFacts
  <2> QED BY <1>10, <1>11, <2>1 DEF CountsExact, Adding, Busy
<1>14. /\ Close(avg_micros'[s], ticks[s], intervals[s])
       /\ avg_micros'[s] <= requests[s] * MaxMicros
  <2>1. PICK a \in Nat, k \in Nat, n \in Nat, m \in Nat :
          a = avg_micros[s] /\ k = recorded.ticks[s] /\ n = recorded.intervals[s]
            /\ m = recorded.requests[s]
    BY <1>7
  <2>2. PICK b \in Nat, l \in Nat, i \in Nat :
          b = r.total_micros[s] /\ l = r.ticks[s] /\ i = r.intervals[s]
    BY <1>7
  <2>3. Close(a, k, n) /\ a <= m * MaxMicros
    BY <1>0, <2>1 DEF SumInv
  <2>4. Close(b, l, i) /\ i <= MaxIntervals /\ b <= i * Longest
    <3>1. s <= s
      BY StatConstants
    <3> QED BY <1>1, <1>2, <2>2, <3>1 DEF RequestInv
  <2>5. Close(a + b, k + l, n + i)
    BY <2>3, <2>4, CloseSum
  <2>6. b <= 1 * MaxMicros
    <3>1. i * Longest <= MaxIntervals * Longest
      BY <2>4, StatConstants, FewerBound
    <3>2. i * Longest \in Nat
      BY StatConstants, Products
    <3> QED BY <2>4, <3>1, <3>2, StatConstants
  <2>7. a + b <= (m + 1) * MaxMicros
    BY <2>3, <2>6, StatConstants, BoundedSum
  <2> QED BY <1>8, <2>1, <2>2, <2>5, <2>7
<1>15. SumInv'
  <2>1. ASSUME NEW t \in Types
        PROVE  /\ Close(avg_micros'[t], ticks[t], intervals[t])
               /\ avg_micros'[t] <= requests[t] * MaxMicros
    <3>1. CASE t = s
      BY <1>14, <3>1
    <3>2. CASE t # s
      BY <1>0, <1>8, <3>2 DEF SumInv
    <3> QED BY <3>1, <3>2
  <2> QED BY <1>9, <2>1 DEF SumInv, Close
<1>16. \A v \in Workers : RequestInv(request'[v])
  BY <1>4, <1>5, <1>6, StatFacts
<1> QED BY <1>3, <1>13, <1>15, <1>16 DEF StatInv, RequestInv, Close

\* Nothing is counted yet.
LEMMA StatInitInv == StatInit => StatInv
<1> SUFFICES ASSUME StatInit PROVE StatInv
  OBVIOUS
<1>1. Zero \in [Types -> Nat] /\ \A t \in Types : Zero[t] = 0
  BY DEF Zero
<1>2. /\ avg_micros = Zero /\ active_connections = 0 /\ total_requests_processed = 0
      /\ request = [w \in Workers |-> NoRequest]
      /\ recorded = [ticks |-> Zero, intervals |-> Zero, requests |-> Zero]
  BY DEF StatInit
<1>3. \A w \in Workers : request[w] = NoRequest
  BY <1>2
<1>4. StatTypeOK
  BY <1>1, <1>2, FreshRequest DEF StatTypeOK
<1>5. Cardinality({}) = 0
  BY FS_EmptySet
<1>6. ASSUME NEW t \in Types
      PROVE  total_requests_processed = recorded.requests[t] + Cardinality(Adding(t))
  <2>1. Adding(t) = {}
    BY <1>3, FreshRequest DEF Adding
  <2> QED BY <1>1, <1>2, <1>5, <2>1
<1>7. Busy = {}
  BY <1>3, FreshRequest DEF Busy
<1>8. CountsExact
  BY <1>2, <1>4, <1>5, <1>6, <1>7 DEF CountsExact, Adding, Busy
<1>9. SumInv
  BY <1>1, <1>2, ZeroClose, StatConstants DEF SumInv
<1> QED BY <1>3, <1>8, <1>9, FreshRequest DEF StatInv

\* A worker keeps the statistics right, and never takes a request back.
LEMMA WorkerInvariant ==
  ASSUME StatInv, NEW w \in Workers, WorkerStep(w)
  PROVE  /\ StatInv' /\ total_requests_processed \in Nat /\ total_requests_processed' \in Nat
         /\ total_requests_processed <= total_requests_processed'
<1>0. StatTypeOK
  BY StatFacts, Zenon
<1>1. total_requests_processed \in Nat
  BY <1>0 DEF StatTypeOK
<1> QED BY <1>1, AcceptInv, MeasureInv, EndInv, CountInv, AddInv DEF WorkerStep

\* The steps that leave the statistics alone.
LEMMA StatFrame ==
  ASSUME StatInv, UNCHANGED stat_vars
  PROVE  StatInv'
BY DEF StatInv, stat_vars, CountsExact, StatTypeOK, SumInv, RequestInv, Close

------------------------------------------------------------------------------
(* The statistics thread *)

\* The places of the statistics thread are different.
LEMMA Places ==
  /\ None # <<"queues">> /\ None # <<"divide">> /\ <<"queues">> # <<"divide">>
  /\ \A t : None # <<"time", t>> /\ <<"queues">> # <<"time", t>> /\ <<"divide">> # <<"time", t>>
  /\ \A s, t : <<"time", s>> = <<"time", t>> => s = t
BY DEF None

\* A step that leaves the thread, the mailboxes and the total alone, or makes
\* the total greater.
LEMMA ThreadFrame ==
  ASSUME StartInv, ThreadInv, UNCHANGED thread_vars,
         io_worker_count' = io_worker_count, AllReady => AllReady',
         exited' = "crash" /\ io_worker_count > 0 => early,
         total_requests_processed \in Nat, total_requests_processed' \in Nat,
         total_requests_processed <= total_requests_processed'
  PROVE  ThreadInv'
<1>1. UNCHANGED <<doing, walk, quotient, early>>
  BY DEF thread_vars
<1>2. \A t \in Types : doing = <<"time", t>> =>
        quotient.time <= total_requests_processed' * MaxMicros
  <2> SUFFICES ASSUME NEW t \in Types, doing = <<"time", t>>
               PROVE  quotient.time <= total_requests_processed' * MaxMicros
    OBVIOUS
  <2>1. quotient.time <= total_requests_processed * MaxMicros /\ quotient.time \in Nat
    BY DEF ThreadInv
  <2>2. PICK n \in Nat, m \in Nat :
          n = total_requests_processed /\ m = total_requests_processed'
    OBVIOUS
  <2>3. n * MaxMicros <= m * MaxMicros
    BY <2>2, StatConstants, FewerBound
  <2>4. n * MaxMicros \in Nat /\ m * MaxMicros \in Nat
    BY StatConstants, Products
  <2> QED BY <2>1, <2>2, <2>3, <2>4
<1> QED BY <1>1, <1>2 DEF ThreadInv, CrashNeedsEarlyWalk, NeverOverstated

\* main and its start-up.
LEMMA MainCase ==
  ASSUME IndInv, exited = "no", Main
  PROVE  IndInv'
<1>0. StartInv /\ StatInv /\ ThreadInv /\ total_requests_processed \in Nat
  BY StatFacts DEF IndInv, StatTypeOK
<1>1. UNCHANGED stat_vars /\ UNCHANGED thread_vars
        /\ total_requests_processed' = total_requests_processed
  BY DEF Main, stat_vars
<1>2. StatInv'
  BY <1>0, <1>1, StatFrame
<1>3. CASE MainStep
  <2>1. io_worker_count' = io_worker_count
    BY <1>3 DEF MainStep, create_stats, MallocQueues, InitQueue, SpawnActor, create_io_worker, Join
  <2>2. exited' = "crash" => io_worker_count = 0
    BY <1>3 DEF MainStep, create_stats, MallocQueues, InitQueue, SpawnActor, create_io_worker, Join
  <2>3. StartInv' /\ (AllReady => AllReady')
    BY <1>0, <1>3, MainInvariant, ReadyStays
  <2>4. ThreadInv'
    BY <1>0, <1>1, <2>1, <2>2, <2>3, ThreadFrame
  <2> QED BY <1>2, <2>3, <2>4 DEF IndInv
<1>4. CASE StartFails
  <2>1. UNCHANGED <<io_worker_count, main, input_queue, thread>> /\ exited' = "check"
    BY <1>4 DEF StartFails
  <2>2. StartInv'
    BY <1>0, <2>1, StartFrame
  <2>3. AllReady => AllReady'
    BY <2>1 DEF AllReady
  <2>4. ThreadInv'
    BY <1>0, <1>1, <2>1, <2>3, ThreadFrame
  <2> QED BY <1>2, <2>2, <2>4 DEF IndInv
<1> QED BY <1>3, <1>4 DEF Main

\* A thread at the barrier.
LEMMA BarrierCase ==
  ASSUME IndInv, exited = "no", NEW t \in Threads, Barrier(t)
  PROVE  IndInv'
<1>0. StartInv /\ StatInv /\ ThreadInv /\ total_requests_processed \in Nat
  BY StatFacts DEF IndInv, StatTypeOK
<1>1. /\ UNCHANGED stat_vars /\ UNCHANGED thread_vars
      /\ total_requests_processed' = total_requests_processed
      /\ pthread_barrier_wait(t)
      /\ UNCHANGED <<io_worker_count, input_queue, exited>>
  BY DEF Barrier, stat_vars, pthread_barrier_wait
<1>2. StatInv'
  BY <1>0, <1>1, StatFrame
<1>3. StartInv'
  BY <1>0, <1>1, BarrierInvariant
<1>4. AllReady => AllReady'
  BY <1>1 DEF AllReady
<1>5. ThreadInv'
  BY <1>0, <1>1, <1>4, ThreadFrame
<1> QED BY <1>2, <1>3, <1>5 DEF IndInv

\* A worker and its requests.
LEMMA ServeCase ==
  ASSUME IndInv, exited = "no", NEW w \in Workers, Serve(w)
  PROVE  IndInv'
<1>0. StartInv /\ StatInv /\ ThreadInv
  BY DEF IndInv
<1>1. /\ WorkerStep(w) /\ UNCHANGED thread_vars
      /\ UNCHANGED <<io_worker_count, main, input_queue, thread, exited>>
  BY DEF Serve, start_vars
<1>2. /\ StatInv' /\ total_requests_processed \in Nat /\ total_requests_processed' \in Nat
      /\ total_requests_processed <= total_requests_processed'
  BY <1>0, <1>1, WorkerInvariant
<1>3. StartInv'
  BY <1>0, <1>1, StartFrame
<1>4. AllReady => AllReady'
  BY <1>1 DEF AllReady
<1>5. ThreadInv'
  BY <1>0, <1>1, <1>2, <1>4, ThreadFrame
<1> QED BY <1>2, <1>3, <1>5 DEF IndInv

\* queue_usage, a turn of its loops.
LEMMA WalkCase ==
  ASSUME IndInv, exited = "no", WalkStep
  PROVE  IndInv'
<1>0. StartInv /\ StatInv /\ ThreadInv /\ StartTypeOK
  BY DEF IndInv, StartInv
<1>1. /\ doing = <<"queues">> /\ ~Walked(walk)
      /\ walk' = IF walk.queue_id + 1 < io_worker_count
                 THEN [walk EXCEPT !.queue_id = @ + 1]
                 ELSE [actor_id |-> walk.actor_id + 1, queue_id |-> 0]
      /\ UNCHANGED <<io_worker_count, main, input_queue, thread, doing, quotient, early>>
      /\ UNCHANGED stat_vars
  BY DEF WalkStep, stat_vars
<1>2. io_worker_count \in Nat /\ ActorCount \in Nat
        /\ walk.actor_id \in Nat /\ walk.queue_id \in Nat
        /\ input_queue \in [Actors -> [Queues -> {"null", "garbage", "ready"}]]
  BY <1>0, Constants DEF ThreadInv, StartTypeOK
<1>3. walk.actor_id \in Actors /\ walk.queue_id \in 0 .. io_worker_count - 1
        /\ walk.queue_id \in Queues
  <2>1. walk.actor_id \in Actors /\ io_worker_count > 0
    BY <1>1, <1>2 DEF Walked, Actors
  <2>2. walk.queue_id \in 0 .. io_worker_count - 1
    BY <1>0, <1>2, <2>1 DEF ThreadInv
  <2> QED BY <1>0, <2>1, <2>2, ExpectedThreads
<1>4. QueueAt(walk) \in {"null", "garbage", "ready"} /\ (AllReady => QueueAt(walk) = "ready")
  BY <1>2, <1>3 DEF QueueAt, AllReady
<1>5. exited' \in {"no", "crash"} /\ (exited' = "crash" => early)
  <2>1. early \/ AllReady
    BY <1>0, <1>1 DEF ThreadInv
  <2>2. /\ QueueAt(walk) = "ready" => exited' \in {"no"}
        /\ QueueAt(walk) = "null" => exited' \in {"crash"}
        /\ QueueAt(walk) = "garbage" => exited' \in {"no", "crash"}
    BY DEF WalkStep
  <2> QED BY <1>4, <2>1, <2>2
<1>6. StartInv'
  BY <1>0, <1>1, <1>5, StartFrame
<1>7. StatInv' /\ total_requests_processed' = total_requests_processed
  BY <1>0, <1>1, StatFrame DEF stat_vars
<1>8. walk' \in [actor_id : Nat, queue_id : Nat]
        /\ (walk'.queue_id = 0 \/ walk'.queue_id < io_worker_count)
  <2>1. walk \in [actor_id : Nat, queue_id : Nat]
    BY <1>0 DEF ThreadInv
  <2>2. CASE walk.queue_id + 1 < io_worker_count
    <3>1. walk' = [walk EXCEPT !.queue_id = walk.queue_id + 1]
      BY <1>1, <2>2
    <3>2. walk.queue_id + 1 \in Nat
      BY <1>2
    <3> QED BY <2>1, <2>2, <3>1, <3>2
  <2>3. CASE ~(walk.queue_id + 1 < io_worker_count)
    <3>1. walk' = [actor_id |-> walk.actor_id + 1, queue_id |-> 0]
      BY <1>1, <2>3
    <3> QED BY <1>2, <3>1
  <2> QED BY <2>2, <2>3
<1>9. ThreadInv'
  BY <1>0, <1>1, <1>5, <1>7, <1>8 DEF ThreadInv, CrashNeedsEarlyWalk, NeverOverstated, AllReady
<1> QED BY <1>6, <1>7, <1>9 DEF IndInv

\* The other steps of the statistics thread.
LEMMA StatsCase ==
  ASSUME IndInv, exited = "no", stats_loop
  PROVE  IndInv'
<1>0. StartInv /\ StatInv /\ ThreadInv
  BY DEF IndInv
<1>1. CASE WalkStep
  BY <1>1, WalkCase
<1> DEFINE Other == BeginWalk \/ EndWalk \/ (\E t \in Types : LoadFirst(t) \/ LoadSecond(t)) \/ Divide
<1>2. Other => /\ UNCHANGED <<io_worker_count, main, input_queue, thread, exited>>
               /\ UNCHANGED stat_vars /\ total_requests_processed' = total_requests_processed
  BY DEF BeginWalk, EndWalk, LoadFirst, LoadSecond, Divide, start_vars, stat_vars
<1>3. Other => StartInv' /\ StatInv'
  <2>1. exited \in {"no", "check", "crash"}
    OBVIOUS
  <2> HIDE DEF Other
  <2> QED BY <1>0, <1>2, <2>1, StartFrame, StatFrame
<1>4. Other => CrashNeedsEarlyWalk'
  BY <1>2 DEF CrashNeedsEarlyWalk
<1>5. CASE BeginWalk
  <2>1. /\ doing' = <<"queues">> /\ early' = ~AllReady /\ walk' = walk /\ quotient' = quotient
    BY <1>5 DEF BeginWalk
  <2>2. AllReady' <=> AllReady
    BY <1>2, <1>5 DEF AllReady
  <2>3. early' \in BOOLEAN /\ (early' \/ AllReady')
    BY <2>1, <2>2
  <2>4. ThreadInv'
    BY <1>0, <1>2, <1>4, <1>5, <2>1, <2>3, Places DEF ThreadInv, NeverOverstated
  <2> QED BY <1>3, <1>5, <2>4 DEF IndInv
<1>6. CASE EndWalk
  <2>1. /\ doing' = None /\ early' = FALSE /\ quotient' = quotient
        /\ walk' = [actor_id |-> 0, queue_id |-> 0]
    BY <1>6 DEF EndWalk
  <2>2. ThreadInv'
    BY <1>0, <1>2, <1>4, <1>6, <2>1, Places DEF ThreadInv, NeverOverstated
  <2> QED BY <1>3, <1>6, <2>2 DEF IndInv
<1>7. ASSUME NEW t \in Types, LoadFirst(t) PROVE IndInv'
  <2>1. /\ doing' = <<"time", t>> /\ walk' = walk /\ early' = early
        /\ quotient' = [quotient EXCEPT !.time = avg_micros[t]]
    BY <1>7 DEF LoadFirst, Loads, Loaded
  <2>2. Other
    BY <1>7
  <2>3. avg_micros[t] \in Nat /\ avg_micros[t] <= total_requests_processed * MaxMicros
    <3>1. PICK a \in Nat, m \in Nat : a = avg_micros[t] /\ m = recorded.requests[t]
      BY <1>0, StatFacts DEF StatTypeOK
    <3>2. total_requests_processed \in Nat /\ m <= total_requests_processed
      BY <1>0, <3>1, StatFacts
    <3>3. a <= m * MaxMicros
      BY <1>0, <3>1, StatFacts DEF SumInv
    <3>4. m * MaxMicros <= total_requests_processed * MaxMicros
      BY <3>2, StatConstants, FewerBound
    <3>5. m * MaxMicros \in Nat /\ total_requests_processed * MaxMicros \in Nat
      BY <3>2, StatConstants, Products
    <3> QED BY <3>1, <3>3, <3>4, <3>5
  <2>4. quotient' \in [time : Nat, requests : Nat] /\ quotient'.time = avg_micros[t]
    BY <1>0, <2>1, <2>3 DEF ThreadInv
  <2>5. ThreadInv'
    BY <1>0, <1>2, <1>4, <2>1, <2>2, <2>3, <2>4, Places DEF ThreadInv, NeverOverstated
  <2> QED BY <1>3, <2>2, <2>5 DEF IndInv
<1>8. ASSUME NEW t \in Types, LoadSecond(t) PROVE IndInv'
  <2>1. /\ doing = <<"time", t>> /\ doing' = <<"divide">> /\ walk' = walk /\ early' = early
        /\ quotient' = [quotient EXCEPT !.requests = total_requests_processed]
    BY <1>8 DEF LoadSecond, Loads, Loaded
  <2>2. Other
    BY <1>8
  <2>3. total_requests_processed \in Nat
    BY <1>0, StatFacts DEF StatTypeOK
  <2>4. quotient' \in [time : Nat, requests : Nat] /\ quotient'.time = quotient.time
          /\ quotient'.requests = total_requests_processed
    BY <1>0, <2>1, <2>3 DEF ThreadInv
  <2>5. quotient.time <= total_requests_processed * MaxMicros
    BY <1>0, <2>1 DEF ThreadInv
  <2>6. NeverOverstated'
    BY <2>4, <2>5 DEF NeverOverstated, MaxMicros
  <2>7. ThreadInv'
    BY <1>0, <1>2, <1>4, <2>1, <2>2, <2>4, <2>6, Places DEF ThreadInv
  <2> QED BY <1>3, <2>2, <2>7 DEF IndInv
<1>9. CASE Divide
  <2>1. /\ doing' = None /\ early' = early /\ walk' = walk
        /\ quotient' = [time |-> 0, requests |-> 0]
    BY <1>9 DEF Divide
  <2>2. ThreadInv'
    BY <1>0, <1>2, <1>4, <1>9, <2>1, Places DEF ThreadInv, NeverOverstated
  <2> QED BY <1>3, <1>9, <2>2 DEF IndInv
<1> QED BY <1>1, <1>5, <1>6, <1>7, <1>8, <1>9 DEF stats_loop

\* Init establishes the invariant.
LEMMA InitInv == Init => IndInv
<1> SUFFICES ASSUME Init PROVE IndInv
  OBVIOUS
<1>1. StartInv /\ StatInv
  BY StartInitInv, StatInitInv DEF Init
<1>2. doing = None /\ walk = [actor_id |-> 0, queue_id |-> 0] /\ early = FALSE
        /\ quotient = [time |-> 0, requests |-> 0] /\ exited = "no"
  BY DEF Init, StartInit
<1>3. ThreadInv
  BY <1>2, Places DEF ThreadInv, CrashNeedsEarlyWalk, NeverOverstated
<1> QED BY <1>1, <1>3 DEF IndInv

\* Every step keeps the invariant.
LEMMA NextInv == IndInv /\ [Next]_vars => IndInv'
<1> SUFFICES ASSUME IndInv, [Next]_vars PROVE IndInv'
  OBVIOUS
<1>1. CASE Next
  BY <1>1, MainCase, BarrierCase, ServeCase, StatsCase DEF Next
<1>2. CASE UNCHANGED vars
  <2>0. StartInv /\ StatInv /\ ThreadInv /\ total_requests_processed \in Nat
    BY StatFacts DEF IndInv, StatTypeOK
  <2>1. /\ UNCHANGED <<io_worker_count, main, input_queue, thread, exited>>
        /\ UNCHANGED stat_vars /\ UNCHANGED thread_vars
        /\ total_requests_processed' = total_requests_processed
    BY <1>2 DEF vars, start_vars, stat_vars
  <2>2. exited \in {"no", "check", "crash"}
    BY <2>0 DEF StartInv, StartTypeOK
  <2>3. StartInv' /\ StatInv'
    BY <2>0, <2>1, <2>2, StartFrame, StatFrame
  <2>4. AllReady => AllReady'
    BY <2>1 DEF AllReady
  <2>5. exited' = "crash" /\ io_worker_count > 0 => early
    BY <2>0, <2>1 DEF ThreadInv, CrashNeedsEarlyWalk
  <2>6. ThreadInv'
    BY <2>0, <2>1, <2>4, <2>5, ThreadFrame
  <2> QED BY <2>3, <2>6 DEF IndInv
<1> QED BY <1>1, <1>2

\* The inductive invariant holds in every state.
THEOREM Invariance == Spec => []IndInv
BY InitInv, NextInv, PTL DEF Spec

\* BarrierCovers: no actor and no worker gets past the barrier before every
\* mailbox exists and all of them have come (main.c, pthread_barrier_wait).
THEOREM BarrierAlwaysCovers == Spec => []BarrierCovers
<1>1. IndInv => BarrierCovers
  BY BarrierLemma DEF IndInv
<1> QED BY <1>1, Invariance, PTL

\* CrashNeedsEarlyWalk: with a worker, only a walk of queue_usage that begins
\* before the mailboxes exist can end the process by a crash.
THEOREM CrashAlwaysNeedsEarlyWalk == Spec => []CrashNeedsEarlyWalk
<1>1. IndInv => CrashNeedsEarlyWalk
  BY DEF IndInv, ThreadInv
<1> QED BY <1>1, Invariance, PTL

\* TimesAccurate: the truncation of get_time_delta costs less than a
\* microsecond for each interval, over any number of requests.
THEOREM TimesAlwaysAccurate == Spec => []TimesAccurate
<1>1. IndInv => TimesAccurate
  BY DEF IndInv, StatInv, SumInv, Close, TimesAccurate
<1> QED BY <1>1, Invariance, PTL

\* CountsExact: the counters of server_stats.c count every request and every
\* connection once, however the workers interleave.
THEOREM CountsAlwaysExact == Spec => []CountsExact
<1>1. IndInv => CountsExact
  BY DEF IndInv, StatInv
<1> QED BY <1>1, Invariance, PTL

\* NeverOverstated: server_stats_get_time loads the time before the number of
\* requests, so no average exceeds the longest request.
THEOREM AveragesNeverOverstated == Spec => []NeverOverstated
<1>1. IndInv => NeverOverstated
  BY DEF IndInv, ThreadInv
<1> QED BY <1>1, Invariance, PTL

==============================================================================
