----------------------------- MODULE ServerProofs -----------------------------
(***************************************************************************)
(* Proofs about Server, for every number of workers, actors, descriptors,  *)
(* queue places and events: the inductive invariant, what the clients, the *)
(* I/O workers and the application actors do to it, and what follows from  *)
(* it.                                                                     *)
(*                                                                         *)
(* The argument: what a RequestContext says of itself (is it registered,   *)
(* does QUEUE_TIME run, is there a response to send) tells in whose hands  *)
(* it is.  Phase reads this off, and PhaseInv relates it to the hands.     *)
(***************************************************************************)
EXTENDS Server, FiniteSetTheorems, TLAPS

\* Most steps are first-order reasoning, which Zenon does; the others name SMT.
USE Zenon

Holding == Handling \cup {"free"}

Registered(c) == reg[c].epoll # NoWorker
Held(w, c) == worker[w].conn = c /\ worker[w].pc \in Handling
Freeing(w, c, s) == /\ worker[w].conn = c
                    /\ worker[w].slot = s
                    /\ worker[w].pc \in Holding
Queued(a, w, i, c) == i \in 1 .. Len(queue[a][w]) /\ queue[a][w][i] = c
Answering(a, c) == actor[a].conn = c

Phase(c) ==
  IF ~req[c].live THEN "closed"
  ELSE IF Registered(c) THEN "epoll"
  ELSE IF "QUEUE" \in req[c].timers THEN "queue"
  ELSE IF req[c].out = 0 THEN "worker"
  ELSE "actor"

\* The kernel's view of a connection and the server's agree.
ConnInv ==
  \A c \in Conns :
    /\ req[c].live <=> sock[c].state = "open"
    /\ req[c].live => req[c].epoll_info \in Workers /\ "TOTAL" \in req[c].timers
    /\ Registered(c) <=> reg[c].dir # "none"
    /\ Registered(c) => /\ req[c].live
                        /\ reg[c].epoll = req[c].epoll_info
                        /\ "QUEUE" \notin req[c].timers
    /\ reg[c].dir = "in" => req[c].out = 0

\* Whose hands c is in is what c itself says.
PhaseRight(c) ==
  /\ \A w \in Workers : Held(w, c) <=> Phase(c) = "worker" /\ req[c].epoll_info = w
  /\ \A a \in Actors :
       Answering(a, c) => Phase(c) = "actor" /\ req[c].epoll_info = actor[a].from
  /\ \A a, b \in Actors : Answering(a, c) /\ Answering(b, c) => a = b
  /\ Phase(c) = "actor" => \E a \in Actors : Answering(a, c)
  /\ \A a \in Actors, w \in Workers, i \in Nat :
       Queued(a, w, i, c) =>
         Phase(c) = "queue" /\ req[c].epoll_info = w /\ req[c].out = 0
  /\ \A a, b \in Actors, w \in Workers, i, j \in Nat :
       Queued(a, w, i, c) /\ Queued(b, w, j, c) => a = b /\ i = j
  /\ Phase(c) = "queue" =>
       \E a \in Actors, i \in Nat : Queued(a, req[c].epoll_info, i, c)

PhaseInv == \A c \in Conns : PhaseRight(c)

\* The SocketContext s of c is in use exactly when one refers to it.
ContextRight(c, s) ==
  /\ sctx[c][s] # "none" <=>
       (Registered(c) /\ reg[c].slot = s) \/ \E w \in Workers : Freeing(w, c, s)
  /\ \A w \in Workers : Freeing(w, c, s) => ~(Registered(c) /\ reg[c].slot = s)
  /\ \A w, v \in Workers : Freeing(w, c, s) /\ Freeing(v, c, s) => w = v
  /\ Registered(c) /\ reg[c].slot = s =>
       sctx[c][s] = IF reg[c].dir = "in" THEN "read" ELSE "write"

ContextInv == \A c \in Conns, s \in Slots : ContextRight(c, s)

EventInv ==
  \A w \in Workers : \A e \in worker[w].batch :
    /\ e # AcceptEvent => /\ e.conn \in Conns
                          /\ reg[e.conn].epoll = w
                          /\ reg[e.conn].slot = e.slot
                          /\ e.kind \in {reg[e.conn].dir, "err"}
    /\ \A f \in worker[w].batch : e.conn = f.conn => e = f

WorkerInv ==
  \A w \in Workers : worker[w].pc \in Holding <=> worker[w].conn # NoConn

ActorInv ==
  \A a \in Actors :
    /\ actor[a].from = NoWorker <=> actor[a].pc \in {"init", "loop"}
    /\ actor[a].conn = NoConn <=> actor[a].pc # "register"
    /\ actor[a].pc \in {"init", "loop", "drain"} => actor[a].num = 0
    /\ actor[a].pc = "pop" => actor[a].num > 0

Announced ==
  \A a \in Actors, w \in Workers :
    Len(queue[a][w]) = event[a][w] + IF actor[a].from = w THEN actor[a].num ELSE 0

Live == {c \in Conns : req[c].live}

RunInv ==
  /\ ConnInv
  /\ PhaseInv
  /\ ContextInv
  /\ EventInv
  /\ WorkerInv
  /\ ActorInv
  /\ Announced
  /\ active = Cardinality(Live)

IndInv == TypeOK /\ NoCheckFails /\ OverflowNeedsLoad /\ (Running => RunInv)

------------------------------------------------------------------------------
(* The CHECKs *)

\* A step whose one CHECK holds goes on.
LEMMA OneCheck ==
  ASSUME NEW b, ~b, NEW r, Checks(<< <<b, r>> >>)
  PROVE  exited' = "no"
<1> DEFINE cs == << <<b, r>> >>
<1>1. DOMAIN cs = {1} /\ cs[1] = <<b, r>>
  BY SMT
<1>2. cs[1][1] = b
  BY <1>1
<1>3. ~ \E i \in DOMAIN cs : cs[i][1]
  BY <1>1, <1>2
<1> QED BY <1>3 DEF Checks

\* A step both of whose CHECKs hold goes on.
LEMMA TwoChecks ==
  ASSUME NEW b, ~b, NEW d, ~d, NEW r, NEW q, Checks(<< <<b, r>>, <<d, q>> >>)
  PROVE  exited' = "no"
<1> DEFINE cs == << <<b, r>>, <<d, q>> >>
<1>1. DOMAIN cs = {1, 2} /\ cs[1] = <<b, r>> /\ cs[2] = <<d, q>>
  BY SMT
<1>2. cs[1][1] = b /\ cs[2][1] = d
  BY <1>1
<1>3. ~ \E i \in DOMAIN cs : cs[i][1]
  BY <1>1, <1>2
<1> QED BY <1>3 DEF Checks

\* A step of which only the second CHECK fails ends the process with its reason.
LEMMA SecondCheck ==
  ASSUME NEW b, ~b, NEW d, d, NEW r, NEW q, Checks(<< <<b, r>>, <<d, q>> >>)
  PROVE  exited' = q
<1>1. ASSUME NEW x, NEW y
      PROVE  DOMAIN <<x, y>> = {1, 2} /\ <<x, y>>[1] = x /\ <<x, y>>[2] = y
  BY SMT
<1> DEFINE cs == << <<b, r>>, <<d, q>> >>
           P(i) == cs[i][1] /\ \A j \in 1 .. i - 1 : ~cs[j][1]
<1>2. DOMAIN cs = {1, 2} /\ cs[1] = <<b, r>> /\ cs[2] = <<d, q>>
  BY <1>1
<1>3. cs[1][1] = b /\ cs[2][1] = d /\ cs[2][2] = q
  BY <1>1, <1>2
<1>4. P(2) /\ ~P(1)
  BY SMT, <1>3
<1>5. (CHOOSE i \in DOMAIN cs : P(i)) = 2
  BY <1>2, <1>4
<1>6. exited' = cs[CHOOSE i \in DOMAIN cs : P(i)][2]
  BY <1>2, <1>3 DEF Checks
<1> QED BY <1>3, <1>5, <1>6

------------------------------------------------------------------------------
(* What each part of the invariant depends on *)

\* The promise of a step.
Kept == TypeOK' /\ NoCheckFails' /\ OverflowNeedsLoad' /\ (Running' => RunInv')

\* The slots are numbered from 0.
LEMMA SlotsType == Slots \subseteq Nat /\ 0 \in Slots
BY SMT, ServerAssumption, FS_CardinalityType DEF Slots

\* per_request_record_start leaves all but the timers alone.
LEMMA TimerOnFields ==
  ASSUME NEW r \in RequestContext, NEW type \in {"TOTAL", "QUEUE"}
  PROVE  /\ TimerOn(r, type) \in RequestContext
         /\ TimerOn(r, type).live = r.live
         /\ TimerOn(r, type).epoll_info = r.epoll_info
         /\ TimerOn(r, type).out = r.out
         /\ TimerOn(r, type).timers = r.timers \cup {type}
<1>1. TimerOn(r, type) = [live |-> r.live, epoll_info |-> r.epoll_info, out |-> r.out,
                          keep |-> r.keep, timers |-> r.timers \cup {type}]
  BY SMT DEF TimerOn, RequestContext
<1>2. r.timers \cup {type} \in SUBSET {"TOTAL", "QUEUE"}
  BY DEF RequestContext
<1> QED BY SMT, <1>1, <1>2 DEF RequestContext

\* While the process runs there is nothing to show for the exits.
LEMMA StillRunning ==
  ASSUME TypeOK', exited' = "no", RunInv'
  PROVE  Kept
BY DEF Kept, NoCheckFails, OverflowNeedsLoad

\* A connection whose hands the step does not change.
LEMMA PhaseFrame ==
  ASSUME ConnInv, NEW d \in Conns, PhaseRight(d), Phase(d)' = Phase(d),
         req'[d].epoll_info = req[d].epoll_info, req'[d].out = req[d].out,
         \A w \in Workers : Held(w, d)' <=> Held(w, d),
         \A a \in Actors : Answering(a, d)' <=> Answering(a, d),
         \A a \in Actors : Answering(a, d) => actor'[a].from = actor[a].from,
         \A a \in Actors, w \in Workers, i \in Nat : Queued(a, w, i, d)' <=> Queued(a, w, i, d)
  PROVE  PhaseRight(d)'
<1>1. Phase(d) = "queue" => req[d].epoll_info \in Workers
  BY DEF Phase, ConnInv
<1> QED BY SMT, <1>1 DEF PhaseRight

\* A step of a client, or one that takes or stores bytes.
LEMMA SocketStep ==
  ASSUME TypeOK, RunInv, Running,
         UNCHANGED <<reg, req, sctx, queue, event, worker, actor, count, active, exited>>,
         sock' \in [Conns -> Socket],
         \A c \in Conns : sock'[c].state = "open" <=> sock[c].state = "open"
  PROVE  Kept
<1>1. TypeOK' /\ exited' = "no"
  BY DEF TypeOK, Running
<1>2. ConnInv'
  BY DEF RunInv, ConnInv, Registered
<1>3. PhaseInv'
  BY SMT DEF RunInv, PhaseInv, PhaseRight, Held, Queued, Answering, Phase, Registered
<1>4. ContextInv' /\ EventInv' /\ WorkerInv' /\ ActorInv' /\ Announced'
  BY SMT DEF RunInv, ContextInv, ContextRight, EventInv, WorkerInv, ActorInv, Announced, Registered, Freeing
<1>5. active' = Cardinality(Live')
  BY DEF RunInv, Live
<1> QED BY <1>1, <1>2, <1>3, <1>4, <1>5, StillRunning DEF RunInv

\* What a client does to its socket keeps the invariant.
LEMMA ClientKeeps ==
  ASSUME TypeOK, RunInv, Running, Client
  PROVE  Kept
<1> USE DEF client_vars
<1>0. sock \in [Conns -> Socket] /\ TxCap \in Nat \ {0}
  BY ServerAssumption DEF TypeOK
<1>1. ASSUME NEW c \in Conns, NEW w \in Workers, Connect(c, w) PROVE Kept
  <2>1. sock' \in [Conns -> Socket]
    BY SMT, <1>0, <1>1 DEF Connect, Socket
  <2>2. \A d \in Conns : sock'[d].state = "open" <=> sock[d].state = "open"
    BY <1>0, <1>1 DEF Connect, Socket
  <2> QED BY <1>1, <2>1, <2>2, SocketStep DEF Connect
<1>2. ASSUME NEW c \in Conns, ClientSend(c) PROVE Kept
  <2>1. sock' \in [Conns -> Socket]
    BY ZenonT(30), <1>0, <1>2 DEF ClientSend, Socket
  <2>2. \A d \in Conns : sock'[d].state = "open" <=> sock[d].state = "open"
    BY ZenonT(30), <1>0, <1>2 DEF ClientSend, Socket
  <2> QED BY <1>2, <2>1, <2>2, SocketStep DEF ClientSend
<1>3. ASSUME NEW c \in Conns, ClientRecv(c) PROVE Kept
  <2>1. sock' \in [Conns -> Socket]
    BY SMT, <1>0, <1>3 DEF ClientRecv, Socket
  <2>2. \A d \in Conns : sock'[d].state = "open" <=> sock[d].state = "open"
    BY <1>0, <1>3 DEF ClientRecv, Socket
  <2> QED BY <1>3, <2>1, <2>2, SocketStep DEF ClientRecv
<1>4. ASSUME NEW c \in Conns, ClientTrouble(c) PROVE Kept
  <2>1. PICK p \in PeerStep :
          sock' = [sock EXCEPT ![c].peer = p[2],
                               ![c].rx = @ /\ p[2] = "urgent",
                               ![c].tx = IF p[2] \in {"reset", "broken"} THEN 0 ELSE @]
    BY <1>4 DEF ClientTrouble
  <2>2. p[2] \in {"urgent", "shut", "reset", "broken"}
    BY SMT DEF PeerStep
  <2>3. sock' \in [Conns -> Socket]
    <3> DEFINE rx == sock[c].rx /\ p[2] = "urgent"
               tx == IF p[2] \in {"reset", "broken"} THEN 0 ELSE sock[c].tx
    <3>1. sock[c] \in Socket
      BY <1>0
    <3>2. rx \in BOOLEAN
      OBVIOUS
    <3>3. tx \in 0 .. TxCap
      BY SMT, <1>0, <3>1 DEF Socket
    <3>4. sock' = [sock EXCEPT ![c] = [sock[c] EXCEPT !.peer = p[2], !.rx = rx, !.tx = tx]]
      BY <1>0, <2>1
    <3> HIDE DEF rx, tx
    <3>5. [sock[c] EXCEPT !.peer = p[2], !.rx = rx, !.tx = tx] \in Socket
      BY <2>2, <3>1, <3>2, <3>3 DEF Socket
    <3> QED BY <1>0, <3>4, <3>5
  <2>4. \A d \in Conns : sock'[d].state = "open" <=> sock[d].state = "open"
    BY <1>0, <2>1 DEF Socket
  <2> QED BY <1>4, <2>3, <2>4, SocketStep DEF ClientTrouble
<1> QED BY <1>1, <1>2, <1>3, <1>4 DEF Client

------------------------------------------------------------------------------
(* Steps of a worker by itself *)

\* Events leave a batch, and the registrations of those that stay are untouched.
LEMMA EventFrame ==
  ASSUME EventInv,
         \A v \in Workers : worker'[v].batch \subseteq worker[v].batch,
         \A v \in Workers : \A f \in worker'[v].batch :
           f # AcceptEvent => reg'[f.conn] = reg[f.conn]
  PROVE  EventInv'
BY SMT DEF EventInv, AcceptEvent

\* A step that leaves what the worker holds alone.
LEMMA WorkerLocal ==
  ASSUME TypeOK, RunInv, Running, NEW w \in Workers, NEW r \in WorkerState,
         worker' = [worker EXCEPT ![w] = r],
         r.conn = worker[w].conn, r.slot = worker[w].slot,
         r.pc \in Handling <=> worker[w].pc \in Handling,
         r.pc \in Holding <=> worker[w].pc \in Holding,
         UNCHANGED <<reg, req, sctx, queue, event, actor, active, exited>>,
         count' \in 0 .. CountMod - 1,
         sock' \in [Conns -> Socket],
         \A c \in Conns : sock'[c].state = "open" <=> sock[c].state = "open",
         EventInv'
  PROVE  Kept
<1>0. /\ \A v \in Workers : /\ worker'[v].conn = worker[v].conn
                            /\ worker'[v].slot = worker[v].slot
                            /\ worker'[v].pc \in Handling <=> worker[v].pc \in Handling
                            /\ worker'[v].pc \in Holding <=> worker[v].pc \in Holding
      /\ worker' \in [Workers -> WorkerState]
  BY DEF TypeOK
<1>1. TypeOK' /\ exited' = "no"
  BY <1>0 DEF TypeOK, Running
<1>2. ConnInv'
  BY DEF RunInv, ConnInv, Registered
<1>3. \A c \in Conns : Phase(c)' = Phase(c)
  BY DEF Phase, Registered
<1>4. PhaseInv'
  BY SMT, <1>0, <1>3 DEF RunInv, PhaseInv, PhaseRight, Held, Queued, Answering
<1>5. ContextInv'
  BY SMT, <1>0 DEF RunInv, ContextInv, ContextRight, Registered, Freeing
<1>6. WorkerInv' /\ ActorInv' /\ Announced'
  BY <1>0 DEF RunInv, WorkerInv, ActorInv, Announced
<1>7. active' = Cardinality(Live')
  BY DEF RunInv, Live
<1> QED BY <1>1, <1>2, <1>4, <1>5, <1>6, <1>7, StillRunning DEF RunInv

\* The steps of a worker that move no request.
LEMMA LocalKeeps ==
  ASSUME TypeOK, RunInv, Running, NEW w \in Workers,
         \/ WorkerStart(w) \/ WorkerEpollWait(w) \/ handle_accept_read(w) \/ AcceptDone(w)
         \/ CountLoad(w) \/ CountStore(w)
  PROVE  Kept
<1>0. /\ worker \in [Workers -> WorkerState] /\ worker[w] \in WorkerState
      /\ sock \in [Conns -> Socket] /\ count \in 0 .. CountMod - 1 /\ EventInv
      /\ CountMod \in Nat \ {0}
  BY ServerAssumption DEF TypeOK, RunInv
<1>1. ASSUME NEW p \in {"init", "loop", "accept", "free"} \cup Handling,
             worker' = [worker EXCEPT ![w].pc = p], reg' = reg
      PROVE  EventInv'
  BY <1>0, <1>1, EventFrame DEF WorkerState
<1>2. CASE WorkerStart(w)
  <2> DEFINE r == [worker[w] EXCEPT !.pc = "loop"]
  <2>1. worker' = [worker EXCEPT ![w] = r] /\ r \in WorkerState
    BY <1>0, <1>2 DEF WorkerStart, WorkerState
  <2>2. r.conn = worker[w].conn /\ r.slot = worker[w].slot /\ r.pc = "loop"
    BY <1>0 DEF WorkerState
  <2>3. EventInv'
    BY <1>1, <1>2 DEF WorkerStart
  <2> HIDE DEF r
  <2> QED BY <1>0, <1>2, <2>1, <2>2, <2>3, WorkerLocal DEF WorkerStart, Handling, Holding
<1>3. CASE AcceptDone(w)
  <2> DEFINE r == [worker[w] EXCEPT !.pc = "loop"]
  <2>1. worker' = [worker EXCEPT ![w] = r] /\ r \in WorkerState
    BY <1>0, <1>3 DEF AcceptDone, WorkerState
  <2>2. r.conn = worker[w].conn /\ r.slot = worker[w].slot /\ r.pc = "loop"
    BY <1>0 DEF WorkerState
  <2>3. EventInv'
    BY <1>1, <1>3 DEF AcceptDone
  <2> HIDE DEF r
  <2> QED BY <1>0, <1>3, <2>1, <2>2, <2>3, WorkerLocal DEF AcceptDone, Handling, Holding
<1>4. CASE handle_accept_read(w)
  <2> DEFINE r == [worker[w] EXCEPT !.pc = "accept", !.batch = @ \ {AcceptEvent}]
  <2>1. worker' = [worker EXCEPT ![w] = r] /\ r \in WorkerState
    BY <1>0, <1>4 DEF handle_accept_read, WorkerState
  <2>2. r.conn = worker[w].conn /\ r.slot = worker[w].slot /\ r.pc = "accept"
        /\ r.batch \subseteq worker[w].batch
    BY <1>0 DEF WorkerState
  <2> HIDE DEF r
  <2>3. EventInv'
    BY <1>0, <1>4, <2>1, <2>2, EventFrame DEF handle_accept_read
  <2> QED BY <1>0, <1>4, <2>1, <2>2, <2>3, WorkerLocal
          DEF handle_accept_read, Dispatch, Handling, Holding
<1>5. CASE CountLoad(w)
  <2> DEFINE r == [worker[w] EXCEPT !.pc = "store", !.tmp = count]
  <2>1. worker' = [worker EXCEPT ![w] = r] /\ r \in WorkerState
    BY <1>0, <1>5 DEF CountLoad, WorkerState, Handling
  <2>2. r.conn = worker[w].conn /\ r.slot = worker[w].slot /\ r.pc = "store"
        /\ r.batch \subseteq worker[w].batch
    BY <1>0 DEF WorkerState
  <2> HIDE DEF r
  <2>3. EventInv'
    BY <1>0, <1>5, <2>1, <2>2, EventFrame DEF CountLoad
  <2> QED BY <1>0, <1>5, <2>1, <2>2, <2>3, WorkerLocal DEF CountLoad, Handling, Holding
<1>6. CASE CountStore(w)
  <2> DEFINE r == [worker[w] EXCEPT !.pc = "push"]
  <2>1. worker' = [worker EXCEPT ![w] = r] /\ r \in WorkerState
    BY <1>0, <1>6 DEF CountStore, WorkerState, Handling
  <2>2. r.conn = worker[w].conn /\ r.slot = worker[w].slot /\ r.pc = "push"
        /\ r.batch \subseteq worker[w].batch
    BY <1>0 DEF WorkerState
  <2>3. count' \in 0 .. CountMod - 1
    <3>1. worker[w].tmp + 1 \in Nat
      BY SMT, <1>0 DEF WorkerState
    <3> QED BY SMT, <1>0, <1>6, <3>1 DEF CountStore
  <2> HIDE DEF r
  <2>4. EventInv'
    BY <1>0, <1>6, <2>1, <2>2, EventFrame DEF CountStore
  <2> QED BY <1>0, <1>6, <2>1, <2>2, <2>3, <2>4, WorkerLocal DEF CountStore, Handling, Holding
<1>7. CASE WorkerEpollWait(w)
  <2>1. PICK b \in SUBSET Ready(w) : worker' = [worker EXCEPT ![w].batch = b]
    BY <1>7 DEF WorkerEpollWait
  <2>2. \A e \in b : \/ e = AcceptEvent
                     \/ \E c \in Conns : /\ reg[c].epoll = w
                                         /\ Kind(c) # "none"
                                         /\ e = [conn |-> c, slot |-> reg[c].slot, kind |-> Kind(c)]
    BY DEF Ready
  <2>3. \A c \in Conns : Kind(c) \in {reg[c].dir, "err", "none"} /\ Kind(c) \in {"in", "out", "err", "none"}
    BY DEF Kind
  <2>4. AcceptEvent \in EpollEvent /\ AcceptEvent.conn = Listener /\ Listener \notin Conns
    BY SlotsType, ServerAssumption DEF AcceptEvent, EpollEvent
  <2>5. b \subseteq EpollEvent
    BY SMT, <2>2, <2>3, <2>4 DEF EpollEvent, TypeOK, Registration
  <2> DEFINE r == [worker[w] EXCEPT !.batch = b]
  <2>6. worker' = [worker EXCEPT ![w] = r] /\ r \in WorkerState
    BY <1>0, <2>1, <2>5 DEF WorkerState
  <2>7. r.conn = worker[w].conn /\ r.slot = worker[w].slot /\ r.pc = worker[w].pc /\ r.batch = b
    BY <1>0 DEF WorkerState
  <2> HIDE DEF r
  <2>8. \A e \in b : /\ e # AcceptEvent => /\ e.conn \in Conns
                                           /\ reg[e.conn].epoll = w
                                           /\ reg[e.conn].slot = e.slot
                                           /\ e.kind \in {reg[e.conn].dir, "err"}
                     /\ \A f \in b : e.conn = f.conn => e = f
    BY SMT, <2>2, <2>3, <2>4
  <2>9. EventInv'
    <3>1. reg' = reg /\ worker'[w].batch = b
      BY <1>0, <1>7, <2>6, <2>7 DEF WorkerEpollWait
    <3>2. \A v \in Workers : v # w => worker'[v].batch = worker[v].batch
      BY <1>0, <2>6
    <3>3. AcceptEvent' = AcceptEvent
      BY DEF AcceptEvent
    <3> QED BY SMT, <1>0, <2>8, <3>1, <3>2, <3>3 DEF EventInv
  <2> QED BY <1>0, <1>7, <2>6, <2>7, <2>9, WorkerLocal DEF WorkerEpollWait
<1> QED BY <1>2, <1>3, <1>4, <1>5, <1>6, <1>7

------------------------------------------------------------------------------
(* Accepting a connection *)

\* There is a SocketContext left for a descriptor that is not registered: each
\* of those in use is one that some worker has yet to free.
LEMMA FreeSlotExists ==
  ASSUME TypeOK, ContextInv, NEW c \in Conns, ~Registered(c)
  PROVE  FreeSlot(c) \in Slots /\ sctx[c][FreeSlot(c)] = "none"
<1> DEFINE used == {s \in Slots : sctx[c][s] # "none"}
           F == {w \in Workers : worker[w].conn = c /\ worker[w].pc \in Holding}
           f == [w \in F |-> worker[w].slot]
<1>1. \A w \in F : worker[w].slot \in used
  BY SMT DEF TypeOK, WorkerState, ContextInv, ContextRight, Freeing
<1>2. \A s \in used : \E w \in F : worker[w].slot = s
  BY SMT DEF ContextInv, ContextRight, Freeing
<1>3. f \in Surjection(F, used)
  BY <1>1, <1>2 DEF Surjection
<1>4. IsFiniteSet(Workers) /\ F \in SUBSET Workers
  BY ServerAssumption
<1> HIDE DEF f, F, used
<1>5. IsFiniteSet(F) /\ Cardinality(F) <= Cardinality(Workers)
  BY <1>4, FS_Subset
<1>6. IsFiniteSet(used) /\ Cardinality(used) <= Cardinality(F)
  BY <1>3, <1>5, FS_Surjection
<1>7. /\ Cardinality(used) \in Nat /\ Cardinality(F) \in Nat
      /\ Cardinality(Workers) \in Nat
  BY <1>4, <1>5, <1>6, FS_CardinalityType
<1>8. Cardinality(Slots) = Cardinality(Workers) + 1
  <2> DEFINE n == Cardinality(Workers)
  <2>1. 0 \in Int /\ n \in Int /\ n >= 0
    BY SMT, <1>7
  <2> HIDE DEF n
  <2>2. Cardinality(0 .. n) = IF 0 > n THEN 0 ELSE n - 0 + 1
    BY <2>1, FS_Interval
  <2>3. Cardinality(0 .. n) = n + 1
    BY SMT, <2>1, <2>2
  <2> QED BY <2>3 DEF n, Slots
<1>9. used # Slots
  BY SMT, <1>5, <1>6, <1>7, <1>8
<1>10. \E s \in Slots : sctx[c][s] = "none"
  BY <1>9 DEF used
<1> QED BY <1>10 DEF FreeSlot

\* A connection that is closed is in nobody's hands.
LEMMA AcceptKeeps ==
  ASSUME TypeOK, RunInv, Running, NEW w \in Workers, NEW c \in Conns, AcceptOne(w, c)
  PROVE  Kept
<1> DEFINE s0 == FreeSlot(c)
           q == TimerOn(init_request_context(w), "TOTAL")
           g == [epoll |-> w, dir |-> "in", slot |-> s0]
<1>0. /\ sock[c].state = "backlog" /\ ~req[c].live /\ ~Registered(c) /\ Phase(c) = "closed"
      /\ w # NoWorker
  BY ServerAssumption DEF AcceptOne, Backlog, RunInv, ConnInv, Phase
<1>1. s0 \in Slots /\ sctx[c][s0] = "none"
  BY <1>0, FreeSlotExists DEF RunInv
<1>2. exited' = "no"
  <2>1. ~(reg[c].epoll = w)
    BY <1>0 DEF Registered
  <2> QED BY <2>1, OneCheck DEF AcceptOne
<1>3. /\ req' = [req EXCEPT ![c] = q]
      /\ reg' = [reg EXCEPT ![c] = g]
      /\ sctx' = [sctx EXCEPT ![c][s0] = "read"]
      /\ sock' = [sock EXCEPT ![c].state = "open"]
      /\ active' = active + 1
      /\ UNCHANGED <<queue, event, worker, actor, count>>
  BY DEF AcceptOne
<1>4. q \in RequestContext /\ g \in Registration
  <2>1. init_request_context(w) \in RequestContext
    BY SMT, ServerAssumption DEF RequestContext, init_request_context
  <2> QED BY <1>1, <2>1, TimerOnFields DEF Registration
<1>7. /\ q.live /\ q.epoll_info = w /\ q.out = 0 /\ q.timers = {"TOTAL"}
      /\ g.epoll = w /\ g.dir = "in" /\ g.slot = s0
  BY DEF TimerOn, init_request_context
<1> HIDE DEF q, g, s0
<1>5. TypeOK'
  <2>1. sctx' \in [Conns -> [Slots -> {"none", "read", "write"}]]
    BY <1>1, <1>3 DEF TypeOK
  <2>2. sock' \in [Conns -> Socket]
    <3>1. [sock[c] EXCEPT !.state = "open"] \in Socket
      <4>1. PICK k \in Socket : k = sock[c]
        BY DEF TypeOK
      <4>2. [k EXCEPT !.state = "open"] \in Socket
        BY DEF Socket
      <4> QED BY <4>1, <4>2
    <3> QED BY <1>3, <3>1 DEF TypeOK
  <2>3. req' \in [Conns -> RequestContext] /\ reg' \in [Conns -> Registration]
    BY <1>3, <1>4 DEF TypeOK
  <2> QED BY SMT, <1>2, <1>3, <2>1, <2>2, <2>3 DEF TypeOK
<1>6. /\ req'[c] = q /\ reg'[c] = g /\ sock'[c].state = "open"
      /\ sctx'[c] = [sctx[c] EXCEPT ![s0] = "read"]
      /\ \A d \in Conns : d # c => /\ req'[d] = req[d] /\ reg'[d] = reg[d]
                                   /\ sock'[d] = sock[d] /\ sctx'[d] = sctx[d]
  BY <1>3 DEF TypeOK, Socket
<1>8. ConnInv'
  BY SMT, <1>0, <1>6, <1>7 DEF RunInv, ConnInv, Registered
<1>9. /\ Phase(c)' = "epoll"
      /\ \A d \in Conns : d # c => Phase(d)' = Phase(d)
  BY SMT, <1>0, <1>6, <1>7 DEF Phase, Registered
<1>10. PhaseInv'
  BY SMT, <1>0, <1>3, <1>6, <1>7, <1>9 DEF RunInv, PhaseInv, PhaseRight, Held, Queued, Answering
<1>11. ContextInv'
  <2>1. \A d \in Conns : d # c => (Registered(d)' <=> Registered(d))
    BY <1>6 DEF Registered
  <2>2. Registered(c)'
    BY <1>0, <1>6, <1>7 DEF Registered
  <2>3. \A v \in Workers, d \in Conns, s \in Slots : Freeing(v, d, s)' <=> Freeing(v, d, s)
    BY <1>3 DEF Freeing
  <2>4. sctx'[c][s0] = "read" /\ \A s \in Slots : s # s0 => sctx'[c][s] = sctx[c][s]
    BY SMT, <1>1, <1>6 DEF TypeOK
  <2>5. \A v \in Workers : ~Freeing(v, c, s0)
    BY <1>1 DEF RunInv, ContextInv, ContextRight, ContextRight
  <2> SUFFICES ASSUME NEW d \in Conns, NEW s \in Slots
               PROVE  ContextRight(d, s)'
    BY DEF ContextInv
  <2>6. CASE d # c
    BY SMT, <1>6, <2>1, <2>3, <2>6 DEF RunInv, ContextInv, ContextRight, ContextRight
  <2>7. CASE d = c
    <3>1. reg'[c].slot = s0 /\ reg'[c].dir = "in"
      BY <1>6, <1>7
    <3>2. sctx[c][s] # "none" <=> \E v \in Workers : Freeing(v, c, s)
      BY <1>0 DEF RunInv, ContextInv, ContextRight, ContextRight
    <3>3. \A u, v \in Workers : Freeing(u, c, s) /\ Freeing(v, c, s) => u = v
      BY DEF RunInv, ContextInv, ContextRight, ContextRight
    <3> QED BY <2>2, <2>3, <2>4, <2>5, <2>7, <3>1, <3>2, <3>3 DEF ContextRight
  <2> QED BY <2>6, <2>7
<1>12. EventInv'
  <2>1. \A v \in Workers : \A e \in worker[v].batch : e # AcceptEvent => e.conn # c /\ e.conn \in Conns
    BY SMT, <1>0, ServerAssumption DEF RunInv, EventInv, Registered
  <2> QED BY <1>3, <1>6, <2>1, EventFrame DEF RunInv
<1>13. WorkerInv' /\ ActorInv' /\ Announced'
  BY <1>3 DEF RunInv, WorkerInv, ActorInv, Announced
<1>14. active' = Cardinality(Live')
  <2>1. Live' = Live \cup {c} /\ c \notin Live
    BY SMT, <1>0, <1>6, <1>7 DEF Live
  <2>2. IsFiniteSet(Live)
    BY ServerAssumption, FS_Subset DEF Live
  <2> QED BY <1>3, <2>1, <2>2, FS_AddElement DEF RunInv
<1> QED BY <1>2, <1>5, <1>8, <1>10, <1>11, <1>12, <1>13, <1>14, StillRunning DEF RunInv

------------------------------------------------------------------------------
(* Handling an event *)

\* The worker is through with e, and keeps everything else.
LEMMA DoneFields ==
  ASSUME TypeOK, NEW w \in Workers, NEW e \in worker[w].batch, Done(w, e)
  PROVE  /\ worker' \in [Workers -> WorkerState]
         /\ worker'[w].batch = worker[w].batch \ {e}
         /\ \A v \in Workers : /\ worker'[v].pc = worker[v].pc
                               /\ worker'[v].conn = worker[v].conn
                               /\ worker'[v].slot = worker[v].slot
                               /\ v # w => worker'[v].batch = worker[v].batch
<1>1. worker \in [Workers -> WorkerState] /\ worker[w] \in WorkerState
  BY DEF TypeOK
<1> DEFINE r == [worker[w] EXCEPT !.batch = @ \ {e}]
<1>2. worker' = [worker EXCEPT ![w] = r]
  BY <1>1 DEF Done
<1>3. /\ r \in WorkerState
      /\ r.pc = worker[w].pc /\ r.conn = worker[w].conn /\ r.slot = worker[w].slot
      /\ r.batch = worker[w].batch \ {e}
  BY <1>1 DEF WorkerState
<1> HIDE DEF r
<1> QED BY <1>1, <1>2, <1>3

\* What the event is about, and the events left when its registration changes.
LEMMA EventOf ==
  ASSUME TypeOK, RunInv, NEW w \in Workers, NEW e \in worker[w].batch, e # AcceptEvent
  PROVE  /\ e.conn \in Conns
         /\ e.slot \in Slots
         /\ reg[e.conn].epoll = w
         /\ reg[e.conn].slot = e.slot
         /\ Registered(e.conn)
         /\ req[e.conn].live
         /\ req[e.conn].epoll_info = w
         /\ "TOTAL" \in req[e.conn].timers
         /\ "QUEUE" \notin req[e.conn].timers
         /\ Phase(e.conn) = "epoll"
<1>1. e.conn \in Conns /\ reg[e.conn].epoll = w /\ reg[e.conn].slot = e.slot
  BY DEF RunInv, EventInv
<1>2. Registered(e.conn)
  BY <1>1, ServerAssumption DEF Registered
<1>3. e.slot \in Slots
  BY <1>1 DEF TypeOK, Registration
<1> QED BY <1>1, <1>2, <1>3 DEF RunInv, ConnInv, Phase

\* The other events stay fresh when the registration of this one changes.
LEMMA DoneEvents ==
  ASSUME TypeOK, RunInv, NEW w \in Workers, NEW e \in worker[w].batch, e # AcceptEvent,
         worker'[w].batch = worker[w].batch \ {e},
         \A v \in Workers : v # w => worker'[v].batch = worker[v].batch,
         \A d \in Conns : d # e.conn => reg'[d] = reg[d]
  PROVE  EventInv'
<1>1. EventInv /\ reg[e.conn].epoll = w /\ e.conn \in Conns
  BY DEF RunInv, EventInv
<1>2. ASSUME NEW v \in Workers, NEW f \in worker'[v].batch, f # AcceptEvent
      PROVE  reg'[f.conn] = reg[f.conn]
  <2>1. f.conn \in Conns /\ reg[f.conn].epoll = v
    BY <1>1, <1>2 DEF EventInv
  <2>2. f.conn # e.conn
    BY SMT, <1>1, <1>2, <2>1 DEF EventInv
  <2> QED BY <2>1, <2>2
<1> QED BY <1>1, <1>2, EventFrame

\* client_close_connection
LEMMA CloseKeeps ==
  ASSUME TypeOK, RunInv, Running, NEW w \in Workers, NEW e \in worker[w].batch,
         e # AcceptEvent, client_close_connection(w, e.conn, e.slot), Done(w, e),
         UNCHANGED <<queue, event, actor, count>>
  PROVE  Kept
<1> DEFINE c == e.conn
           s0 == e.slot
<1>0. /\ c \in Conns /\ s0 \in Slots /\ reg[c].epoll = w /\ reg[c].slot = s0
      /\ Registered(c) /\ req[c].live /\ "TOTAL" \in req[c].timers /\ Phase(c) = "epoll"
  BY EventOf
<1>1. /\ active' = active - 1
      /\ reg' = [reg EXCEPT ![c] = NoReg]
      /\ req' = [req EXCEPT ![c] = NoReq]
      /\ sock' = [sock EXCEPT ![c] = NoSock]
      /\ sctx' = [sctx EXCEPT ![c][s0] = "none"]
  BY DEF client_close_connection, server_stats_decr_active_requests, delete_epoll_event
<1>2. exited' = "no"
  <2>1. ~EndFails(c, "TOTAL") /\ ~ModFails(c, w)
    BY <1>0 DEF EndFails, ModFails
  <2>2. Checks(<< <<EndFails(c, "TOTAL"), "timer_end">>, <<ModFails(c, w), "epoll_del">> >>)
    BY DEF client_close_connection
  <2> HIDE DEF c
  <2> QED BY <2>1, <2>2, TwoChecks
<1>3. /\ worker' \in [Workers -> WorkerState]
      /\ worker'[w].batch = worker[w].batch \ {e}
      /\ \A v \in Workers : /\ worker'[v].pc = worker[v].pc
                            /\ worker'[v].conn = worker[v].conn
                            /\ worker'[v].slot = worker[v].slot
                            /\ v # w => worker'[v].batch = worker[v].batch
  BY DoneFields
<1>4. /\ NoReg \in Registration /\ NoReq \in RequestContext /\ NoSock \in Socket
      /\ NoReg.epoll = NoWorker /\ NoReg.dir = "none" /\ ~NoReq.live /\ NoReq.out = 0
      /\ NoSock.state = "free"
  BY SMT, SlotsType, ServerAssumption
     DEF NoReg, NoReq, NoSock, Registration, RequestContext, Socket
<1>5. /\ req'[c] = NoReq /\ reg'[c] = NoReg /\ sock'[c] = NoSock
      /\ sctx'[c][s0] = "none"
      /\ \A s \in Slots : s # s0 => sctx'[c][s] = sctx[c][s]
      /\ \A d \in Conns : d # c => /\ req'[d] = req[d] /\ reg'[d] = reg[d]
                                   /\ sock'[d] = sock[d] /\ sctx'[d] = sctx[d]
  BY <1>0, <1>1 DEF TypeOK
<1> HIDE DEF c, s0
<1>6. active' = Cardinality(Live') /\ active' \in Nat
  <2>1. Live' = Live \ {c} /\ c \in Live
    BY <1>0, <1>4, <1>5 DEF Live
  <2>2. IsFiniteSet(Live)
    BY ServerAssumption, FS_Subset DEF Live
  <2>3. Cardinality(Live') = active - 1 /\ IsFiniteSet(Live')
    BY <2>1, <2>2, FS_RemoveElement DEF RunInv
  <2> QED BY <1>1, <2>3, FS_CardinalityType
<1>7. TypeOK'
  <2>1. sctx' \in [Conns -> [Slots -> {"none", "read", "write"}]]
    BY <1>0, <1>1 DEF TypeOK
  <2>2. /\ sock' \in [Conns -> Socket] /\ req' \in [Conns -> RequestContext]
        /\ reg' \in [Conns -> Registration]
    BY <1>1, <1>4 DEF TypeOK
  <2> QED BY <1>2, <1>3, <1>6, <2>1, <2>2 DEF TypeOK
<1>8. ConnInv'
  BY SMT, <1>4, <1>5 DEF RunInv, ConnInv, Registered
<1>9. /\ Phase(c)' = "closed"
      /\ \A d \in Conns : d # c => Phase(d)' = Phase(d)
  BY <1>4, <1>5 DEF Phase, Registered
<1>10. PhaseInv'
  <2>1. /\ \A v \in Workers, d \in Conns : Held(v, d)' <=> Held(v, d)
        /\ \A a \in Actors, d \in Conns : Answering(a, d)' <=> Answering(a, d)
        /\ \A a \in Actors, v \in Workers, i \in Nat, d \in Conns :
             Queued(a, v, i, d)' <=> Queued(a, v, i, d)
    BY <1>3 DEF Held, Answering, Queued
  <2>2. ASSUME NEW d \in Conns, d # c
        PROVE  PhaseRight(d)'
    BY <1>5, <1>9, <2>1, <2>2, PhaseFrame DEF RunInv, PhaseInv
  <2>3. PhaseRight(c)'
    <3>1. PhaseRight(c)
      BY <1>0 DEF RunInv, PhaseInv
    <3>2. /\ \A v \in Workers : ~Held(v, c)
          /\ \A a \in Actors : ~Answering(a, c)
          /\ \A a \in Actors, v \in Workers, i \in Nat : ~Queued(a, v, i, c)
      BY <1>0, <3>1 DEF PhaseRight
    <3>3. /\ \A v \in Workers : ~Held(v, c)'
          /\ \A a \in Actors : ~Answering(a, c)'
          /\ \A a \in Actors, v \in Workers, i \in Nat : ~Queued(a, v, i, c)'
      BY <1>0, <2>1, <3>2
    <3> QED BY <1>9, <3>3 DEF PhaseRight
  <2> QED BY <2>2, <2>3 DEF PhaseInv
<1>11. ContextInv'
  <2>1. ~Registered(c)' /\ \A d \in Conns : d # c => (Registered(d)' <=> Registered(d))
    BY <1>4, <1>5 DEF Registered
  <2>2. \A v \in Workers, d \in Conns, s \in Slots : Freeing(v, d, s)' <=> Freeing(v, d, s)
    BY <1>3 DEF Freeing
  <2> SUFFICES ASSUME NEW d \in Conns, NEW s \in Slots
               PROVE  ContextRight(d, s)'
    BY DEF ContextInv
  <2>3. ContextRight(d, s)
    BY DEF RunInv, ContextInv
  <2>4. CASE d # c
    BY <1>5, <2>1, <2>2, <2>3, <2>4 DEF ContextRight
  <2>5. CASE d = c
    BY <1>0, <1>5, <2>1, <2>2, <2>3, <2>5 DEF ContextRight
  <2> QED BY <2>4, <2>5
<1>12. EventInv'
  BY SMT, <1>3, <1>5, DoneEvents DEF c
<1>13. WorkerInv' /\ ActorInv' /\ Announced'
  BY SMT, <1>3 DEF RunInv, WorkerInv, ActorInv, Announced
<1> QED BY <1>2, <1>6, <1>7, <1>8, <1>10, <1>11, <1>12, <1>13, StillRunning DEF RunInv

\* The connection stays with its epoll instance, for reading or for writing.
LEMMA StayKeeps ==
  ASSUME TypeOK, RunInv, Running, NEW w \in Workers, NEW e \in worker[w].batch,
         e # AcceptEvent, Done(w, e),
         NEW q \in RequestContext, NEW dir \in {"in", "out"}, NEW x \in {"read", "write"},
         x = IF dir = "in" THEN "read" ELSE "write",
         q.live, q.epoll_info = w, "TOTAL" \in q.timers, "QUEUE" \notin q.timers,
         dir = "in" => q.out = 0,
         req' = [req EXCEPT ![e.conn] = q],
         reg' = [reg EXCEPT ![e.conn] = [epoll |-> w, dir |-> dir, slot |-> e.slot]],
         sctx' = [sctx EXCEPT ![e.conn][e.slot] = x],
         sock' \in [Conns -> Socket],
         \A d \in Conns : sock'[d].state = "open" <=> sock[d].state = "open",
         UNCHANGED <<queue, event, actor, count, active>>, exited' = "no"
  PROVE  Kept
<1> DEFINE c == e.conn
           s0 == e.slot
           g == [epoll |-> w, dir |-> dir, slot |-> s0]
<1>0. /\ c \in Conns /\ s0 \in Slots /\ reg[c].epoll = w /\ reg[c].slot = s0
      /\ Registered(c) /\ req[c].live /\ Phase(c) = "epoll"
  BY SMT, EventOf
<1>1. /\ worker' \in [Workers -> WorkerState]
      /\ worker'[w].batch = worker[w].batch \ {e}
      /\ \A v \in Workers : /\ worker'[v].pc = worker[v].pc
                            /\ worker'[v].conn = worker[v].conn
                            /\ worker'[v].slot = worker[v].slot
                            /\ v # w => worker'[v].batch = worker[v].batch
  BY DoneFields
<1>2. g \in Registration /\ g.epoll = w /\ g.dir = dir /\ g.slot = s0 /\ w # NoWorker
  BY <1>0, ServerAssumption DEF Registration
<1>3. /\ req'[c] = q /\ reg'[c] = g /\ sctx'[c][s0] = x
      /\ \A s \in Slots : s # s0 => sctx'[c][s] = sctx[c][s]
      /\ \A d \in Conns : d # c => /\ req'[d] = req[d] /\ reg'[d] = reg[d]
                                   /\ sctx'[d] = sctx[d]
  BY <1>0 DEF TypeOK
<1>4. TypeOK'
  <2>1. sctx' \in [Conns -> [Slots -> {"none", "read", "write"}]]
    BY <1>0 DEF TypeOK
  <2>2. req' \in [Conns -> RequestContext] /\ reg' \in [Conns -> Registration]
    BY <1>2 DEF TypeOK
  <2> QED BY <1>1, <2>1, <2>2 DEF TypeOK
<1> HIDE DEF c, s0, g
<1>5. ConnInv'
  <2>1. ConnInv
    BY DEF RunInv
  <2> QED BY SMT, <1>0, <1>2, <1>3, <2>1 DEF ConnInv, Registered
<1>6. Registered(c)' /\ \A d \in Conns : d # c => (Registered(d)' <=> Registered(d))
  BY <1>2, <1>3 DEF Registered
<1>7. Phase(c)' = "epoll" /\ \A d \in Conns : d # c => Phase(d)' = Phase(d)
  BY <1>3, <1>6 DEF Phase
<1>8. PhaseInv'
  <2>1. /\ \A v \in Workers, d \in Conns : Held(v, d)' <=> Held(v, d)
        /\ \A a \in Actors, d \in Conns : Answering(a, d)' <=> Answering(a, d)
        /\ \A a \in Actors, v \in Workers, i \in Nat, d \in Conns :
             Queued(a, v, i, d)' <=> Queued(a, v, i, d)
    BY <1>1 DEF Held, Answering, Queued
  <2>2. ASSUME NEW d \in Conns, d # c
        PROVE  PhaseRight(d)'
    BY <1>3, <1>7, <2>1, <2>2, PhaseFrame DEF RunInv, PhaseInv
  <2>3. PhaseRight(c)'
    <3>1. PhaseRight(c)
      BY <1>0 DEF RunInv, PhaseInv
    <3>2. /\ \A v \in Workers : ~Held(v, c)
          /\ \A a \in Actors : ~Answering(a, c)
          /\ \A a \in Actors, v \in Workers, i \in Nat : ~Queued(a, v, i, c)
      BY <1>0, <3>1 DEF PhaseRight
    <3>3. /\ \A v \in Workers : ~Held(v, c)'
          /\ \A a \in Actors : ~Answering(a, c)'
          /\ \A a \in Actors, v \in Workers, i \in Nat : ~Queued(a, v, i, c)'
      BY <1>0, <2>1, <3>2
    <3> QED BY <1>7, <3>3 DEF PhaseRight
  <2> QED BY <2>2, <2>3 DEF PhaseInv
<1>9. ContextInv'
  <2>1. \A v \in Workers, d \in Conns, s \in Slots : Freeing(v, d, s)' <=> Freeing(v, d, s)
    BY <1>1 DEF Freeing
  <2> SUFFICES ASSUME NEW d \in Conns, NEW s \in Slots
               PROVE  ContextRight(d, s)'
    BY DEF ContextInv
  <2>2. ContextRight(d, s)
    BY DEF RunInv, ContextInv
  <2>3. CASE d # c
    BY SMT, <1>3, <1>6, <2>1, <2>2, <2>3 DEF ContextRight
  <2>4. CASE d = c
    BY SMT, <1>0, <1>2, <1>3, <1>6, <2>1, <2>2, <2>4 DEF ContextRight
  <2> QED BY <2>3, <2>4
<1>10. EventInv'
  BY SMT, <1>1, <1>3, DoneEvents DEF c
<1>11. WorkerInv' /\ ActorInv' /\ Announced'
  BY SMT, <1>1 DEF RunInv, WorkerInv, ActorInv, Announced
<1>12. active' = Cardinality(Live')
  <2>1. Live' = Live
    BY SMT, <1>0, <1>3 DEF Live
  <2> QED BY <2>1 DEF RunInv
<1> QED BY <1>4, <1>5, <1>8, <1>9, <1>10, <1>11, <1>12, StillRunning DEF RunInv

\* context_finalize_reset leaves the connection alone.
LEMMA ResetFields ==
  ASSUME NEW r \in RequestContext
  PROVE  /\ context_finalize_reset(r) \in RequestContext
         /\ context_finalize_reset(r).live = r.live
         /\ context_finalize_reset(r).epoll_info = r.epoll_info
         /\ context_finalize_reset(r).out = 0
         /\ context_finalize_reset(r).timers = {}
<1>0. RespUnits \in Nat
  BY ServerAssumption
<1> DEFINE p == [r EXCEPT !.out = 0]
           q == [p EXCEPT !.timers = {}]
<1>1. p \in RequestContext /\ p.live = r.live /\ p.epoll_info = r.epoll_info /\ p.out = 0
  BY SMT, <1>0 DEF RequestContext
<1>2. q = context_finalize_reset(r)
  BY DEF context_finalize_reset
<1> HIDE DEF p
<1>3. {} \in SUBSET {"TOTAL", "QUEUE"}
  OBVIOUS
<1>4. q \in RequestContext /\ q.live = p.live /\ q.epoll_info = p.epoll_info /\ q.out = p.out
      /\ q.timers = {}
  BY <1>1, <1>3 DEF RequestContext
<1> QED BY <1>1, <1>2, <1>4

\* Every handler that ends with the event, whatever becomes of the connection.
LEMMA EventKeeps ==
  ASSUME TypeOK, RunInv, Running, NEW w \in Workers, NEW e \in worker[w].batch,
         \/ client_handle_error(w, e) \/ ReadError(w, e) \/ ReadBusy(w, e)
         \/ WriteBusy(w, e) \/ WriteError(w, e) \/ WriteSignal(w, e) \/ WriteFinish(w, e)
  PROVE  Kept
<1> DEFINE c == e.conn
<1>0. e # AcceptEvent
  BY SMT DEF client_handle_error, ReadError, ReadBusy, ReadEvent, WriteBusy, WriteError,
         WriteSignal, WriteFinish, WriteEvent, AcceptEvent
<1>1. /\ c \in Conns /\ e.slot \in Slots /\ reg[c].epoll = w /\ reg[c].slot = e.slot
      /\ req[c].live /\ req[c].epoll_info = w
      /\ "TOTAL" \in req[c].timers /\ "QUEUE" \notin req[c].timers
  BY <1>0, EventOf
<1>2. /\ req[c] \in RequestContext /\ sock[c] \in Socket /\ reg[c] \in Registration
      /\ sock \in [Conns -> Socket] /\ TxCap \in Nat /\ RespUnits \in Nat
      /\ worker \in [Workers -> WorkerState] /\ worker[w] \in WorkerState
  BY <1>1, ServerAssumption DEF TypeOK
<1>3. CASE client_handle_error(w, e)
  BY <1>0, <1>3, CloseKeeps DEF client_handle_error
<1>4. CASE ReadError(w, e)
  BY <1>0, <1>4, CloseKeeps DEF ReadError
<1>5. CASE WriteError(w, e)
  BY <1>0, <1>5, CloseKeeps DEF WriteError
<1>6. CASE WriteSignal(w, e)
  <2>1. exited' = "sigpipe" /\ TypeOK'
    BY <1>6 DEF WriteSignal, TypeOK
  <2> QED BY <2>1 DEF Kept, NoCheckFails, OverflowNeedsLoad, Running
<1>7. CASE ReadBusy(w, e)
  <2> DEFINE r == [worker[w] EXCEPT !.batch = @ \ {e}]
  <2>1. worker' = [worker EXCEPT ![w] = r] /\ r \in WorkerState
    BY <1>2, <1>7 DEF ReadBusy, Done, WorkerState
  <2>2. r.conn = worker[w].conn /\ r.slot = worker[w].slot /\ r.pc = worker[w].pc
        /\ r.batch \subseteq worker[w].batch
    BY <1>2 DEF WorkerState
  <2> HIDE DEF r
  <2>3. EventInv'
    BY <1>2, <1>7, <2>1, <2>2, EventFrame DEF ReadBusy, RunInv
  <2>4. sock' = [sock EXCEPT ![c].rx = FALSE]
    BY <1>7 DEF ReadBusy
  <2> HIDE DEF c
  <2>5. /\ sock' \in [Conns -> Socket]
        /\ \A d \in Conns : sock'[d].state = "open" <=> sock[d].state = "open"
    BY <1>1, <1>2, <2>4 DEF Socket
  <2>6. count' \in 0 .. CountMod - 1
    BY <1>7 DEF ReadBusy, TypeOK
  <2> QED BY <1>7, <2>1, <2>2, <2>3, <2>5, <2>6, WorkerLocal DEF ReadBusy
<1>8. ASSUME WriteEvent(w, e)
      PROVE  /\ reg[c].dir = "out"
             /\ reg = [reg EXCEPT ![c] = [epoll |-> w, dir |-> "out", slot |-> e.slot]]
             /\ sctx = [sctx EXCEPT ![c][e.slot] = "write"]
  <2>1. reg[c].dir = "out"
    BY <1>0, <1>8 DEF WriteEvent, RunInv, EventInv
  <2>2. reg[c] = [epoll |-> w, dir |-> "out", slot |-> e.slot]
    BY <1>1, <1>2, <2>1 DEF Registration
  <2>3. sctx[c][e.slot] = "write"
    BY <1>8 DEF WriteEvent
  <2> HIDE DEF c
  <2> QED BY <1>1, <2>1, <2>2, <2>3 DEF TypeOK
<1>9. /\ Sent(c) \in Nat /\ Sent(c) <= req[c].out /\ sock[c].tx + Sent(c) \in 0 .. TxCap
      /\ [sock[c] EXCEPT !.tx = @ + Sent(c)] \in Socket
      /\ [sock[c] EXCEPT !.tx = @ + Sent(c)].state = sock[c].state
  <2> HIDE DEF c
  <2>1. req[c].out \in Nat /\ sock[c].tx \in 0 .. TxCap
    BY SMT, <1>2 DEF RequestContext, Socket
  <2>2. Sent(c) \in Nat /\ Sent(c) <= req[c].out /\ sock[c].tx + Sent(c) \in 0 .. TxCap
    BY SMT, <1>2, <2>1 DEF Sent
  <2> QED BY <1>2, <2>2 DEF Socket
<1>10. ASSUME sock' = [sock EXCEPT ![c].tx = @ + Sent(c)]
       PROVE  /\ sock' \in [Conns -> Socket]
              /\ \A d \in Conns : sock'[d].state = "open" <=> sock[d].state = "open"
  <2> DEFINE k == [sock[c] EXCEPT !.tx = @ + Sent(c)]
  <2>1. sock' = [sock EXCEPT ![c] = k]
    BY <1>10
  <2>2. k \in Socket /\ k.state = sock[c].state
    BY <1>9
  <2> HIDE DEF k, c
  <2> QED BY <1>1, <1>2, <2>1, <2>2
<1>11. CASE WriteBusy(w, e)
  <2> DEFINE q == [req[c] EXCEPT !.out = @ - Sent(c)]
  <2>1. q \in RequestContext /\ q.live = req[c].live /\ q.epoll_info = req[c].epoll_info
        /\ q.timers = req[c].timers
    <3> HIDE DEF c
    <3>1. req[c].out - Sent(c) \in 0 .. RespUnits
      BY SMT, <1>2, <1>9 DEF RequestContext
    <3> QED BY <1>2, <3>1 DEF RequestContext
  <2>2. /\ req' = [req EXCEPT ![c] = q]
        /\ reg' = [reg EXCEPT ![c] = [epoll |-> w, dir |-> "out", slot |-> e.slot]]
        /\ sctx' = [sctx EXCEPT ![c][e.slot] = "write"]
    BY <1>8, <1>11 DEF WriteBusy
  <2>3. /\ Done(w, e) /\ UNCHANGED <<queue, event, actor, count, active>> /\ exited' = "no"
        /\ sock' = [sock EXCEPT ![c].tx = @ + Sent(c)]
    BY <1>11 DEF WriteBusy, Running
  <2>4. "write" = IF "out" = "in" THEN "read" ELSE "write"
    OBVIOUS
  <2> HIDE DEF q
  <2> QED BY <1>0, <1>1, <1>10, <2>1, <2>2, <2>3, <2>4, StayKeeps
<1>12. CASE WriteFinish(w, e)
  <2>1. CASE client_close_connection(w, e.conn, e.slot)
    BY <1>0, <1>12, <2>1, CloseKeeps DEF WriteFinish
  <2>2. CASE /\ client_reset_connection(w, e.conn, e.slot)
             /\ sock' = [sock EXCEPT ![e.conn].tx = @ + Sent(e.conn)]
             /\ UNCHANGED active
    <3> DEFINE q0 == context_finalize_reset(req[c])
               q == TimerOn(q0, "TOTAL")
    <3>1. /\ q0 \in RequestContext /\ q0.live = req[c].live /\ q0.out = 0
          /\ q0.epoll_info = req[c].epoll_info /\ q0.timers = {}
      BY <1>2, ResetFields
    <3> HIDE DEF q0
    <3>2. /\ q \in RequestContext /\ q.live = q0.live /\ q.out = q0.out
          /\ q.epoll_info = q0.epoll_info /\ q.timers = q0.timers \cup {"TOTAL"}
      BY <3>1, TimerOnFields
    <3>3. /\ req' = [req EXCEPT ![c] = q]
          /\ reg' = [reg EXCEPT ![c] = [epoll |-> w, dir |-> "in", slot |-> e.slot]]
          /\ sctx' = [sctx EXCEPT ![c][e.slot] = "read"]
      BY <1>1, <2>2 DEF client_reset_connection, q0
    <3>4. exited' = "no"
      <4>1. ~EndFails(c, "TOTAL") /\ ~ModFails(c, w)
        BY <1>1 DEF EndFails, ModFails
      <4>2. Checks(<< <<EndFails(c, "TOTAL"), "timer_end">>, <<ModFails(c, w), "epoll_mod">> >>)
        BY <2>2 DEF client_reset_connection
      <4> HIDE DEF c
      <4> QED BY <4>1, <4>2, TwoChecks
    <3> HIDE DEF q
    <3>5. Done(w, e) /\ UNCHANGED <<queue, event, actor, count, active>>
      BY <1>12, <2>2 DEF WriteFinish
    <3> QED BY ZenonT(30), <1>0, <1>1, <1>10, <2>2, <3>1, <3>2, <3>3, <3>4, <3>5, StayKeeps
  <2> QED BY <1>12, <2>1, <2>2 DEF WriteFinish
<1> QED BY <1>3, <1>4, <1>5, <1>6, <1>7, <1>11, <1>12

------------------------------------------------------------------------------
(* Handing a request over *)

\* client_handle_read up to the deregistration: from the epoll instance to the
\* worker.
LEMMA ReadFinishKeeps ==
  ASSUME TypeOK, RunInv, Running, NEW w \in Workers, NEW e \in worker[w].batch,
         ReadFinish(w, e)
  PROVE  Kept
<1> DEFINE c == e.conn
           s0 == e.slot
           r == [worker[w] EXCEPT !.pc = "load", !.batch = @ \ {e}, !.conn = c, !.slot = s0]
<1>0. e # AcceptEvent /\ worker[w].pc = "loop" /\ e.kind = "in" /\ sctx[c][s0] = "read"
  BY SMT DEF ReadFinish, ReadEvent, Dispatch, AcceptEvent
<1>1. /\ c \in Conns /\ s0 \in Slots /\ reg[c].epoll = w /\ reg[c].slot = s0
      /\ Registered(c) /\ req[c].live /\ req[c].epoll_info = w /\ Phase(c) = "epoll"
      /\ "TOTAL" \in req[c].timers /\ "QUEUE" \notin req[c].timers
  BY <1>0, EventOf
<1>2. reg[c].dir = "in" /\ req[c].out = 0
  BY SMT, <1>0, <1>1 DEF RunInv, EventInv, ConnInv
<1>3. PICK k \in BOOLEAN : req' = [req EXCEPT ![c].keep = k]
  BY DEF ReadFinish
<1> DEFINE q == [req[c] EXCEPT !.keep = k]
<1>4. /\ q \in RequestContext /\ q.live = req[c].live /\ q.epoll_info = req[c].epoll_info
      /\ q.out = req[c].out /\ q.timers = req[c].timers
  <2>1. req[c] \in RequestContext
    BY <1>1 DEF TypeOK
  <2> HIDE DEF c
  <2> QED BY <2>1 DEF RequestContext
<1>5. /\ r \in WorkerState /\ r.pc = "load" /\ r.conn = c /\ r.slot = s0
      /\ r.batch = worker[w].batch \ {e}
  <2>1. worker[w] \in WorkerState
    BY DEF TypeOK
  <2> HIDE DEF c, s0
  <2> QED BY <1>1, <2>1 DEF WorkerState, Handling
<1>6. /\ req' = [req EXCEPT ![c] = q] /\ reg' = [reg EXCEPT ![c] = NoReg]
      /\ worker' = [worker EXCEPT ![w] = r] /\ sock' = [sock EXCEPT ![c].rx = FALSE]
      /\ UNCHANGED <<sctx, queue, event, actor, count, active>>
  <2>1. req' = [req EXCEPT ![c] = q]
    BY <1>3
  <2>2. worker' = [worker EXCEPT ![w] = r]
    BY DEF ReadFinish
  <2> HIDE DEF q, r
  <2> QED BY <2>1, <2>2 DEF ReadFinish, delete_epoll_event
<1>7. exited' = "no"
  <2>1. ~ModFails(c, w) /\ Checks(<< <<ModFails(c, w), "epoll_del">> >>)
    BY <1>1 DEF ReadFinish, ModFails
  <2> HIDE DEF c
  <2> QED BY <2>1, OneCheck
<1> HIDE DEF c, s0, r, q
<1>8. NoReg \in Registration /\ NoReg.epoll = NoWorker /\ NoReg.dir = "none"
  BY SlotsType, ServerAssumption DEF NoReg, Registration
<1>9. /\ sock' \in [Conns -> Socket]
      /\ \A d \in Conns : sock'[d].state = sock[d].state
  <2>1. sock \in [Conns -> Socket] /\ sock[c] \in Socket
    BY <1>1 DEF TypeOK
  <2> QED BY <1>1, <1>6, <2>1 DEF Socket
<1>10. TypeOK'
  BY <1>4, <1>5, <1>6, <1>7, <1>8, <1>9 DEF TypeOK
<1>11. /\ req'[c] = q /\ reg'[c] = NoReg /\ worker'[w] = r
       /\ \A d \in Conns : d # c => req'[d] = req[d] /\ reg'[d] = reg[d]
       /\ \A v \in Workers : v # w => worker'[v] = worker[v]
  BY <1>1, <1>6 DEF TypeOK
<1>12. ConnInv'
  <2>1. ConnInv
    BY DEF RunInv
  <2> SUFFICES ASSUME NEW d \in Conns
               PROVE  /\ req'[d].live <=> sock'[d].state = "open"
                      /\ req'[d].live => req'[d].epoll_info \in Workers /\ "TOTAL" \in req'[d].timers
                      /\ Registered(d)' <=> reg'[d].dir # "none"
                      /\ Registered(d)' => /\ req'[d].live
                                           /\ reg'[d].epoll = req'[d].epoll_info
                                           /\ "QUEUE" \notin req'[d].timers
                      /\ reg'[d].dir = "in" => req'[d].out = 0
    BY DEF ConnInv
  <2>2. CASE d = c
    BY <1>1, <1>4, <1>8, <1>9, <1>11, <2>1, <2>2 DEF ConnInv, Registered
  <2>3. CASE d # c
    BY <1>9, <1>11, <2>1, <2>3 DEF ConnInv, Registered
  <2> QED BY <2>2, <2>3
<1>13. ~Registered(c)' /\ \A d \in Conns : d # c => (Registered(d)' <=> Registered(d))
  BY <1>8, <1>11 DEF Registered
<1>14. Phase(c)' = "worker" /\ \A d \in Conns : d # c => Phase(d)' = Phase(d)
  BY <1>1, <1>2, <1>4, <1>11, <1>13 DEF Phase
<1>15. worker[w].conn = NoConn /\ NoConn \notin Conns
  BY <1>0, ServerAssumption DEF RunInv, WorkerInv, Holding, Handling
<1>16. PhaseInv'
  <2>1. /\ \A a \in Actors, d \in Conns : Answering(a, d)' <=> Answering(a, d)
        /\ \A a \in Actors, v \in Workers, i \in Nat, d \in Conns :
             Queued(a, v, i, d)' <=> Queued(a, v, i, d)
    BY <1>6 DEF Answering, Queued
  <2>2. /\ \A v \in Workers, d \in Conns : d # c => (Held(v, d)' <=> Held(v, d))
        /\ \A v \in Workers : v # w => (Held(v, c)' <=> Held(v, c))
        /\ Held(w, c)'
    BY <1>5, <1>11, <1>15 DEF Held, Handling
  <2>3. ASSUME NEW d \in Conns, d # c
        PROVE  PhaseRight(d)'
    BY <1>6, <1>11, <1>14, <2>1, <2>2, <2>3, PhaseFrame DEF RunInv, PhaseInv
  <2>4. PhaseRight(c)'
    <3>1. PhaseRight(c)
      BY <1>1 DEF RunInv, PhaseInv
    <3>2. /\ \A v \in Workers : ~Held(v, c)
          /\ \A a \in Actors : ~Answering(a, c)'
          /\ \A a \in Actors, v \in Workers, i \in Nat : ~Queued(a, v, i, c)'
      BY <1>1, <2>1, <3>1 DEF PhaseRight
    <3>3. req'[c].epoll_info = w /\ \A v \in Workers : Held(v, c)' <=> v = w
      BY <1>1, <1>4, <1>11, <2>2, <3>2
    <3> QED BY <1>14, <3>2, <3>3 DEF PhaseRight
  <2> QED BY <2>3, <2>4 DEF PhaseInv
<1>17. ContextInv'
  <2>1. /\ \A v \in Workers, d \in Conns, s \in Slots :
             v # w => (Freeing(v, d, s)' <=> Freeing(v, d, s))
        /\ \A d \in Conns, s \in Slots : ~Freeing(w, d, s)
        /\ \A d \in Conns, s \in Slots : Freeing(w, d, s)' <=> d = c /\ s = s0
    BY <1>5, <1>11, <1>15 DEF Freeing, Holding, Handling
  <2> SUFFICES ASSUME NEW d \in Conns, NEW s \in Slots
               PROVE  ContextRight(d, s)'
    BY DEF ContextInv
  <2>2. ContextRight(d, s)
    BY DEF RunInv, ContextInv
  <2>3. CASE d # c
    BY <1>6, <1>11, <1>13, <2>1, <2>2, <2>3 DEF ContextRight
  <2>4. CASE d = c
    BY SMT, <1>0, <1>1, <1>6, <1>13, <2>1, <2>2, <2>4 DEF ContextRight
  <2> QED BY <2>3, <2>4
<1>18. EventInv'
  BY SMT, <1>0, <1>5, <1>11, DoneEvents DEF c
<1>19. WorkerInv' /\ ActorInv' /\ Announced'
  BY SMT, <1>1, <1>5, <1>6, <1>11, <1>15 DEF RunInv, WorkerInv, ActorInv, Announced, Holding, Handling
<1>20. active' = Cardinality(Live')
  <2>1. Live' = Live
    BY <1>1, <1>4, <1>11 DEF Live
  <2> QED BY <1>6, <2>1 DEF RunInv
<1> QED BY <1>7, <1>10, <1>12, <1>16, <1>17, <1>18, <1>19, <1>20, StillRunning DEF RunInv

\* free(context): the worker lets the reading context go.
LEMMA FreeContextKeeps ==
  ASSUME TypeOK, RunInv, Running, NEW w \in Workers, FreeContext(w)
  PROVE  Kept
<1> DEFINE c == worker[w].conn
           s0 == worker[w].slot
           r == [worker[w] EXCEPT !.pc = "loop", !.conn = NoConn, !.slot = 0, !.tmp = 0]
<1>0. worker[w] \in WorkerState /\ worker[w].pc = "free"
  BY DEF TypeOK, FreeContext
<1>1. c \in Conns /\ s0 \in Slots /\ Freeing(w, c, s0) /\ NoConn \notin Conns
  BY <1>0, ServerAssumption DEF RunInv, WorkerInv, WorkerState, Freeing, Holding
<1>2. /\ r \in WorkerState /\ r.pc = "loop" /\ r.conn = NoConn
      /\ r.batch = worker[w].batch
  <2>1. 0 \in 0 .. CountMod - 1 /\ 0 \in Slots
    BY SMT, SlotsType, ServerAssumption
  <2> QED BY <1>0, <2>1 DEF WorkerState
<1>3. /\ sctx' = [sctx EXCEPT ![c][s0] = "none"] /\ worker' = [worker EXCEPT ![w] = r]
      /\ UNCHANGED <<sock, reg, req, queue, event, actor, count, active, exited>>
  BY DEF FreeContext, Freed
<1> HIDE DEF c, s0, r
<1>4. /\ worker'[w] = r /\ sctx'[c][s0] = "none"
      /\ \A s \in Slots : s # s0 => sctx'[c][s] = sctx[c][s]
      /\ \A d \in Conns : d # c => sctx'[d] = sctx[d]
      /\ \A v \in Workers : v # w => worker'[v] = worker[v]
  BY <1>1, <1>3 DEF TypeOK
<1>5. TypeOK' /\ exited' = "no"
  <2>1. sctx' \in [Conns -> [Slots -> {"none", "read", "write"}]]
    BY <1>1, <1>3 DEF TypeOK
  <2> QED BY <1>2, <1>3, <2>1 DEF TypeOK, Running
<1>6. ConnInv'
  BY <1>3 DEF RunInv, ConnInv, Registered
<1>7. \A d \in Conns : Phase(d)' = Phase(d) /\ (Registered(d)' <=> Registered(d))
  BY <1>3 DEF Phase, Registered
<1>8. PhaseInv'
  <2>1. /\ \A v \in Workers, d \in Conns : Held(v, d)' <=> Held(v, d)
        /\ \A a \in Actors, d \in Conns : Answering(a, d)' <=> Answering(a, d)
        /\ \A a \in Actors, v \in Workers, i \in Nat, d \in Conns :
             Queued(a, v, i, d)' <=> Queued(a, v, i, d)
    BY <1>0, <1>1, <1>2, <1>3, <1>4 DEF Held, Answering, Queued, Handling
  <2> QED BY <1>3, <1>7, <2>1, PhaseFrame DEF RunInv, PhaseInv
<1>9. ContextInv'
  <2>1. /\ \A v \in Workers, d \in Conns, s \in Slots :
             v # w => (Freeing(v, d, s)' <=> Freeing(v, d, s))
        /\ \A d \in Conns, s \in Slots : ~Freeing(w, d, s)'
        /\ \A d \in Conns, s \in Slots : Freeing(w, d, s) <=> d = c /\ s = s0
    BY <1>0, <1>1, <1>2, <1>4 DEF Freeing, Holding, Handling, c, s0
  <2> SUFFICES ASSUME NEW d \in Conns, NEW s \in Slots
               PROVE  ContextRight(d, s)'
    BY DEF ContextInv
  <2>2. ContextRight(d, s)
    BY DEF RunInv, ContextInv
  <2>3. CASE d # c \/ s # s0
    <3>1. sctx'[d][s] = sctx[d][s]
      BY <1>4, <2>3
    <3>2. \A v \in Workers : Freeing(v, d, s)' <=> Freeing(v, d, s)
      BY <2>1, <2>3
    <3> QED BY <1>3, <1>7, <2>2, <3>1, <3>2 DEF ContextRight
  <2>4. CASE d = c /\ s = s0
    BY SMT, <1>1, <1>3, <1>4, <1>7, <2>1, <2>2, <2>4 DEF ContextRight
  <2> QED BY <2>3, <2>4
<1>10. EventInv'
  BY <1>2, <1>3, <1>4, EventFrame DEF RunInv
<1>11. WorkerInv' /\ ActorInv' /\ Announced'
  BY SMT, <1>2, <1>3, <1>4 DEF RunInv, WorkerInv, ActorInv, Announced, Holding, Handling
<1>12. active' = Cardinality(Live')
  BY <1>3 DEF RunInv, Live
<1> QED BY <1>5, <1>6, <1>8, <1>9, <1>10, <1>11, <1>12, StillRunning DEF RunInv

\* A table with one entry for each actor and worker, after one entry changed.
LEMMA TableEntry ==
  ASSUME NEW X, NEW f \in [Actors -> [Workers -> X]], NEW a \in Actors, NEW w \in Workers,
         NEW x \in X, NEW g, g = [f EXCEPT ![a][w] = x]
  PROVE  /\ g \in [Actors -> [Workers -> X]]
         /\ g[a][w] = x
         /\ \A b \in Actors, v \in Workers : b # a \/ v # w => g[b][v] = f[b][v]
<1> DEFINE h == [f[a] EXCEPT ![w] = x]
<1>1. g = [f EXCEPT ![a] = h]
  OBVIOUS
<1>2. f[a] \in [Workers -> X]
  OBVIOUS
<1>3. h \in [Workers -> X] /\ h[w] = x /\ \A v \in Workers : v # w => h[v] = f[a][v]
  BY <1>2
<1> HIDE DEF h
<1>4. g \in [Actors -> [Workers -> X]] /\ g[a] = h /\ \A b \in Actors : b # a => g[b] = f[b]
  BY <1>1, <1>3
<1> QED BY <1>3, <1>4

\* A full queue: its requests and the one at hand are all open connections.
LEMMA OverflowLoad ==
  ASSUME TypeOK, RunInv, NEW w \in Workers, NEW a \in Actors, NEW c \in Conns,
         Held(w, c), is_full(queue[a][w])
  PROVE  Cardinality(Live) > QueueCap
<1> DEFINE q == queue[a][w]
           S == 1 .. QueueCap
           f == [i \in S |-> q[i]]
<1>0. q \in Seq(Conns) /\ Len(q) = QueueCap /\ QueueCap \in Nat
  BY SMT, ServerAssumption DEF TypeOK, is_full
<1>1. Phase(c) = "worker"
  BY DEF RunInv, PhaseInv, PhaseRight
<1>2. \A i \in S : q[i] \in Conns /\ Queued(a, w, i, q[i])
  BY SMT, <1>0 DEF Queued
<1>3. \A i \in S : Phase(q[i]) = "queue"
  BY SMT, <1>2 DEF RunInv, PhaseInv, PhaseRight
<1>4. \A i \in S : q[i] \in Live \ {c}
  BY <1>1, <1>2, <1>3 DEF Live, Phase
<1>5. \A i, j \in S : q[i] = q[j] => i = j
  BY SMT, <1>2 DEF RunInv, PhaseInv, PhaseRight
<1>6. f \in Injection(S, Live \ {c})
  <2> HIDE DEF q, S
  <2>1. f \in [S -> Live \ {c}]
    BY <1>4
  <2>2. \A i, j \in S : f[i] = f[j] => i = j
    BY <1>5
  <2> QED BY <2>1, <2>2 DEF Injection, IsInjective
<1>7. c \in Live /\ IsFiniteSet(Live)
  BY <1>1, ServerAssumption, FS_Subset DEF Live, Phase
<1>8. IsFiniteSet(Live \ {c}) /\ Cardinality(Live \ {c}) = Cardinality(Live) - 1
  BY <1>7, FS_RemoveElement
<1>9. Cardinality(S) = QueueCap
  <2>1. 1 \in Int /\ QueueCap \in Int
    BY SMT, <1>0
  <2> QED BY SMT, <1>0, <2>1, FS_Interval
<1> HIDE DEF f, S
<1>10. Cardinality(S) <= Cardinality(Live \ {c})
  BY <1>6, <1>8, FS_Injection
<1> QED BY SMT, <1>0, <1>7, <1>8, <1>9, <1>10, FS_CardinalityType

\* The rest of client_handle_read: from the worker to the actor's queue.
LEMMA PushKeeps ==
  ASSUME TypeOK, RunInv, Running, NEW w \in Workers, PushRequest(w)
  PROVE  Kept
<1>0. /\ worker[w] \in WorkerState /\ worker[w].pc = "push"
      /\ worker \in [Workers -> WorkerState]
  BY DEF TypeOK, PushRequest
<1>1. PICK a \in Actors : a = worker[w].tmp % ActorCount
  <2>1. worker[w].tmp \in Nat /\ ActorCount \in Nat \ {0}
    BY SMT, <1>0, ServerAssumption DEF WorkerState
  <2> QED BY SMT, <2>1 DEF Actors
<1>2. PICK c \in Conns : c = worker[w].conn /\ Held(w, c)
  BY <1>0, ServerAssumption DEF RunInv, WorkerInv, WorkerState, Held, Handling, Holding
<1> DEFINE full == is_full(queue[a][w])
           q == TimerOn(req[c], "QUEUE")
           r == [worker[w] EXCEPT !.pc = "free"]
<1>3. Phase(c) = "worker" /\ req[c].epoll_info = w
  BY <1>2 DEF RunInv, PhaseInv, PhaseRight
<1>4. /\ req[c].live /\ ~Registered(c) /\ "QUEUE" \notin req[c].timers /\ req[c].out = 0
      /\ req[c] \in RequestContext
  BY <1>2, <1>3 DEF Phase, TypeOK
<1>5. /\ r \in WorkerState /\ r.pc = "free" /\ r.conn = worker[w].conn
      /\ r.slot = worker[w].slot /\ r.batch = worker[w].batch
  BY <1>0 DEF WorkerState
<1>6. /\ q \in RequestContext /\ q.live = req[c].live /\ q.out = req[c].out
      /\ q.epoll_info = req[c].epoll_info /\ q.timers = req[c].timers \cup {"QUEUE"}
  BY <1>4, TimerOnFields
<1>7. /\ req' = [req EXCEPT ![c] = q] /\ worker' = [worker EXCEPT ![w] = r]
      /\ queue' = IF full THEN queue ELSE [queue EXCEPT ![a][w] = Append(@, c)]
      /\ event' = IF full THEN event ELSE [event EXCEPT ![a][w] = @ + 1]
      /\ Checks(<< <<StartFails(c, "QUEUE"), "timer_start">>, <<full, "queue_full">> >>)
      /\ UNCHANGED <<sock, reg, sctx, actor, count, active>>
  BY <1>1, <1>2 DEF PushRequest, input_queue, Notified
<1>8. ~StartFails(c, "QUEUE")
  BY <1>4 DEF StartFails
<1> HIDE DEF q, r
<1>9. /\ req' \in [Conns -> RequestContext] /\ req'[c] = q
      /\ \A d \in Conns : d # c => req'[d] = req[d]
      /\ worker' \in [Workers -> WorkerState] /\ worker'[w] = r
      /\ \A v \in Workers : v # w => worker'[v] = worker[v]
  BY <1>0, <1>2, <1>5, <1>6, <1>7 DEF TypeOK
<1>10. /\ queue \in [Actors -> [Workers -> Seq(Conns)]]
       /\ event \in [Actors -> [Workers -> Nat]]
  BY DEF TypeOK
<1>11. Live' = Live
  BY <1>6, <1>9 DEF Live
<1>12. CASE full
  <2>1. exited' = "queue_full"
    <3> HIDE DEF full
    <3> QED BY <1>7, <1>8, <1>12, SecondCheck
  <2>2. TypeOK'
    BY <1>7, <1>9, <1>12, <2>1 DEF TypeOK
  <2>3. Cardinality(Live') > QueueCap
    BY <1>1, <1>2, <1>11, <1>12, OverflowLoad
  <2> QED BY <2>1, <2>2, <2>3 DEF Kept, NoCheckFails, OverflowNeedsLoad, Running, Live
<1>13. CASE ~full
  <2>0. PICK n \in Nat : queue[a][w] \in Seq(Conns) /\ n = Len(queue[a][w])
    BY SMT, <1>10
  <2>1. exited' = "no"
    <3> HIDE DEF full
    <3> QED BY <1>7, <1>8, <1>13, TwoChecks
  <2>2. /\ queue' = [queue EXCEPT ![a][w] = Append(queue[a][w], c)]
        /\ event' = [event EXCEPT ![a][w] = event[a][w] + 1]
    BY <1>7, <1>13
  <2>3. /\ queue' \in [Actors -> [Workers -> Seq(Conns)]]
        /\ queue'[a][w] = Append(queue[a][w], c)
        /\ \A b \in Actors, v \in Workers : b # a \/ v # w => queue'[b][v] = queue[b][v]
    <3>1. Append(queue[a][w], c) \in Seq(Conns)
      BY SMT, <2>0
    <3> QED BY SMT, <1>10, <2>2, <3>1, TableEntry
  <2>4. /\ event' \in [Actors -> [Workers -> Nat]]
        /\ event'[a][w] = event[a][w] + 1
        /\ \A b \in Actors, v \in Workers : b # a \/ v # w => event'[b][v] = event[b][v]
    <3>1. event[a][w] + 1 \in Nat
      BY SMT, <1>10
    <3> QED BY SMT, <1>10, <2>2, <3>1, TableEntry
  <2>5. TypeOK'
    BY <1>7, <1>9, <2>1, <2>3, <2>4 DEF TypeOK
  <2>6. \A b \in Actors, v \in Workers, i \in Nat, d \in Conns :
          Queued(b, v, i, d)' <=> Queued(b, v, i, d) \/ (b = a /\ v = w /\ i = n + 1 /\ d = c)
    <3>1. /\ Len(queue'[a][w]) = n + 1 /\ queue'[a][w][n + 1] = c
          /\ \A i \in 1 .. n : queue'[a][w][i] = queue[a][w][i]
      BY SMT, <1>2, <2>0, <2>3
    <3>2. ASSUME NEW b \in Actors, NEW v \in Workers, b # a \/ v # w
          PROVE  queue'[b][v] = queue[b][v]
      BY <2>3, <3>2
    <3>3. ASSUME NEW i \in Nat, NEW d \in Conns
          PROVE  Queued(a, w, i, d)' <=> Queued(a, w, i, d) \/ (i = n + 1 /\ d = c)
      BY SMT, <2>0, <3>1 DEF Queued
    <3> QED BY SMT, <3>2, <3>3 DEF Queued
  <2>7. ConnInv'
    <3>1. ConnInv
      BY DEF RunInv
    <3> QED BY ZenonT(30), <1>2, <1>4, <1>6, <1>7, <1>9, <3>1 DEF ConnInv, Registered
  <2>8. \A d \in Conns : Registered(d)' <=> Registered(d)
    BY <1>7 DEF Registered
  <2>9. Phase(c)' = "queue" /\ \A d \in Conns : d # c => Phase(d)' = Phase(d)
    BY <1>2, <1>4, <1>6, <1>9, <2>8 DEF Phase
  <2>10. PhaseInv'
    <3>1. /\ \A v \in Workers, d \in Conns : d # c => (Held(v, d)' <=> Held(v, d))
          /\ \A v \in Workers : v # w => (Held(v, c)' <=> Held(v, c))
          /\ ~Held(w, c)'
          /\ \A b \in Actors, d \in Conns : Answering(b, d)' <=> Answering(b, d)
      BY <1>0, <1>2, <1>5, <1>7, <1>9 DEF Held, Handling, Answering
    <3>2. ASSUME NEW d \in Conns, d # c
          PROVE  PhaseRight(d)'
      BY <1>7, <1>9, <2>6, <2>9, <3>1, <3>2, PhaseFrame DEF RunInv, PhaseInv
    <3>3. PhaseRight(c)'
      <4>1. PhaseRight(c)
        BY <1>2 DEF RunInv, PhaseInv
      <4>2. /\ \A v \in Workers : ~Held(v, c)'
            /\ \A b \in Actors : ~Answering(b, c)'
            /\ \A b \in Actors, v \in Workers, i \in Nat :
                 Queued(b, v, i, c)' <=> (b = a /\ v = w /\ i = n + 1)
        <5>1. /\ \A v \in Workers : v # w => ~Held(v, c)
              /\ \A b \in Actors : ~Answering(b, c)
              /\ \A b \in Actors, v \in Workers, i \in Nat : ~Queued(b, v, i, c)
          BY <1>2, <1>3, <4>1 DEF PhaseRight
        <5> QED BY SMT, <1>2, <2>6, <3>1, <5>1
      <4>3. n + 1 \in Nat /\ Queued(a, w, n + 1, c)'
        BY SMT, <1>1, <2>0, <4>2
      <4>4. req'[c].epoll_info = w /\ req'[c].out = 0
        BY <1>3, <1>4, <1>6, <1>9
      <4> QED BY SMT, <1>1, <2>9, <4>2, <4>3, <4>4 DEF PhaseRight
    <3> QED BY <3>2, <3>3 DEF PhaseInv
  <2>11. ContextInv'
    <3>1. \A v \in Workers, d \in Conns, s \in Slots : Freeing(v, d, s)' <=> Freeing(v, d, s)
      BY <1>0, <1>5, <1>9 DEF Freeing, Holding, Handling
    <3> QED BY SMT, <1>7, <2>8, <3>1 DEF RunInv, ContextInv, ContextRight
  <2>12. EventInv'
    BY <1>5, <1>7, <1>9, EventFrame DEF RunInv
  <2>13. WorkerInv' /\ ActorInv'
    BY SMT, <1>0, <1>5, <1>7, <1>9 DEF RunInv, WorkerInv, ActorInv, Holding, Handling
  <2>14. Announced'
    <3>1. Len(queue'[a][w]) = n + 1
      BY SMT, <1>2, <2>0, <2>3
    <3>2. Announced /\ \A b \in Actors : actor[b].num \in Nat
      BY DEF RunInv, TypeOK, ActorState
    <3>3. \A b \in Actors, v \in Workers : event[b][v] \in Nat
      BY <1>10
    <3> SUFFICES ASSUME NEW b \in Actors, NEW v \in Workers
                 PROVE  Len(queue'[b][v]) =
                          event'[b][v] + IF actor[b].from = v THEN actor[b].num ELSE 0
      BY SMT, <1>7 DEF Announced
    <3>4. Len(queue[b][v]) = event[b][v] + IF actor[b].from = v THEN actor[b].num ELSE 0
      BY <3>2 DEF Announced
    <3>5. CASE b = a /\ v = w
      <4> DEFINE k == IF actor[b].from = v THEN actor[b].num ELSE 0
      <4>1. k \in Nat /\ event[b][v] \in Nat
        BY <3>2, <3>3
      <4>2. n = event[b][v] + k
        BY <2>0, <3>4, <3>5
      <4>3. Len(queue'[b][v]) = n + 1 /\ event'[b][v] = event[b][v] + 1
        BY <2>4, <3>1, <3>5
      <4> HIDE DEF k
      <4>4. Len(queue'[b][v]) = event'[b][v] + k
        BY SMT, <4>1, <4>2, <4>3
      <4> QED BY <4>4 DEF k
    <3>6. CASE b # a \/ v # w
      BY <2>3, <2>4, <3>4, <3>6
    <3> QED BY <3>5, <3>6
  <2>15. active' = Cardinality(Live')
    BY <1>7, <1>11 DEF RunInv
  <2> QED BY <2>1, <2>5, <2>7, <2>10, <2>11, <2>12, <2>13, <2>14, <2>15, StillRunning DEF RunInv
<1> QED BY <1>12, <1>13

------------------------------------------------------------------------------
(* Steps of an actor *)

\* The loop of an actor, up to the first request it takes.
LEMMA ActorLocal ==
  ASSUME TypeOK, RunInv, Running, NEW a \in Actors, NEW r \in ActorState,
         actor' = [actor EXCEPT ![a] = r], actor[a].conn = NoConn, r.conn = NoConn,
         event' \in [Actors -> [Workers -> Nat]],
         UNCHANGED <<sock, reg, req, sctx, queue, worker, count, active, exited>>,
         ActorInv', Announced'
  PROVE  Kept
<1>0. /\ actor' \in [Actors -> ActorState] /\ actor'[a] = r
      /\ \A b \in Actors : b # a => actor'[b] = actor[b]
      /\ NoConn \notin Conns
  BY ServerAssumption DEF TypeOK
<1>1. TypeOK' /\ exited' = "no"
  BY <1>0 DEF TypeOK, Running
<1>2. ConnInv'
  BY DEF RunInv, ConnInv, Registered
<1>3. \A d \in Conns : Phase(d)' = Phase(d)
  BY DEF Phase, Registered
<1>4. PhaseInv'
  <2>1. /\ \A v \in Workers, d \in Conns : Held(v, d)' <=> Held(v, d)
        /\ \A b \in Actors, d \in Conns : Answering(b, d)' <=> Answering(b, d)
        /\ \A b \in Actors, d \in Conns : Answering(b, d) => actor'[b].from = actor[b].from
        /\ \A b \in Actors, v \in Workers, i \in Nat, d \in Conns :
             Queued(b, v, i, d)' <=> Queued(b, v, i, d)
    BY <1>0 DEF Held, Answering, Queued
  <2> QED BY <1>3, <2>1, PhaseFrame DEF RunInv, PhaseInv
<1>5. ContextInv' /\ EventInv' /\ WorkerInv'
  BY SMT DEF RunInv, ContextInv, ContextRight, EventInv, WorkerInv, Registered, Freeing
<1>6. active' = Cardinality(Live')
  BY DEF RunInv, Live
<1> QED BY <1>1, <1>2, <1>4, <1>5, <1>6, StillRunning DEF RunInv

\* The steps of an actor that move no request.
LEMMA ActorLocalKeeps ==
  ASSUME TypeOK, RunInv, Running, NEW a \in Actors,
         \/ ActorStart(a) \/ ActorEpollWait(a) \/ Drain(a)
         \/ \E w \in Workers : process_epoll_event(a, w)
  PROVE  Kept
<1>0. /\ actor \in [Actors -> ActorState] /\ actor[a] \in ActorState
      /\ event \in [Actors -> [Workers -> Nat]]
      /\ ActorInv /\ Announced /\ NoWorker \notin Workers
  BY ServerAssumption DEF TypeOK, RunInv
<1>1. CASE ActorStart(a)
  <2> DEFINE r == [actor[a] EXCEPT !.pc = "loop"]
  <2>1. actor' = [actor EXCEPT ![a] = r] /\ r \in ActorState
    BY <1>0, <1>1 DEF ActorStart, ActorState
  <2>2. r.pc = "loop" /\ r.conn = actor[a].conn /\ r.from = actor[a].from /\ r.num = actor[a].num
    BY <1>0 DEF ActorState
  <2>3. actor[a].pc = "init" /\ actor[a].conn = NoConn
    BY <1>0, <1>1 DEF ActorStart, ActorInv
  <2> HIDE DEF r
  <2>4. ActorInv' /\ Announced'
    BY SMT, <1>0, <1>1, <2>1, <2>2, <2>3 DEF ActorStart, ActorInv, Announced
  <2> QED BY <1>0, <1>1, <2>1, <2>2, <2>3, <2>4, ActorLocal DEF ActorStart
<1>2. CASE ActorEpollWait(a)
  <2> DEFINE b == {w \in Workers : event[a][w] > 0}
             r == [actor[a] EXCEPT !.batch = b]
  <2>1. actor' = [actor EXCEPT ![a] = r] /\ r \in ActorState
    BY <1>0, <1>2 DEF ActorEpollWait, ActorState
  <2>2. r.pc = actor[a].pc /\ r.conn = actor[a].conn /\ r.from = actor[a].from /\ r.num = actor[a].num
    BY <1>0 DEF ActorState
  <2>3. actor[a].pc = "loop" /\ actor[a].conn = NoConn
    BY <1>0, <1>2 DEF ActorEpollWait, ActorInv
  <2> HIDE DEF r
  <2>4. ActorInv' /\ Announced'
    BY SMT, <1>0, <1>2, <2>1, <2>2, <2>3 DEF ActorEpollWait, ActorInv, Announced
  <2> QED BY <1>0, <1>2, <2>1, <2>2, <2>3, <2>4, ActorLocal DEF ActorEpollWait
<1>3. ASSUME NEW w \in Workers, process_epoll_event(a, w)
      PROVE  Kept
  <2> DEFINE r == [actor[a] EXCEPT !.pc = "drain", !.batch = @ \ {w}, !.from = w]
  <2>1. actor' = [actor EXCEPT ![a] = r] /\ r \in ActorState
    BY <1>0, <1>3 DEF process_epoll_event, ActorState
  <2>2. r.pc = "drain" /\ r.conn = actor[a].conn /\ r.from = w /\ r.num = actor[a].num
    BY <1>0 DEF ActorState
  <2>3. /\ actor[a].pc = "loop" /\ actor[a].conn = NoConn /\ actor[a].from = NoWorker
        /\ actor[a].num = 0
    BY <1>0, <1>3 DEF process_epoll_event, ActorInv
  <2> HIDE DEF r
  <2>4. ActorInv'
    BY <1>0, <2>1, <2>2, <2>3 DEF ActorInv
  <2>5. Announced'
    <3> SUFFICES ASSUME NEW b \in Actors, NEW v \in Workers
                 PROVE  Len(queue[b][v]) =
                          event[b][v] + IF actor'[b].from = v THEN actor'[b].num ELSE 0
      BY <1>3 DEF process_epoll_event, Announced
    <3>1. Len(queue[b][v]) = event[b][v] + IF actor[b].from = v THEN actor[b].num ELSE 0
      BY <1>0 DEF Announced
    <3>2. (IF actor'[b].from = v THEN actor'[b].num ELSE 0)
            = IF actor[b].from = v THEN actor[b].num ELSE 0
      BY <1>0, <2>1, <2>2, <2>3
    <3> QED BY <3>1, <3>2
  <2> QED BY ZenonT(30), <1>0, <1>3, <2>1, <2>2, <2>3, <2>4, <2>5, ActorLocal DEF process_epoll_event
<1>4. CASE Drain(a)
  <2>1. PICK w \in Workers : w = actor[a].from
    BY <1>0, <1>4 DEF Drain, ActorInv, ActorState
  <2>2. PICK n \in Nat : n = event[a][w]
    BY <1>0
  <2>3. /\ actor[a].pc = "drain" /\ actor[a].conn = NoConn /\ actor[a].num = 0
    BY <1>0, <1>4 DEF Drain, ActorInv
  <2>4. event' = [event EXCEPT ![a][w] = 0]
    BY <1>4, <2>1 DEF Drain
  <2>5. /\ event' \in [Actors -> [Workers -> Nat]]
        /\ event'[a][w] = 0
        /\ \A b \in Actors, v \in Workers : b # a \/ v # w => event'[b][v] = event[b][v]
    BY SMT, <1>0, <2>4, 0 \in Nat, TableEntry
  <2>6. Len(queue[a][w]) = n
    BY SMT, <1>0, <2>1, <2>2, <2>3 DEF Announced
  <2>7. CASE n = 0
    <3> DEFINE r == [actor[a] EXCEPT !.pc = "loop", !.from = NoWorker]
    <3>1. actor' = [actor EXCEPT ![a] = r] /\ r \in ActorState
      BY <1>0, <1>4, <2>1, <2>2, <2>7 DEF Drain, ActorState
    <3>2. r.pc = "loop" /\ r.conn = actor[a].conn /\ r.from = NoWorker /\ r.num = actor[a].num
      BY <1>0 DEF ActorState
    <3> HIDE DEF r
    <3>3. ActorInv'
      BY <1>0, <2>3, <3>1, <3>2 DEF ActorInv
    <3>4. Announced'
      BY SMT, <1>0, <1>4, <2>1, <2>2, <2>3, <2>5, <2>6, <2>7, <3>1, <3>2 DEF Drain, Announced
    <3> QED BY ZenonT(30), <1>0, <1>4, <2>3, <2>5, <3>1, <3>2, <3>3, <3>4, ActorLocal DEF Drain
  <2>8. CASE n # 0
    <3> DEFINE r == [actor[a] EXCEPT !.pc = "pop", !.num = n]
    <3>1. actor' = [actor EXCEPT ![a] = r] /\ r \in ActorState
      BY <1>0, <1>4, <2>1, <2>2, <2>8 DEF Drain, ActorState, num_to_read
    <3>2. r.pc = "pop" /\ r.conn = actor[a].conn /\ r.from = actor[a].from /\ r.num = n
      BY <1>0 DEF ActorState
    <3> HIDE DEF r
    <3>3. ActorInv'
      BY SMT, <1>0, <2>1, <2>3, <2>8, <3>1, <3>2 DEF ActorInv
    <3>4. Announced'
      <4> SUFFICES ASSUME NEW b \in Actors, NEW v \in Workers
                   PROVE  Len(queue[b][v]) =
                            event'[b][v] + IF actor'[b].from = v THEN actor'[b].num ELSE 0
        BY <1>4 DEF Drain, Announced
      <4>1. Len(queue[b][v]) = event[b][v] + IF actor[b].from = v THEN actor[b].num ELSE 0
        BY <1>0 DEF Announced
      <4>2. CASE b = a /\ v = w
        BY SMT, <1>0, <2>1, <2>5, <2>6, <3>1, <3>2, <4>2
      <4>3. CASE b # a \/ v # w
        BY <1>0, <2>1, <2>5, <3>1, <3>2, <4>1, <4>3
      <4> QED BY <4>2, <4>3
    <3> QED BY ZenonT(30), <1>0, <1>4, <2>3, <2>5, <3>1, <3>2, <3>3, <3>4, ActorLocal DEF Drain
  <2> QED BY <2>7, <2>8
<1> QED BY <1>1, <1>2, <1>3, <1>4

\* What a pop leaves of a queue.
LEMMA TailFacts ==
  ASSUME NEW q \in Seq(Conns), Len(q) > 0
  PROVE  /\ Tail(q) \in Seq(Conns)
         /\ Len(Tail(q)) = Len(q) - 1
         /\ \A i \in 1 .. Len(q) - 1 : Tail(q)[i] = q[i + 1]
<1>1. Len(q) \in Nat /\ q # << >>
  BY SMT
<1> QED BY SMT, <1>1

\* A request that has been answered: QUEUE_TIME is over, the response is there.
LEMMA AnsweredFields ==
  ASSUME NEW r \in RequestContext
  PROVE  LET q == handle_request(TimerOff(r, "QUEUE"))
         IN  /\ q \in RequestContext
             /\ q.live = r.live
             /\ q.epoll_info = r.epoll_info
             /\ q.out = RespUnits
             /\ q.timers = r.timers \ {"QUEUE"}
<1> DEFINE p == TimerOff(r, "QUEUE")
           q == [p EXCEPT !.out = RespUnits]
<1>0. RespUnits \in 0 .. RespUnits
  BY SMT, ServerAssumption
<1>1. /\ p \in RequestContext /\ p.live = r.live /\ p.epoll_info = r.epoll_info
      /\ p.timers = r.timers \ {"QUEUE"}
  <2>1. r.timers \ {"QUEUE"} \in SUBSET {"TOTAL", "QUEUE"}
    BY DEF RequestContext
  <2> DEFINE t == r.timers \ {"QUEUE"}
  <2>2. p = [r EXCEPT !.timers = t]
    BY DEF TimerOff
  <2> HIDE DEF p
  <2>3. t \in SUBSET {"TOTAL", "QUEUE"}
    BY <2>1
  <2> HIDE DEF t
  <2>4. /\ p \in RequestContext /\ p.live = r.live /\ p.epoll_info = r.epoll_info
        /\ p.timers = t
    BY <2>2, <2>3 DEF RequestContext
  <2> QED BY <2>4 DEF t
<1> HIDE DEF p
<1>2. /\ q \in RequestContext /\ q.live = p.live /\ q.epoll_info = p.epoll_info
      /\ q.out = RespUnits /\ q.timers = p.timers
  BY <1>0, <1>1 DEF RequestContext
<1> HIDE DEF q
<1>3. q = handle_request(TimerOff(r, "QUEUE"))
  BY DEF handle_request, p, q
<1> QED BY <1>1, <1>2, <1>3

\* queue_pop and handle_request: from the head of the queue to the actor.  The
\* count the actor works off is covered by the queue, so there is a request.
LEMMA PopKeeps ==
  ASSUME TypeOK, RunInv, Running, NEW a \in Actors, PopRequest(a)
  PROVE  Kept
<1>0. /\ actor \in [Actors -> ActorState] /\ actor[a] \in ActorState
      /\ queue \in [Actors -> [Workers -> Seq(Conns)]]
      /\ event \in [Actors -> [Workers -> Nat]]
      /\ ActorInv /\ Announced /\ NoWorker \notin Workers /\ NoConn \notin Conns
      /\ actor[a].pc = "pop"
  BY ServerAssumption DEF TypeOK, RunInv, PopRequest
<1>1. PICK w \in Workers : w = actor[a].from
  BY <1>0 DEF ActorInv, ActorState
<1>2. PICK k \in Nat : k = actor[a].num /\ k > 0
  BY <1>0 DEF ActorInv, ActorState
<1>3. PICK n \in Nat : /\ n = Len(queue[a][w]) /\ n > 0
                       /\ queue[a][w] \in Seq(Conns) /\ queue[a][w] # << >>
                       /\ n = event[a][w] + k
  <2>1. Len(queue[a][w]) = event[a][w] + k
    BY <1>0, <1>1, <1>2 DEF Announced
  <2>2. event[a][w] \in Nat /\ queue[a][w] \in Seq(Conns)
    BY SMT, <1>0
  <2> QED BY SMT, <1>2, <2>1, <2>2
<1>4. PICK c \in Conns : c = Head(queue[a][w]) /\ Queued(a, w, 1, c)
  BY SMT, <1>3 DEF Queued
<1>5. Phase(c) = "queue" /\ req[c].epoll_info = w /\ req[c].out = 0
  BY <1>4 DEF RunInv, PhaseInv, PhaseRight
<1>6. /\ req[c].live /\ ~Registered(c) /\ "QUEUE" \in req[c].timers
      /\ req[c] \in RequestContext
  BY <1>5 DEF Phase, TypeOK
<1> DEFINE q == handle_request(TimerOff(req[c], "QUEUE"))
           r == [actor[a] EXCEPT !.pc = "register", !.num = @ - 1, !.conn = c]
<1>7. /\ q \in RequestContext /\ q.live = req[c].live /\ q.epoll_info = req[c].epoll_info
      /\ q.out = RespUnits /\ q.timers = req[c].timers \ {"QUEUE"}
  BY <1>6, AnsweredFields
<1>8. /\ r \in ActorState /\ r.pc = "register" /\ r.num = k - 1 /\ r.conn = c
      /\ r.from = w
  <2>1. actor[a].num - 1 \in Nat /\ actor[a].num - 1 = k - 1
    BY SMT, <1>2
  <2> QED BY <1>0, <1>1, <2>1 DEF ActorState
<1>9. /\ req' = [req EXCEPT ![c] = q] /\ actor' = [actor EXCEPT ![a] = r]
      /\ queue' = [queue EXCEPT ![a][w] = Tail(queue[a][w])]
      /\ Checks(<< <<EndFails(c, "QUEUE"), "timer_end">> >>)
      /\ UNCHANGED <<sock, reg, sctx, event, worker, count, active>>
  BY <1>1, <1>3, <1>4 DEF PopRequest
<1>10. exited' = "no"
  <2>1. ~EndFails(c, "QUEUE")
    BY <1>6 DEF EndFails
  <2> QED BY <1>9, <2>1, OneCheck
<1> HIDE DEF q, r
<1>11. /\ queue' \in [Actors -> [Workers -> Seq(Conns)]]
       /\ queue'[a][w] = Tail(queue[a][w])
       /\ \A b \in Actors, v \in Workers : b # a \/ v # w => queue'[b][v] = queue[b][v]
  <2>1. Tail(queue[a][w]) \in Seq(Conns)
    BY SMT, <1>3
  <2> QED BY SMT, <1>0, <1>9, <2>1, TableEntry
<1>12. /\ req' \in [Conns -> RequestContext] /\ req'[c] = q
       /\ \A d \in Conns : d # c => req'[d] = req[d]
       /\ actor' \in [Actors -> ActorState] /\ actor'[a] = r
       /\ \A b \in Actors : b # a => actor'[b] = actor[b]
  BY <1>0, <1>7, <1>8, <1>9 DEF TypeOK
<1>13. TypeOK'
  BY <1>9, <1>10, <1>11, <1>12 DEF TypeOK
<1>14. ConnInv'
  <2>1. ConnInv
    BY DEF RunInv
  <2> QED BY <1>6, <1>7, <1>9, <1>12, <2>1 DEF ConnInv, Registered
<1>15. \A d \in Conns : Registered(d)' <=> Registered(d)
  BY <1>9 DEF Registered
<1>16. Phase(c)' = "actor" /\ \A d \in Conns : d # c => Phase(d)' = Phase(d)
  <2>1. RespUnits # 0
    BY ServerAssumption
  <2> QED BY <1>6, <1>7, <1>12, <1>15, <2>1 DEF Phase
<1>17. PhaseInv'
  <2>1. /\ \A v \in Workers, d \in Conns : Held(v, d)' <=> Held(v, d)
        /\ \A b \in Actors, d \in Conns : d # c => (Answering(b, d)' <=> Answering(b, d))
        /\ \A b \in Actors : Answering(b, c)' <=> (Answering(b, c) \/ b = a)
        /\ \A b \in Actors : actor'[b].from = actor[b].from
    <3>1. actor[a].conn = NoConn
      BY <1>0 DEF ActorInv
    <3>2. \A b \in Actors : actor'[b].from = actor[b].from
      BY <1>1, <1>8, <1>12
    <3>3. \A b \in Actors, d \in Conns :
            Answering(b, d)' <=> IF b = a THEN d = c ELSE Answering(b, d)
      BY <1>8, <1>12 DEF Answering
    <3>4. \A d \in Conns : ~Answering(a, d)
      BY <1>0, <3>1 DEF Answering
    <3>5. \A v \in Workers, d \in Conns : Held(v, d)' <=> Held(v, d)
      BY <1>9 DEF Held
    <3> QED BY <3>2, <3>3, <3>4, <3>5
  <2>2. \A i \in Nat, d \in Conns : Queued(a, w, i, d)' <=> i > 0 /\ Queued(a, w, i + 1, d)
    <3>1. PICK Q \in Seq(Conns), R \in Seq(Conns) :
            Q = queue[a][w] /\ Len(Q) = n /\ R = Tail(Q) /\ R = queue'[a][w]
      BY <1>3, <1>11
    <3>2. Len(R) = n - 1 /\ \A i \in 1 .. n - 1 : R[i] = Q[i + 1]
      BY SMT, <1>3, <3>1, TailFacts
    <3> SUFFICES ASSUME NEW i \in Nat, NEW d \in Conns
                 PROVE  (i \in 1 .. Len(R) /\ R[i] = d) <=>
                          (i > 0 /\ i + 1 \in 1 .. Len(Q) /\ Q[i + 1] = d)
      BY <3>1 DEF Queued
    <3>3. i \in 1 .. Len(R) <=> i > 0 /\ i + 1 \in 1 .. Len(Q)
      BY SMT, <1>3, <3>1, <3>2
    <3> QED BY <1>3, <3>1, <3>2, <3>3
  <2>3. \A b \in Actors, v \in Workers, i \in Nat, d \in Conns :
          b # a \/ v # w => (Queued(b, v, i, d)' <=> Queued(b, v, i, d))
    BY <1>11 DEF Queued
  <2>4. \A i \in Nat, d \in Conns : Queued(a, w, i, d) => i > 0 /\ (d # c => i > 1)
    BY SMT, <1>4 DEF Queued
  <2>5. ASSUME NEW d \in Conns, d # c
        PROVE  PhaseRight(d)'
    <3>1. PhaseRight(d) /\ req'[d] = req[d] /\ Phase(d)' = Phase(d)
      BY <1>12, <1>16, <2>5 DEF RunInv, PhaseInv
    <3>2. \A v \in Workers : Held(v, d)' <=> Phase(d)' = "worker" /\ req'[d].epoll_info = v
      BY <2>1, <3>1 DEF PhaseRight
    <3>3. /\ \A b \in Actors :
               Answering(b, d)' => Phase(d)' = "actor" /\ req'[d].epoll_info = actor'[b].from
          /\ \A b1, b2 \in Actors : Answering(b1, d)' /\ Answering(b2, d)' => b1 = b2
          /\ Phase(d)' = "actor" => \E b \in Actors : Answering(b, d)'
      BY <2>1, <2>5, <3>1 DEF PhaseRight
    <3>4. \A b \in Actors, v \in Workers, i \in Nat :
            Queued(b, v, i, d)' => \E j \in Nat : /\ Queued(b, v, j, d)
                                                  /\ j = IF b = a /\ v = w THEN i + 1 ELSE i
      BY SMT, <2>2, <2>3
    <3>5. /\ \A b \in Actors, v \in Workers, i \in Nat : Queued(b, v, i, d)' =>
               Phase(d)' = "queue" /\ req'[d].epoll_info = v /\ req'[d].out = 0
          /\ \A b1, b2 \in Actors, v \in Workers, i, j \in Nat :
               Queued(b1, v, i, d)' /\ Queued(b2, v, j, d)' => b1 = b2 /\ i = j
      BY SMT, <3>1, <3>4 DEF PhaseRight
    <3>6. ASSUME Phase(d)' = "queue"
          PROVE  \E b \in Actors, i \in Nat : Queued(b, req[d].epoll_info, i, d)'
      <4>1. PICK v \in Workers : v = req[d].epoll_info
        BY <3>1, <3>6 DEF Phase, RunInv, ConnInv
      <4>2. PICK b \in Actors, i \in Nat : Queued(b, v, i, d)
        BY <3>1, <3>6, <4>1 DEF PhaseRight
      <4>3. CASE b = a /\ v = w
        <5>1. i > 1 /\ i - 1 \in Nat
          BY SMT, <2>4, <2>5, <4>2, <4>3
        <5>2. Queued(a, w, i - 1, d)'
          <6>1. (i - 1) + 1 = i
            BY SMT, <5>1
          <6> QED BY SMT, <2>2, <4>2, <4>3, <5>1, <6>1
        <5>3. req'[d].epoll_info = w
          BY <3>1, <4>1, <4>3
        <5> QED BY <5>1, <5>2, <5>3
      <4>4. CASE b # a \/ v # w
        <5>1. Queued(b, v, i, d)' /\ req'[d].epoll_info = v
          BY <2>3, <3>1, <4>1, <4>2, <4>4
        <5> QED BY <5>1
      <4> QED BY <4>3, <4>4
    <3> QED BY <3>2, <3>3, <3>5, <3>6 DEF PhaseRight
  <2>6. PhaseRight(c)'
    <3>1. PhaseRight(c)
      BY DEF RunInv, PhaseInv
    <3>2. \A b \in Actors, v \in Workers, i \in Nat : ~Queued(b, v, i, c)'
      <4> SUFFICES ASSUME NEW b \in Actors, NEW v \in Workers, NEW i \in Nat, Queued(b, v, i, c)'
                   PROVE  FALSE
        OBVIOUS
      <4>1. CASE b = a /\ v = w
        <5>1. i > 0 /\ Queued(a, w, i + 1, c)
          BY <2>2, <4>1
        <5>2. i + 1 \in Nat /\ 1 \in Nat /\ i + 1 # 1
          BY SMT, <5>1
        <5> QED BY <1>4, <3>1, <5>1, <5>2 DEF PhaseRight
      <4>2. CASE b # a \/ v # w
        <5>1. Queued(b, v, i, c)
          BY <2>3, <4>2
        <5>2. v = w
          BY <1>5, <3>1, <5>1 DEF PhaseRight
        <5> QED BY <1>4, <3>1, <4>2, <5>1, <5>2, 1 \in Nat DEF PhaseRight
      <4> QED BY <4>1, <4>2
    <3>3. \A v \in Workers : ~Held(v, c)'
      BY <1>5, <2>1, <3>1 DEF PhaseRight
    <3>4. \A b \in Actors : Answering(b, c)' <=> b = a
      BY <1>5, <2>1, <3>1 DEF PhaseRight
    <3>5. actor'[a].from = w /\ req'[c].epoll_info = w
      BY <1>5, <1>7, <1>8, <1>12
    <3> QED BY <1>16, <3>2, <3>3, <3>4, <3>5 DEF PhaseRight
  <2> QED BY <2>5, <2>6 DEF PhaseInv
<1>18. ContextInv' /\ EventInv' /\ WorkerInv'
  BY SMT, <1>9 DEF RunInv, ContextInv, ContextRight, EventInv, WorkerInv, Registered, Freeing
<1>19. ActorInv'
  <2>1. r.conn # NoConn /\ r.from # NoWorker /\ r.pc = "register"
    BY <1>0, <1>8
  <2>2. \A b \in Actors : b # a => actor'[b] = actor[b]
    BY <1>12
  <2>3. actor'[a] = r /\ ActorInv
    BY <1>12 DEF RunInv
  <2> QED BY <2>1, <2>2, <2>3 DEF ActorInv
<1>20. Announced'
  <2> SUFFICES ASSUME NEW b \in Actors, NEW v \in Workers
               PROVE  Len(queue'[b][v]) =
                        event[b][v] + IF actor'[b].from = v THEN actor'[b].num ELSE 0
    BY SMT, <1>9 DEF Announced
  <2>1. Len(queue[b][v]) = event[b][v] + IF actor[b].from = v THEN actor[b].num ELSE 0
    BY <1>0 DEF Announced
  <2>2. CASE b = a /\ v = w
    <3>1. Len(queue'[a][w]) = n - 1
      BY <1>3, <1>11, TailFacts
    <3>2. event[a][w] \in Nat
      BY SMT, <1>0
    <3> QED BY SMT, <1>2, <1>3, <1>8, <1>12, <2>2, <3>1, <3>2
  <2>3. CASE b # a \/ v # w
    BY <1>1, <1>8, <1>11, <1>12, <2>1, <2>3
  <2> QED BY <2>2, <2>3
<1>21. active' = Cardinality(Live')
  <2>1. Live' = Live
    BY <1>7, <1>12 DEF Live
  <2> QED BY <1>9, <2>1 DEF RunInv
<1> QED BY <1>10, <1>13, <1>14, <1>17, <1>18, <1>19, <1>20, <1>21, StillRunning DEF RunInv

\* The output is registered: from the actor back to the epoll instance.
LEMMA RegisterKeeps ==
  ASSUME TypeOK, RunInv, Running, NEW a \in Actors, RegisterOutput(a)
  PROVE  Kept
<1>0. /\ actor \in [Actors -> ActorState] /\ actor[a] \in ActorState
      /\ ActorInv /\ Announced /\ ContextInv
      /\ NoWorker \notin Workers /\ NoConn \notin Conns
      /\ actor[a].pc = "register"
  BY ServerAssumption DEF TypeOK, RunInv, RegisterOutput
<1>1. PICK c \in Conns : c = actor[a].conn /\ Answering(a, c)
  BY <1>0 DEF ActorInv, ActorState, Answering
<1>2. PICK w \in Workers : w = actor[a].from
  BY <1>0 DEF ActorInv, ActorState
<1>3. Phase(c) = "actor" /\ req[c].epoll_info = w
  BY <1>1, <1>2 DEF RunInv, PhaseInv, PhaseRight
<1>4. /\ req[c].live /\ ~Registered(c) /\ "QUEUE" \notin req[c].timers
      /\ sock[c].state = "open" /\ reg[c].epoll # w
  BY <1>0, <1>3 DEF Phase, Registered, RunInv, ConnInv
<1>5. PICK s0 \in Slots : s0 = FreeSlot(c) /\ sctx[c][s0] = "none"
  BY <1>0, <1>4, FreeSlotExists
<1> DEFINE g == [epoll |-> w, dir |-> "out", slot |-> s0]
           p == IF actor[a].num = 0 THEN "drain" ELSE "pop"
           r == [actor[a] EXCEPT !.pc = p, !.conn = NoConn]
<1>6. /\ r \in ActorState /\ r.pc = p /\ r.conn = NoConn /\ r.from = w
      /\ r.num = actor[a].num /\ r.num \in Nat
  BY <1>0, <1>2 DEF ActorState
<1>7. g \in Registration /\ g.epoll = w /\ g.dir = "out" /\ g.slot = s0 /\ w # NoWorker
  BY <1>0 DEF Registration
<1>8. /\ sctx' = [sctx EXCEPT ![c][s0] = "write"] /\ reg' = [reg EXCEPT ![c] = g]
      /\ Checks(<< <<AddFails(c, w), "epoll_add">> >>)
      /\ actor' = [actor EXCEPT ![a] = r]
      /\ UNCHANGED <<sock, req, queue, event, worker, count, active>>
  BY <1>1, <1>3, <1>5 DEF RegisterOutput
<1>9. exited' = "no"
  <2>1. ~AddFails(c, w)
    BY <1>4 DEF AddFails
  <2> QED BY <1>8, <2>1, OneCheck
<1> HIDE DEF g, r
<1>10. /\ reg'[c] = g /\ actor'[a] = r /\ sctx'[c][s0] = "write"
       /\ \A s \in Slots : s # s0 => sctx'[c][s] = sctx[c][s]
       /\ \A d \in Conns : d # c => reg'[d] = reg[d] /\ sctx'[d] = sctx[d]
       /\ \A b \in Actors : b # a => actor'[b] = actor[b]
  BY <1>0, <1>8 DEF TypeOK
<1>11. TypeOK'
  <2>1. sctx' \in [Conns -> [Slots -> {"none", "read", "write"}]]
    BY <1>8 DEF TypeOK
  <2> QED BY <1>6, <1>7, <1>8, <1>9, <2>1 DEF TypeOK
<1>12. ConnInv'
  <2>1. ConnInv
    BY DEF RunInv
  <2> QED BY SMT, <1>3, <1>4, <1>7, <1>8, <1>10, <2>1 DEF ConnInv, Registered
<1>13. Registered(c)' /\ \A d \in Conns : d # c => (Registered(d)' <=> Registered(d))
  BY <1>7, <1>10 DEF Registered
<1>14. Phase(c)' = "epoll" /\ \A d \in Conns : d # c => Phase(d)' = Phase(d)
  BY <1>4, <1>8, <1>13 DEF Phase
<1>15. PhaseInv'
  <2>1. /\ \A v \in Workers, d \in Conns : Held(v, d)' <=> Held(v, d)
        /\ \A b \in Actors, v \in Workers, i \in Nat, d \in Conns :
             Queued(b, v, i, d)' <=> Queued(b, v, i, d)
    BY <1>8 DEF Held, Queued
  <2>2. /\ \A b \in Actors, d \in Conns :
             Answering(b, d)' <=> Answering(b, d) /\ b # a
        /\ \A b \in Actors : actor'[b].from = actor[b].from
    BY <1>0, <1>2, <1>6, <1>10 DEF Answering
  <2>3. ASSUME NEW d \in Conns, d # c
        PROVE  PhaseRight(d)'
    <3>1. ~Answering(a, d)
      BY <1>1, <2>3 DEF Answering
    <3>2. \A b \in Actors : Answering(b, d)' <=> Answering(b, d)
      BY <2>2, <3>1
    <3>3. ConnInv /\ PhaseRight(d) /\ Phase(d)' = Phase(d) /\ req'[d] = req[d]
      BY <1>8, <1>14, <2>3 DEF RunInv, PhaseInv
    <3> QED BY <2>1, <2>2, <3>2, <3>3, PhaseFrame
  <2>4. PhaseRight(c)'
    <3>1. PhaseRight(c)
      BY DEF RunInv, PhaseInv
    <3>2. \A b \in Actors : ~Answering(b, c)'
      BY <1>1, <2>2, <3>1 DEF PhaseRight
    <3>3. /\ \A v \in Workers : ~Held(v, c)'
          /\ \A b \in Actors, v \in Workers, i \in Nat : ~Queued(b, v, i, c)'
      BY SMT, <1>3, <2>1, <3>1 DEF PhaseRight
    <3> QED BY <1>14, <3>2, <3>3 DEF PhaseRight
  <2> QED BY <2>3, <2>4 DEF PhaseInv
<1>16. ContextInv'
  <2>1. \A v \in Workers, d \in Conns, s \in Slots : Freeing(v, d, s)' <=> Freeing(v, d, s)
    BY <1>8 DEF Freeing
  <2> SUFFICES ASSUME NEW d \in Conns, NEW s \in Slots
               PROVE  ContextRight(d, s)'
    BY DEF ContextInv
  <2>2. ContextRight(d, s)
    BY <1>0 DEF ContextInv
  <2>3. CASE d # c
    BY <1>10, <1>13, <2>1, <2>2, <2>3 DEF ContextRight
  <2>4. CASE d = c
    BY <1>4, <1>5, <1>7, <1>10, <1>13, <2>1, <2>2, <2>4 DEF ContextRight
  <2> QED BY <2>3, <2>4
<1>17. EventInv'
  <2>1. EventInv
    BY DEF RunInv
  <2>2. ASSUME NEW v \in Workers, NEW f \in worker'[v].batch, f # AcceptEvent
        PROVE  reg'[f.conn] = reg[f.conn]
    <3>1. f.conn \in Conns /\ reg[f.conn].epoll = v
      BY <1>8, <2>1, <2>2 DEF EventInv
    <3>2. f.conn # c
      BY <1>0, <1>4, <3>1 DEF Registered
    <3> QED BY <1>10, <3>1, <3>2
  <2> QED BY <1>8, <2>1, <2>2, EventFrame
<1>18. WorkerInv'
  BY <1>8 DEF RunInv, WorkerInv
<1>19. ActorInv'
  <2>1. r.pc \in {"drain", "pop"} /\ (r.pc = "drain" <=> r.num = 0)
    BY <1>6
  <2> QED BY SMT, <1>0, <1>6, <1>7, <1>10, <2>1 DEF ActorInv
<1>20. Announced'
  <2>1. \A b \in Actors : actor'[b].from = actor[b].from /\ actor'[b].num = actor[b].num
    BY <1>2, <1>6, <1>10
  <2> QED BY SMT, <1>0, <1>8, <2>1 DEF Announced
<1>21. active' = Cardinality(Live')
  BY <1>8 DEF RunInv, Live
<1> QED BY <1>9, <1>11, <1>12, <1>15, <1>16, <1>17, <1>18, <1>19, <1>20, <1>21, StillRunning
        DEF RunInv

------------------------------------------------------------------------------
(* The invariant *)

\* The server starts with no connection and empty queues.
LEMMA InitInv == Init => IndInv
<1> SUFFICES ASSUME Init PROVE IndInv
  OBVIOUS
<1>0. /\ NoReg \in Registration /\ NoReq \in RequestContext /\ NoSock \in Socket
      /\ NoReg.epoll = NoWorker /\ NoReg.dir = "none" /\ ~NoReq.live /\ NoReq.out = 0
      /\ NoSock.state = "free"
  BY SMT, SlotsType, ServerAssumption
     DEF NoReg, NoReq, NoSock, Registration, RequestContext, Socket
<1>1. /\ \A c \in Conns : sock[c] = NoSock /\ reg[c] = NoReg /\ req[c] = NoReq
      /\ \A c \in Conns, s \in Slots : sctx[c][s] = "none"
      /\ \A a \in Actors, w \in Workers : queue[a][w] = << >> /\ event[a][w] = 0
      /\ \A w \in Workers : worker[w].pc = "init" /\ worker[w].batch = {} /\ worker[w].conn = NoConn
      /\ \A a \in Actors : /\ actor[a].pc = "init" /\ actor[a].from = NoWorker
                           /\ actor[a].num = 0 /\ actor[a].conn = NoConn
      /\ active = 0 /\ exited = "no"
  BY DEF Init
<1>2. TypeOK
  <2>1. /\ 0 \in 0 .. CountMod - 1 /\ 0 \in Slots
        /\ [pc |-> "init", batch |-> {}, conn |-> NoConn, slot |-> 0, tmp |-> 0] \in WorkerState
        /\ [pc |-> "init", batch |-> {}, from |-> NoWorker, num |-> 0, conn |-> NoConn] \in ActorState
    BY SMT, SlotsType, ServerAssumption DEF WorkerState, ActorState
  <2>2. << >> \in Seq(Conns)
    BY SMT
  <2>3. /\ sock \in [Conns -> Socket] /\ reg \in [Conns -> Registration]
        /\ req \in [Conns -> RequestContext]
        /\ sctx \in [Conns -> [Slots -> {"none", "read", "write"}]]
    BY <1>0 DEF Init
  <2>4. /\ queue \in [Actors -> [Workers -> Seq(Conns)]]
        /\ event \in [Actors -> [Workers -> Nat]]
    BY <2>2 DEF Init
  <2>5. worker \in [Workers -> WorkerState] /\ actor \in [Actors -> ActorState]
    BY <2>1 DEF Init
  <2>6. count \in 0 .. CountMod - 1 /\ active \in Nat
    BY <2>1 DEF Init
  <2> QED BY <1>1, <2>3, <2>4, <2>5, <2>6 DEF TypeOK
<1>3. NoCheckFails /\ OverflowNeedsLoad
  BY <1>1 DEF NoCheckFails, OverflowNeedsLoad
<1>4. \A c \in Conns : ~Registered(c) /\ Phase(c) = "closed"
  BY <1>0, <1>1 DEF Registered, Phase
<1>5. ConnInv
  BY <1>0, <1>1, <1>4 DEF ConnInv
<1>6. PhaseInv
  <2>1. NoConn \notin Conns
    BY ServerAssumption
  <2>2. /\ \A c \in Conns, w \in Workers : ~Held(w, c)
        /\ \A c \in Conns, a \in Actors : ~Answering(a, c)
        /\ \A c \in Conns, a \in Actors, w \in Workers, i \in Nat : ~Queued(a, w, i, c)
    BY SMT, <1>1, <2>1 DEF Held, Answering, Queued
  <2> QED BY <1>4, <2>2 DEF PhaseInv, PhaseRight
<1>7. ContextInv
  <2>1. \A w \in Workers, c \in Conns, s \in Slots : ~Freeing(w, c, s)
    BY <1>1 DEF Freeing, Holding, Handling
  <2> QED BY <1>1, <1>4, <2>1 DEF ContextInv, ContextRight
<1>8. EventInv /\ WorkerInv /\ ActorInv /\ Announced
  BY SMT, <1>1 DEF EventInv, WorkerInv, ActorInv, Announced, Holding, Handling
<1>9. active = Cardinality(Live)
  <2>1. Live = {}
    BY <1>0, <1>1 DEF Live
  <2> QED BY <1>1, <2>1, FS_EmptySet
<1> QED BY <1>2, <1>3, <1>5, <1>6, <1>7, <1>8, <1>9 DEF IndInv, RunInv

\* Every step of a client, a worker or an actor keeps the invariant.
LEMMA NextInv == IndInv /\ [Next]_vars => IndInv'
<1> SUFFICES ASSUME IndInv, [Next]_vars PROVE IndInv'
  OBVIOUS
<1>1. Kept => IndInv'
  BY DEF Kept, IndInv
<1>2. CASE Running /\ Client
  BY <1>1, <1>2, ClientKeeps DEF IndInv
<1>3. ASSUME Running, NEW w \in Workers, Worker(w)
      PROVE  IndInv'
  <2>1. TypeOK /\ RunInv
    BY <1>3 DEF IndInv
  <2>2. CASE \E c \in Conns : AcceptOne(w, c)
    BY <1>1, <1>3, <2>1, <2>2, AcceptKeeps
  <2>3. CASE \/ WorkerStart(w) \/ WorkerEpollWait(w) \/ handle_accept_read(w)
             \/ AcceptDone(w) \/ CountLoad(w) \/ CountStore(w)
    BY <1>1, <1>3, <2>1, <2>3, LocalKeeps
  <2>4. CASE \E e \in worker[w].batch :
               \/ client_handle_error(w, e) \/ ReadError(w, e) \/ ReadBusy(w, e)
               \/ WriteBusy(w, e) \/ WriteError(w, e) \/ WriteSignal(w, e) \/ WriteFinish(w, e)
    BY <1>1, <1>3, <2>1, <2>4, EventKeeps
  <2>5. CASE \E e \in worker[w].batch : ReadFinish(w, e)
    BY <1>1, <1>3, <2>1, <2>5, ReadFinishKeeps
  <2>6. CASE PushRequest(w)
    BY <1>1, <1>3, <2>1, <2>6, PushKeeps
  <2>7. CASE FreeContext(w)
    BY <1>1, <1>3, <2>1, <2>7, FreeContextKeeps
  <2> QED BY <1>3, <2>2, <2>3, <2>4, <2>5, <2>6, <2>7 DEF Worker
<1>4. ASSUME Running, NEW a \in Actors, Actor(a)
      PROVE  IndInv'
  <2>1. TypeOK /\ RunInv
    BY <1>4 DEF IndInv
  <2>2. CASE \/ ActorStart(a) \/ ActorEpollWait(a) \/ Drain(a)
             \/ \E w \in Workers : process_epoll_event(a, w)
    BY <1>1, <1>4, <2>1, <2>2, ActorLocalKeeps
  <2>3. CASE PopRequest(a)
    BY <1>1, <1>4, <2>1, <2>3, PopKeeps
  <2>4. CASE RegisterOutput(a)
    BY <1>1, <1>4, <2>1, <2>4, RegisterKeeps
  <2> QED BY <1>4, <2>2, <2>3, <2>4 DEF Actor
<1>5. CASE UNCHANGED vars
  <2>1. TypeOK' /\ NoCheckFails' /\ OverflowNeedsLoad' /\ (Running' <=> Running)
    BY <1>5 DEF vars, IndInv, TypeOK, NoCheckFails, OverflowNeedsLoad, Running
  <2>2. ASSUME Running PROVE RunInv'
    <3>1. TypeOK /\ RunInv
      BY <2>2 DEF IndInv
    <3>2. sock' \in [Conns -> Socket] /\ \A c \in Conns : sock'[c] = sock[c]
      BY <1>5, <3>1 DEF vars, TypeOK
    <3>3. Kept
      BY <1>5, <2>2, <3>1, <3>2, SocketStep DEF vars
    <3> QED BY <2>1, <2>2, <3>3 DEF Kept
  <2> QED BY <2>1, <2>2 DEF IndInv
<1> QED BY <1>2, <1>3, <1>4, <1>5 DEF Next, Exited

\* The inductive invariant holds in every state of the server.
THEOREM Invariance == Spec => []IndInv
BY InitInv, NextInv, PTL DEF Spec

------------------------------------------------------------------------------
(* What follows from it *)

\* A live context is in one place and a closed one in none.
LEMMA OnePlace ==
  ASSUME TypeOK, RunInv, NEW c \in Conns
  PROVE  Cardinality(Places(c)) = IF req[c].live THEN 1 ELSE 0
<1> DEFINE E == {<<"epoll", w>> : w \in {v \in Workers : reg[c].epoll = v}}
           W == {<<"worker", w>> : w \in {v \in Workers :
                   worker[v].conn = c /\ worker[v].pc \in Handling}}
           A == {<<"actor", a>> : a \in {b \in Actors : actor[b].conn = c}}
           Q == UNION {UNION {{<<"queue", a, w, i>> :
                   i \in {j \in DOMAIN queue[a][w] : queue[a][w][j] = c}}
                     : w \in Workers} : a \in Actors}
<1>0. Places(c) = ((E \cup W) \cup A) \cup Q
  BY DEF Places
<1>1. /\ PhaseRight(c) /\ ConnInv /\ reg[c].epoll \in Workers \cup {NoWorker}
      /\ Phase(c) \in {"closed", "epoll", "worker", "queue", "actor"}
      /\ NoWorker \notin Workers
  BY ServerAssumption DEF RunInv, PhaseInv, Phase, TypeOK, Registration
<1>2. /\ E = {<<"epoll", w>> : w \in {v \in Workers : Registered(c) /\ reg[c].epoll = v}}
      /\ W = {<<"worker", w>> : w \in {v \in Workers : Held(v, c)}}
      /\ A = {<<"actor", a>> : a \in {b \in Actors : Answering(b, c)}}
  BY <1>1 DEF Registered, Held, Answering
<1>3. /\ \A a \in Actors, w \in Workers, i \in Nat :
           Queued(a, w, i, c) => <<"queue", a, w, i>> \in Q
      /\ \A x \in Q : \E a \in Actors, w \in Workers, i \in Nat :
           Queued(a, w, i, c) /\ x = <<"queue", a, w, i>>
  <2>1. \A a \in Actors, w \in Workers : queue[a][w] \in Seq(Conns)
    BY DEF TypeOK
  <2>2. \A a \in Actors, w \in Workers : DOMAIN queue[a][w] = 1 .. Len(queue[a][w])
    BY SMT, <2>1
  <2>3. \A a \in Actors, w \in Workers, i \in Nat :
          Queued(a, w, i, c) => <<"queue", a, w, i>> \in Q
    BY SMT, <2>2 DEF Queued
  <2>4. ASSUME NEW x \in Q
        PROVE  \E a \in Actors, w \in Workers, i \in Nat :
                 Queued(a, w, i, c) /\ x = <<"queue", a, w, i>>
    <3>1. PICK a \in Actors, w \in Workers : \E i \in DOMAIN queue[a][w] :
            queue[a][w][i] = c /\ x = <<"queue", a, w, i>>
      BY SMT
    <3>2. \A i \in DOMAIN queue[a][w] : i \in Nat /\ i \in 1 .. Len(queue[a][w])
      BY SMT, <2>1, <2>2
    <3> QED BY <3>1, <3>2 DEF Queued
  <2> QED BY <2>3, <2>4
<1>4. Phase(c) # "epoll" => ~Registered(c)
  BY <1>1 DEF Phase, ConnInv
<1>5. Phase(c) # "closed" <=> req[c].live
  BY <1>1 DEF Phase
<1> HIDE DEF E, W, A, Q
<1>6. Phase(c) # "epoll" => E = {}
  BY <1>2, <1>4
<1>7. Phase(c) # "worker" => W = {}
  BY SMT, <1>1, <1>2 DEF PhaseRight
<1>8. Phase(c) # "actor" => A = {}
  BY SMT, <1>1, <1>2 DEF PhaseRight
<1>9. Phase(c) # "queue" => Q = {}
  BY <1>1, <1>3 DEF PhaseRight
<1>10. CASE Phase(c) = "closed"
  <2>1. Places(c) = {}
    BY <1>0, <1>6, <1>7, <1>8, <1>9, <1>10
  <2> QED BY <1>5, <1>10, <2>1, FS_EmptySet
<1>11. ASSUME NEW x, Places(c) = {x}, Phase(c) # "closed"
       PROVE  Cardinality(Places(c)) = IF req[c].live THEN 1 ELSE 0
  BY <1>5, <1>11, FS_Singleton
<1>12. CASE Phase(c) = "epoll"
  <2>1. Registered(c) /\ reg[c].epoll \in Workers
    BY <1>1, <1>12 DEF Phase, Registered
  <2>2. E = {<<"epoll", reg[c].epoll>>}
    BY <1>2, <2>1
  <2>3. Places(c) = {<<"epoll", reg[c].epoll>>}
    BY <1>0, <1>7, <1>8, <1>9, <1>12, <2>2
  <2> QED BY <1>11, <1>12, <2>3
<1>13. CASE Phase(c) = "worker"
  <2>1. req[c].epoll_info \in Workers
    BY <1>1, <1>5, <1>13 DEF ConnInv
  <2>2. \A w \in Workers : Held(w, c) <=> w = req[c].epoll_info
    BY <1>1, <1>13 DEF PhaseRight
  <2>3. W = {<<"worker", req[c].epoll_info>>}
    BY <1>2, <2>1, <2>2
  <2>4. Places(c) = {<<"worker", req[c].epoll_info>>}
    BY <1>0, <1>6, <1>8, <1>9, <1>13, <2>3
  <2> QED BY <1>11, <1>13, <2>4
<1>14. CASE Phase(c) = "actor"
  <2>1. PICK a \in Actors : Answering(a, c)
    BY <1>1, <1>14 DEF PhaseRight
  <2>2. \A b \in Actors : Answering(b, c) <=> b = a
    BY <1>1, <2>1 DEF PhaseRight
  <2>3. A = {<<"actor", a>>}
    BY <1>2, <2>2
  <2>4. Places(c) = {<<"actor", a>>}
    BY <1>0, <1>6, <1>7, <1>9, <1>14, <2>3
  <2> QED BY <1>11, <1>14, <2>4
<1>15. CASE Phase(c) = "queue"
  <2>1. PICK v \in Workers : v = req[c].epoll_info
    BY <1>1, <1>5, <1>15 DEF ConnInv
  <2>2. PICK a \in Actors, i \in Nat : Queued(a, v, i, c)
    BY <1>1, <1>15, <2>1 DEF PhaseRight
  <2>3. \A b \in Actors, w \in Workers, j \in Nat :
          Queued(b, w, j, c) => b = a /\ w = v /\ j = i
    BY SMT, <1>1, <2>1, <2>2 DEF PhaseRight
  <2>4. Q = {<<"queue", a, v, i>>}
    BY <1>3, <2>2, <2>3
  <2>5. Places(c) = {<<"queue", a, v, i>>}
    BY <1>0, <1>6, <1>7, <1>8, <1>15, <2>4
  <2> QED BY <1>11, <1>15, <2>5
<1> QED BY <1>1, <1>10, <1>12, <1>13, <1>14, <1>15

\* SingleOwner: a RequestContext, which client.c and actor.c touch without a
\* lock, is at any moment in the hands of one epoll instance, one worker, one
\* place of one queue or one actor, however many of each there are.
THEOREM OneOwnerAlways == Spec => []SingleOwner
<1>1. IndInv => SingleOwner
  BY OnePlace DEF IndInv, SingleOwner
<1> QED BY <1>1, Invariance, PTL

\* ContextOwnership: a SocketContext is allocated exactly while a registration
\* or the worker about to free it refers to it; none is leaked or freed twice.
THEOREM ContextsAlwaysOwned == Spec => []ContextOwnership
<1>1. IndInv => ContextOwnership
  <2> SUFFICES ASSUME TypeOK, RunInv, NEW c \in Conns, NEW s \in Slots
               PROVE  LET registered == reg[c].dir # "none" /\ reg[c].slot = s
                          freeing == {w \in Workers : /\ worker[w].conn = c
                                                      /\ worker[w].slot = s
                                                      /\ worker[w].pc \in Handling \cup {"free"}}
                      IN /\ sctx[c][s] # "none" <=> registered \/ freeing # {}
                         /\ freeing # {} => ~registered /\ Cardinality(freeing) = 1
                         /\ registered => sctx[c][s] = IF reg[c].dir = "in" THEN "read" ELSE "write"
    BY DEF IndInv, ContextOwnership
  <2> DEFINE registered == reg[c].dir # "none" /\ reg[c].slot = s
             freeing == {w \in Workers : /\ worker[w].conn = c
                                         /\ worker[w].slot = s
                                         /\ worker[w].pc \in Handling \cup {"free"}}
  <2>1. ContextRight(c, s)
    BY DEF RunInv, ContextInv
  <2>2. registered <=> Registered(c) /\ reg[c].slot = s
    BY DEF RunInv, ConnInv
  <2>3. \A w \in Workers : w \in freeing <=> Freeing(w, c, s)
    BY DEF Freeing, Holding
  <2>4. freeing \subseteq Workers
    OBVIOUS
  <2> HIDE DEF registered, freeing
  <2>5. freeing # {} <=> \E w \in Workers : Freeing(w, c, s)
    BY <2>3, <2>4
  <2>6. sctx[c][s] # "none" <=> registered \/ freeing # {}
    BY <2>1, <2>2, <2>5 DEF ContextRight
  <2>7. registered => sctx[c][s] = IF reg[c].dir = "in" THEN "read" ELSE "write"
    BY <2>1, <2>2 DEF ContextRight
  <2>8. ASSUME freeing # {}
        PROVE  ~registered /\ Cardinality(freeing) = 1
    <3>1. PICK w \in Workers : Freeing(w, c, s)
      BY <2>5, <2>8
    <3>2. freeing = {w}
      BY <2>1, <2>3, <2>4, <3>1 DEF ContextRight
    <3>3. ~registered
      BY <2>1, <2>2, <3>1 DEF ContextRight
    <3> QED BY <3>2, <3>3, FS_Singleton
  <2> QED BY <2>6, <2>7, <2>8 DEF registered, freeing
<1> QED BY <1>1, Invariance, PTL

\* EventsAreFresh: no event of io_event_loop's array is about a registration
\* that handling an earlier one has changed.
THEOREM EventsAlwaysFresh == Spec => []EventsAreFresh
<1>1. IndInv => EventsAreFresh
  BY DEF IndInv, RunInv, EventInv, EventsAreFresh
<1> QED BY <1>1, Invariance, PTL

\* NoCheckFails: no CHECK on a timer or on epoll_ctl ever ends the process.
THEOREM ChecksNeverFail == Spec => []NoCheckFails
<1>1. IndInv => NoCheckFails
  BY DEF IndInv
<1> QED BY <1>1, Invariance, PTL

\* OverflowNeedsLoad: the CHECK after queue_push fails only with more
\* connections open than one queue has places.
THEOREM OverflowAlwaysNeedsLoad == Spec => []OverflowNeedsLoad
<1>1. IndInv => OverflowNeedsLoad
  BY DEF IndInv
<1> QED BY <1>1, Invariance, PTL

\* QueueAnnounced: the event descriptor and the count the actor works off are
\* together the length of the queue: no request waits unannounced.
THEOREM QueueAlwaysAnnounced == Spec => []QueueAnnounced
<1>1. IndInv => QueueAnnounced
  BY DEF IndInv, RunInv, Announced, QueueAnnounced
<1> QED BY <1>1, Invariance, PTL

\* QueueOfHome: input_queue[w] of an actor only carries requests of worker w,
\* and the actor registers the response with that worker's epoll instance.
THEOREM QueueAlwaysOfHome == Spec => []QueueOfHome
<1>1. IndInv => QueueOfHome
  <2> SUFFICES ASSUME TypeOK, RunInv, NEW a \in Actors
               PROVE  /\ \A w \in Workers : \A i \in DOMAIN queue[a][w] :
                           req[queue[a][w][i]].epoll_info = w
                      /\ actor[a].conn # NoConn => req[actor[a].conn].epoll_info = actor[a].from
    BY DEF IndInv, QueueOfHome
  <2>1. ASSUME NEW w \in Workers, NEW i \in DOMAIN queue[a][w]
        PROVE  req[queue[a][w][i]].epoll_info = w
    <3>1. queue[a][w] \in Seq(Conns)
      BY DEF TypeOK
    <3>2. queue[a][w][i] \in Conns /\ i \in Nat /\ Queued(a, w, i, queue[a][w][i])
      BY SMT, <3>1 DEF Queued
    <3> QED BY SMT, <3>2 DEF RunInv, PhaseInv, PhaseRight
  <2>2. ASSUME actor[a].conn # NoConn
        PROVE  req[actor[a].conn].epoll_info = actor[a].from
    <3>1. actor[a].conn \in Conns /\ Answering(a, actor[a].conn)
      BY <2>2 DEF TypeOK, ActorState, Answering
    <3> QED BY <3>1 DEF RunInv, PhaseInv, PhaseRight
  <2> QED BY <2>1, <2>2
<1> QED BY <1>1, Invariance, PTL

\* ActiveIsExact: active_connections is the number of open connections.
THEOREM ActiveAlwaysExact == Spec => []ActiveIsExact
<1>1. IndInv => ActiveIsExact
  BY DEF IndInv, RunInv, Live, ActiveIsExact
<1> QED BY <1>1, Invariance, PTL

==============================================================================
