------------------------------- MODULE Server -------------------------------
(***************************************************************************)
(* The running server: io workers (io_worker.c, client.c), application     *)
(* actors (actor.c), the queues between them, and the kernel objects they  *)
(* share (sockets and epoll instances), driven by clients that connect,    *)
(* send, read, half-close and reset at any moment.                         *)
(*                                                                         *)
(* A connection is named by its file descriptor, which the kernel hands    *)
(* out again after close, possibly to another worker.  Of the bytes only   *)
(* "is there something to read" and the units of a response still to be    *)
(* sent are kept.  The queue is the one CMakeLists.txt links (LockQueue):  *)
(* its operations are atomic.                                              *)
(***************************************************************************)
EXTENDS Naturals, Sequences, FiniteSets

CONSTANTS
  Workers,      \* io workers, each with its own epoll instance and listener
  ActorCount,   \* actor_count
  Conns,        \* file descriptors the kernel hands out to clients
  NoWorker, NoConn, Listener,   \* "none", "none", the listening socket
  QueueCap,     \* argument of queue_init in main.c
  MaxEvents,    \* MAX_EVENTS of io_worker.c
  CountMod,     \* range of the size_t counter of client.c
  Reach,        \* which listening sockets a client's address may lead to
  Troubles,     \* what may befall a client: see PeerStep
  RespUnits,    \* length of a response, in units of the socket buffer
  TxCap         \* room of a socket's send buffer, in the same units

ASSUME ServerAssumption ==
  /\ {ActorCount, QueueCap, MaxEvents, CountMod, RespUnits, TxCap} \subseteq Nat \ {0}
  /\ Reach \subseteq Conns \X Workers
  /\ Troubles \subseteq {"urgent", "shut", "reset", "broken"}
  /\ NoWorker \notin Workers
  /\ NoConn \notin Conns
  /\ Listener \notin Conns
  /\ IsFiniteSet(Workers)
  /\ IsFiniteSet(Conns)

VARIABLES
  sock,      \* kernel: the socket behind each descriptor
  reg,       \* kernel: its registration in an epoll instance
  req,       \* the RequestContext of each open connection
  sctx,      \* the SocketContexts of each connection, by slot
  queue,     \* input_queue[w] of actor a
  event,     \* and its event descriptor
  worker,    \* the threads' local state
  actor,
  count,     \* the static counter of client.c
  active,    \* active_connections of server_stats.c
  exited     \* "no", or why the process called exit

vars == <<sock, reg, req, sctx, queue, event, worker, actor, count, active, exited>>

Actors == 0 .. ActorCount - 1

\* A descriptor has at most one SocketContext in use and one that each worker
\* has yet to free.
Slots == 0 .. Cardinality(Workers)

NoSock == [state |-> "free", home |-> NoWorker, rx |-> FALSE, tx |-> 0, peer |-> "open"]
NoReg == [epoll |-> NoWorker, dir |-> "none", slot |-> 0]
NoReq == [live |-> FALSE, epoll_info |-> NoWorker, out |-> 0, keep |-> FALSE,
          timers |-> {}]
AcceptEvent == [conn |-> Listener, slot |-> 0, kind |-> "in"]

Init ==
  /\ sock = [c \in Conns |-> NoSock]
  /\ reg = [c \in Conns |-> NoReg]
  /\ req = [c \in Conns |-> NoReq]
  /\ sctx = [c \in Conns |-> [s \in Slots |-> "none"]]
  /\ queue = [a \in Actors |-> [w \in Workers |-> << >>]]
  /\ event = [a \in Actors |-> [w \in Workers |-> 0]]
  /\ worker = [w \in Workers |->
       [pc |-> "init", batch |-> {}, conn |-> NoConn, slot |-> 0, tmp |-> 0]]
  /\ actor = [a \in Actors |->
       [pc |-> "init", batch |-> {}, from |-> NoWorker, num |-> 0, conn |-> NoConn]]
  /\ count = 0
  /\ active = 0
  /\ exited = "no"

Running == exited = "no"

\* The process exits at the first of the CHECKs <<failed, reason>> that fails.
Checks(cs) ==
  exited' = IF \E i \in DOMAIN cs : cs[i][1]
            THEN cs[CHOOSE i \in DOMAIN cs :
                      cs[i][1] /\ \A j \in 1 .. i - 1 : ~cs[j][1]][2]
            ELSE "no"

\* input_buffer_read_into reads until read returns 0 or an error: it ends in
\* READ_ERROR when the peer is gone, whatever came before, else in READ_BUSY.
ReadFails(c) == sock[c].peer \in {"shut", "reset", "broken"}

\* The CHECKs of per_request_record_start and per_request_record_end.  Of the
\* five timers only these two run from one step to another.
StartFails(c, type) == type \in req[c].timers
EndFails(c, type) == type \notin req[c].timers

init_request_context(w) ==
  [live |-> TRUE, epoll_info |-> w, out |-> 0, keep |-> FALSE, timers |-> {}]

\* Both buffers and all timers are cleared, the connection stays.
context_finalize_reset(r) == [r EXCEPT !.out = 0, !.timers = {}]

\* handle_request formats the whole response into the output buffer.
handle_request(r) == [r EXCEPT !.out = RespUnits]

\* Whether a header asks for keep-alive was settled when they were parsed.
context_keep_alive(c) == req[c].keep

\* Mutant: the start of a timer is not recorded.
TimerOnNever(r, type) == r

TimerOn(r, type) == [r EXCEPT !.timers = @ \cup {type}]
TimerOff(r, type) == [r EXCEPT !.timers = @ \ {type}]

------------------------------------------------------------------------------
(* Clients and the kernel's side of a connection *)

client_vars == <<reg, req, sctx, queue, event, worker, actor, count, active, exited>>

Connect(c, w) ==
  /\ <<c, w>> \in Reach
  /\ sock[c].state = "free"
  /\ sock' = [sock EXCEPT ![c] =
       [state |-> "backlog", home |-> w, rx |-> FALSE, tx |-> 0, peer |-> "open"]]
  /\ UNCHANGED client_vars

ClientSend(c) ==
  /\ sock[c].state # "free"
  /\ sock[c].peer \in {"open", "urgent"}
  /\ ~sock[c].rx
  /\ sock' = [sock EXCEPT ![c].rx = TRUE]
  /\ UNCHANGED client_vars

ClientRecv(c) ==
  /\ sock[c].tx > 0
  /\ sock[c].peer \notin {"reset", "broken"}
  /\ sock' = [sock EXCEPT ![c].tx = @ - 1]
  /\ UNCHANGED client_vars

\* Out-of-band data (EPOLLPRI), a FIN (EPOLLRDHUP) or an RST (EPOLLERR and
\* EPOLLHUP) arrives; "broken" is an RST after a FIN.
PeerStep == {<<"open", "urgent">>, <<"open", "shut">>, <<"open", "reset">>,
             <<"urgent", "shut">>, <<"urgent", "reset">>, <<"shut", "broken">>}

\* Bytes received before a FIN or an RST are dropped here: a read that meets
\* the end of the stream is an error whatever it got before.
ClientTrouble(c) ==
  /\ sock[c].state # "free"
  /\ \E p \in PeerStep :
       /\ p[1] = sock[c].peer
       /\ p[2] \in Troubles
       /\ sock' = [sock EXCEPT ![c].peer = p[2],
                               ![c].rx = @ /\ p[2] = "urgent",
                               ![c].tx = IF p[2] \in {"reset", "broken"} THEN 0 ELSE @]
  /\ UNCHANGED client_vars

Client ==
  \E c \in Conns :
    \/ \E w \in Workers : Connect(c, w)
    \/ ClientSend(c)
    \/ ClientRecv(c)
    \/ ClientTrouble(c)

\* What level-triggered epoll reports for a registered descriptor; io_worker.c
\* looks at the error bits first and then at nothing else.
Kind(c) ==
  CASE sock[c].peer # "open" -> "err"
    [] sock[c].peer = "open" /\ reg[c].dir = "in" /\ sock[c].rx -> "in"
    [] sock[c].peer = "open" /\ reg[c].dir = "out" /\ sock[c].tx < TxCap -> "out"
    [] OTHER -> "none"

Backlog(w) == {c \in Conns : sock[c].state = "backlog" /\ sock[c].home = w}

Ready(w) ==
  {[conn |-> c, slot |-> reg[c].slot, kind |-> Kind(c)] :
     c \in {d \in Conns : reg[d].epoll = w /\ Kind(d) # "none"}}
  \cup (IF Backlog(w) # {} THEN {AcceptEvent} ELSE {})

------------------------------------------------------------------------------
(* io_worker.c: the event loop and the accept handler *)

\* Past the startup barrier: the epoll instance is made and listens.
WorkerStart(w) ==
  /\ worker[w].pc = "init"
  /\ worker' = [worker EXCEPT ![w].pc = "loop"]
  /\ UNCHANGED <<sock, reg, req, sctx, queue, event, actor, count, active, exited>>

WorkerEpollWait(w) ==
  /\ worker[w].pc = "loop"
  /\ worker[w].batch = {}
  /\ Ready(w) # {}
  /\ \E b \in SUBSET Ready(w) :
       /\ Cardinality(b) = IF Cardinality(Ready(w)) < MaxEvents
                           THEN Cardinality(Ready(w)) ELSE MaxEvents
       /\ worker' = [worker EXCEPT ![w].batch = b]
  /\ UNCHANGED <<sock, reg, req, sctx, queue, event, actor, count, active, exited>>

\* The loop over the reported events reaches event e.
Dispatch(w, e) == worker[w].pc = "loop" /\ e \in worker[w].batch

FreeSlot(c) == CHOOSE s \in Slots : sctx[c][s] = "none"

\* epoll_ctl(EPOLL_CTL_ADD) fails for a descriptor that is there already or
\* not open; EPOLL_CTL_DEL and MOD fail for one that is not there.
AddFails(c, w) == reg[c].epoll = w \/ sock[c].state # "open"
ModFails(c, w) == reg[c].epoll # w

handle_accept_read(w) ==
  /\ Dispatch(w, AcceptEvent)
  /\ worker' = [worker EXCEPT ![w].pc = "accept", ![w].batch = @ \ {AcceptEvent}]
  /\ UNCHANGED <<sock, reg, req, sctx, queue, event, actor, count, active, exited>>

\* One turn of the accept loop: a connection is taken and registered.
AcceptOne(w, c) ==
  /\ worker[w].pc = "accept"
  /\ c \in Backlog(w)
  /\ sock' = [sock EXCEPT ![c].state = "open"]
  /\ active' = active + 1
  /\ req' = [req EXCEPT ![c] = TimerOn(init_request_context(w), "TOTAL")]
  /\ sctx' = [sctx EXCEPT ![c][FreeSlot(c)] = "read"]
  /\ reg' = [reg EXCEPT ![c] = [epoll |-> w, dir |-> "in", slot |-> FreeSlot(c)]]
  /\ Checks(<< <<reg[c].epoll = w, "epoll_add">> >>)
  /\ UNCHANGED <<queue, event, worker, actor, count>>

\* accept returns EAGAIN.
AcceptDone(w) ==
  /\ worker[w].pc = "accept"
  /\ Backlog(w) = {}
  /\ worker' = [worker EXCEPT ![w].pc = "loop"]
  /\ UNCHANGED <<sock, reg, req, sctx, queue, event, actor, count, active, exited>>

------------------------------------------------------------------------------
(* client.c *)

\* Mutant: the connection is not counted out.
KeepActive == active' = active

server_stats_decr_active_requests == active' = active - 1

\* Mutant: the descriptor stays registered.
KeepRegistered(c) == reg' = reg

delete_epoll_event(c) == reg' = [reg EXCEPT ![c] = NoReg]

\* client_close_connection: statistics, deregistration, the RequestContext,
\* its descriptor and the SocketContext.
client_close_connection(w, c, s) ==
  /\ server_stats_decr_active_requests
  /\ delete_epoll_event(c)
  /\ req' = [req EXCEPT ![c] = NoReq]
  /\ sock' = [sock EXCEPT ![c] = NoSock]
  /\ sctx' = [sctx EXCEPT ![c][s] = "none"]
  /\ Checks(<< <<EndFails(c, "TOTAL"), "timer_end">>, <<ModFails(c, w), "epoll_del">> >>)

client_reset_connection(w, c, s) ==
  /\ req' = [req EXCEPT ![c] = TimerOn(context_finalize_reset(@), "TOTAL")]
  /\ sctx' = [sctx EXCEPT ![c][s] = "read"]
  /\ reg' = [reg EXCEPT ![c] = [epoll |-> w, dir |-> "in", slot |-> s]]
  /\ Checks(<< <<EndFails(c, "TOTAL"), "timer_end">>, <<ModFails(c, w), "epoll_mod">> >>)

\* Mutant: io_event_loop goes on to the other bits after an error.
DoneFallsThrough(w, e) ==
  worker' = [worker EXCEPT ![w].batch = IF e.kind # "err" THEN @ \ {e}
               ELSE (@ \ {e}) \cup {[e EXCEPT !.kind = reg[e.conn].dir]}]

Done(w, e) == worker' = [worker EXCEPT ![w].batch = @ \ {e}]

\* client_handle_error closes whatever the connection was doing.
client_handle_error(w, e) ==
  /\ Dispatch(w, e)
  /\ e.kind = "err"
  /\ client_close_connection(w, e.conn, e.slot)
  /\ Done(w, e)
  /\ UNCHANGED <<queue, event, actor, count>>

ReadEvent(w, e) ==
  /\ Dispatch(w, e)
  /\ e.kind = "in"
  /\ e.conn # Listener
  /\ sctx[e.conn][e.slot] = "read"

\* client_handle_read: what the parser says of the buffer is left open, since
\* it also parses bytes past the ones just read.
ReadError(w, e) ==
  /\ ReadEvent(w, e)
  /\ client_close_connection(w, e.conn, e.slot)
  /\ Done(w, e)
  /\ UNCHANGED <<queue, event, actor, count>>

ReadBusy(w, e) ==
  /\ ReadEvent(w, e)
  /\ ~ReadFails(e.conn)
  /\ sock' = [sock EXCEPT ![e.conn].rx = FALSE]
  /\ Done(w, e)
  /\ UNCHANGED <<reg, req, sctx, queue, event, actor, count, active, exited>>

\* READ_FINISH up to the deregistration; the request then belongs to w alone.
ReadFinish(w, e) ==
  /\ ReadEvent(w, e)
  /\ ~ReadFails(e.conn)
  /\ sock' = [sock EXCEPT ![e.conn].rx = FALSE]
  /\ \E k \in BOOLEAN : req' = [req EXCEPT ![e.conn].keep = k]
  /\ delete_epoll_event(e.conn)
  /\ Checks(<< <<ModFails(e.conn, w), "epoll_del">> >>)
  /\ worker' = [worker EXCEPT ![w].pc = "load", ![w].batch = @ \ {e},
                              ![w].conn = e.conn, ![w].slot = e.slot]
  /\ UNCHANGED <<sctx, queue, event, actor, count, active>>

\* count++ is a plain load and a plain store, and count is shared by the
\* workers.
CountLoad(w) ==
  /\ worker[w].pc = "load"
  /\ worker' = [worker EXCEPT ![w].pc = "store", ![w].tmp = count]
  /\ UNCHANGED <<sock, reg, req, sctx, queue, event, actor, count, active, exited>>

CountStore(w) ==
  /\ worker[w].pc = "store"
  /\ count' = (worker[w].tmp + 1) % CountMod
  /\ worker' = [worker EXCEPT ![w].pc = "push"]
  /\ UNCHANGED <<sock, reg, req, sctx, queue, event, actor, active, exited>>

\* Mutant: every worker uses the same queue of an actor.
input_queue_first(w) == CHOOSE v \in Workers : TRUE

\* The index into an actor's input_queue: the id of the worker's EpollInfo.
input_queue(w) == w

\* Mutant: the queue is full one place too early.
is_full_early(q) == Len(q) + 1 = QueueCap

is_full(q) == Len(q) = QueueCap

\* Mutant: the actor is not notified.
NotNotified(n) == n

\* eventfd_write(add_event, 1) in queue_push
Notified(n) == n + 1

\* QUEUE_TIME is started, the request is pushed and the actor notified; a
\* full queue ends the process.
PushRequest(w) ==
  LET c == worker[w].conn
      a == worker[w].tmp % ActorCount
      i == input_queue(w)
      full == is_full(queue[a][i])
  IN /\ worker[w].pc = "push"
     /\ req' = [req EXCEPT ![c] = TimerOn(@, "QUEUE")]
     /\ queue' = IF full THEN queue ELSE [queue EXCEPT ![a][i] = Append(@, c)]
     /\ event' = IF full THEN event ELSE [event EXCEPT ![a][i] = Notified(@)]
     /\ Checks(<< <<StartFails(c, "QUEUE"), "timer_start">>, <<full, "queue_full">> >>)
     /\ worker' = [worker EXCEPT ![w].pc = "free"]
     /\ UNCHANGED <<sock, reg, sctx, actor, count, active>>

\* Mutant: the reading context is not freed.
NotFreed(c, s) == sctx

\* free(context)
Freed(c, s) == [sctx EXCEPT ![c][s] = "none"]

FreeContext(w) ==
  /\ worker[w].pc = "free"
  /\ sctx' = Freed(worker[w].conn, worker[w].slot)
  /\ worker' = [worker EXCEPT ![w] =
       [@ EXCEPT !.pc = "loop", !.conn = NoConn, !.slot = 0, !.tmp = 0]]
  /\ UNCHANGED <<sock, reg, req, queue, event, actor, count, active, exited>>

WriteEvent(w, e) ==
  /\ Dispatch(w, e)
  /\ e.kind = "out"
  /\ sctx[e.conn][e.slot] = "write"

\* output_buffer_write_to sends until the response or the send buffer ends.
Sent(c) == IF req[c].out < TxCap - sock[c].tx THEN req[c].out
           ELSE TxCap - sock[c].tx

WriteBusy(w, e) ==
  /\ WriteEvent(w, e)
  /\ sock[e.conn].peer \notin {"reset", "broken"}
  /\ req[e.conn].out > Sent(e.conn)
  /\ req' = [req EXCEPT ![e.conn].out = @ - Sent(e.conn)]
  /\ sock' = [sock EXCEPT ![e.conn].tx = @ + Sent(e.conn)]
  /\ Done(w, e)
  /\ UNCHANGED <<reg, sctx, queue, event, actor, count, active, exited>>

WriteError(w, e) ==
  /\ WriteEvent(w, e)
  /\ sock[e.conn].peer = "reset"
  /\ client_close_connection(w, e.conn, e.slot)
  /\ Done(w, e)
  /\ UNCHANGED <<queue, event, actor, count>>

\* write raises SIGPIPE on a connection that was shut and then reset, and the
\* server leaves the signal's default action in place.
WriteSignal(w, e) ==
  /\ WriteEvent(w, e)
  /\ sock[e.conn].peer = "broken"
  /\ exited' = "sigpipe"
  /\ UNCHANGED <<sock, reg, req, sctx, queue, event, worker, actor, count, active>>

\* WRITE_FINISH: the connection is kept for the next request or closed.
WriteFinish(w, e) ==
  /\ WriteEvent(w, e)
  /\ sock[e.conn].peer \notin {"reset", "broken"}
  /\ req[e.conn].out = Sent(e.conn)
  /\ \/ /\ context_keep_alive(e.conn)
        /\ client_reset_connection(w, e.conn, e.slot)
        /\ sock' = [sock EXCEPT ![e.conn].tx = @ + Sent(e.conn)]
        /\ UNCHANGED active
     \/ /\ ~context_keep_alive(e.conn)
        /\ client_close_connection(w, e.conn, e.slot)
  /\ Done(w, e)
  /\ UNCHANGED <<queue, event, actor, count>>

Worker(w) ==
  \/ WorkerStart(w)
  \/ WorkerEpollWait(w)
  \/ handle_accept_read(w)
  \/ \E c \in Conns : AcceptOne(w, c)
  \/ AcceptDone(w)
  \/ \E e \in worker[w].batch :
       \/ client_handle_error(w, e)
       \/ ReadError(w, e)
       \/ ReadBusy(w, e)
       \/ ReadFinish(w, e)
       \/ WriteBusy(w, e)
       \/ WriteError(w, e)
       \/ WriteSignal(w, e)
       \/ WriteFinish(w, e)
  \/ CountLoad(w)
  \/ CountStore(w)
  \/ PushRequest(w)
  \/ FreeContext(w)

------------------------------------------------------------------------------
(* actor.c *)

\* Past the startup barrier: every input queue's descriptor is registered.
ActorStart(a) ==
  /\ actor[a].pc = "init"
  /\ actor' = [actor EXCEPT ![a].pc = "loop"]
  /\ UNCHANGED <<sock, reg, req, sctx, queue, event, worker, count, active, exited>>

ActorEpollWait(a) ==
  /\ actor[a].pc = "loop"
  /\ actor[a].batch = {}
  /\ \E w \in Workers : event[a][w] > 0
  /\ actor' = [actor EXCEPT ![a].batch = {w \in Workers : event[a][w] > 0}]
  /\ UNCHANGED <<sock, reg, req, sctx, queue, event, worker, count, active, exited>>

\* process_epoll_event is called for the queue of worker w.
process_epoll_event(a, w) ==
  /\ actor[a].pc = "loop"
  /\ w \in actor[a].batch
  /\ actor' = [actor EXCEPT ![a].pc = "drain", ![a].batch = @ \ {w}, ![a].from = w]
  /\ UNCHANGED <<sock, reg, req, sctx, queue, event, worker, count, active, exited>>

\* Mutant: one read of the descriptor is taken for one request.
OneToRead(n) == 1

num_to_read(n) == n

\* eventfd_read takes the whole count; EAGAIN returns.
Drain(a) ==
  LET w == actor[a].from
  IN /\ actor[a].pc = "drain"
     /\ event' = [event EXCEPT ![a][w] = 0]
     /\ actor' = [actor EXCEPT ![a] =
          IF event[a][w] = 0 THEN [@ EXCEPT !.pc = "loop", !.from = NoWorker]
          ELSE [@ EXCEPT !.pc = "pop", !.num = num_to_read(event[a][w])]]
     /\ UNCHANGED <<sock, reg, req, sctx, queue, worker, count, active, exited>>

\* queue_pop, the end of QUEUE_TIME and handle_request, which builds the
\* response.  A null result would return with the rest of the count unused.
PopRequest(a) ==
  LET w == actor[a].from
      c == Head(queue[a][w])
  IN /\ actor[a].pc = "pop"
     /\ IF queue[a][w] = << >>
        THEN /\ actor' = [actor EXCEPT ![a] =
                  [@ EXCEPT !.pc = "loop", !.from = NoWorker, !.num = 0]]
             /\ UNCHANGED <<queue, req, exited>>
        ELSE /\ queue' = [queue EXCEPT ![a][w] = Tail(@)]
             /\ req' = [req EXCEPT ![c] = handle_request(TimerOff(@, "QUEUE"))]
             /\ Checks(<< <<EndFails(c, "QUEUE"), "timer_end">> >>)
             /\ actor' = [actor EXCEPT ![a].pc = "register", ![a].num = @ - 1,
                                       ![a].conn = c]
     /\ UNCHANGED <<sock, reg, sctx, event, worker, count, active>>

\* A SocketContext for the write is made and registered with the epoll
\* instance the request came from: from here on the worker may close it.
RegisterOutput(a) ==
  LET c == actor[a].conn
  IN /\ actor[a].pc = "register"
     /\ sctx' = [sctx EXCEPT ![c][FreeSlot(c)] = "write"]
     /\ reg' = [reg EXCEPT ![c] = [epoll |-> req[c].epoll_info, dir |-> "out",
                                   slot |-> FreeSlot(c)]]
     /\ Checks(<< <<AddFails(c, req[c].epoll_info), "epoll_add">> >>)
     /\ actor' = [actor EXCEPT ![a] =
          [@ EXCEPT !.pc = IF actor[a].num = 0 THEN "drain" ELSE "pop", !.conn = NoConn]]
     /\ UNCHANGED <<sock, req, queue, event, worker, count, active>>

Actor(a) ==
  \/ ActorStart(a)
  \/ ActorEpollWait(a)
  \/ \E w \in Workers : process_epoll_event(a, w)
  \/ Drain(a)
  \/ PopRequest(a)
  \/ RegisterOutput(a)

------------------------------------------------------------------------------

\* After exit nothing more happens.
Exited == ~Running /\ UNCHANGED vars

Next ==
  \/ Running /\ Client
  \/ Running /\ \E w \in Workers : Worker(w)
  \/ Running /\ \E a \in Actors : Actor(a)
  \/ Exited

Spec == Init /\ [][Next]_vars

\* Every thread that can run is scheduled, and a client that keeps its
\* connection reads what it is sent.
FairSpec ==
  /\ Spec
  /\ \A w \in Workers : WF_vars(Running /\ Worker(w))
  /\ \A a \in Actors : WF_vars(Running /\ Actor(a))
  /\ \A c \in Conns : WF_vars(Running /\ ClientRecv(c))

------------------------------------------------------------------------------
(* Properties *)

Handling == {"load", "store", "push"}

Socket == [state : {"free", "backlog", "open"}, home : Workers \cup {NoWorker},
           rx : BOOLEAN, tx : 0 .. TxCap,
           peer : {"open", "urgent", "shut", "reset", "broken"}]
Registration == [epoll : Workers \cup {NoWorker}, dir : {"none", "in", "out"}, slot : Slots]
RequestContext == [live : BOOLEAN, epoll_info : Workers \cup {NoWorker},
                   out : 0 .. RespUnits, keep : BOOLEAN, timers : SUBSET {"TOTAL", "QUEUE"}]
EpollEvent == [conn : Conns \cup {Listener}, slot : Slots, kind : {"in", "out", "err"}]
WorkerState == [pc : {"init", "loop", "accept", "free"} \cup Handling,
                batch : SUBSET EpollEvent,
                conn : Conns \cup {NoConn}, slot : Slots, tmp : 0 .. CountMod - 1]
ActorState == [pc : {"init", "loop", "drain", "pop", "register"}, batch : SUBSET Workers,
               from : Workers \cup {NoWorker}, num : Nat, conn : Conns \cup {NoConn}]

TypeOK ==
  /\ sock \in [Conns -> Socket]
  /\ reg \in [Conns -> Registration]
  /\ req \in [Conns -> RequestContext]
  /\ sctx \in [Conns -> [Slots -> {"none", "read", "write"}]]
  /\ queue \in [Actors -> [Workers -> Seq(Conns)]]
  /\ event \in [Actors -> [Workers -> Nat]]
  /\ worker \in [Workers -> WorkerState]
  /\ actor \in [Actors -> ActorState]
  /\ count \in 0 .. CountMod - 1
  /\ active \in Nat
  /\ exited \in {"no", "sigpipe", "queue_full", "epoll_add", "epoll_mod",
                 "epoll_del", "timer_start", "timer_end"}

\* Where the RequestContext of c is: in an epoll instance, in the hands of a
\* worker or an actor, or at some place of some queue.
Places(c) ==
  {<<"epoll", w>> : w \in {v \in Workers : reg[c].epoll = v}}
  \cup {<<"worker", w>> : w \in {v \in Workers :
          worker[v].conn = c /\ worker[v].pc \in Handling}}
  \cup {<<"actor", a>> : a \in {b \in Actors : actor[b].conn = c}}
  \cup UNION {UNION {{<<"queue", a, w, i>> :
          i \in {j \in DOMAIN queue[a][w] : queue[a][w][j] = c}}
            : w \in Workers} : a \in Actors}

(***************************************************************************)
(* A request context belongs to one place at a time: a registration of its *)
(* descriptor, the worker that has parsed it, one entry of one queue, or   *)
(* the actor answering it.  client.c and actor.c share it without a lock   *)
(* and rely on nothing else; a closed one is nowhere.                      *)
(***************************************************************************)
SingleOwner ==
  Running => \A c \in Conns : Cardinality(Places(c)) = IF req[c].live THEN 1 ELSE 0

(***************************************************************************)
(* A SocketContext is allocated exactly as long as somebody refers to it:  *)
(* the registration, or the worker between the deregistration and          *)
(* free(context) in client_handle_read.  None is leaked or freed twice,    *)
(* and its handlers are the ones the registration asks for, so the NULL    *)
(* handler branches of io_event_loop are dead.                             *)
(* All of it presumes the types (TypeOK).                                  *)
(***************************************************************************)
ContextOwnership ==
  TypeOK /\ (Running => \A c \in Conns, s \in Slots :
    LET registered == reg[c].dir # "none" /\ reg[c].slot = s
        freeing == {w \in Workers : /\ worker[w].conn = c
                                    /\ worker[w].slot = s
                                    /\ worker[w].pc \in Handling \cup {"free"}}
    IN /\ sctx[c][s] # "none" <=> registered \/ freeing # {}
       /\ freeing # {} => ~registered /\ Cardinality(freeing) = 1
       /\ registered => sctx[c][s] = IF reg[c].dir = "in" THEN "read" ELSE "write")

(***************************************************************************)
(* An event io_event_loop has still to handle from its last epoll_wait is  *)
(* about the registration as it is now: handling the earlier events of the *)
(* array never frees a context that a later one points to.                 *)
(***************************************************************************)
EventsAreFresh ==
  Running => \A w \in Workers : \A e \in worker[w].batch \ {AcceptEvent} :
    /\ reg[e.conn].epoll = w
    /\ reg[e.conn].slot = e.slot
    /\ e.kind \in {reg[e.conn].dir, "err"}

(***************************************************************************)
(* None of the internal CHECKs that end the process can fail: epoll_ctl is *)
(* never asked to add a descriptor that is there or to change one that is  *)
(* not, and no timer is started twice or ended before it is started.       *)
(***************************************************************************)
NoCheckFails == exited \in {"no", "queue_full", "sigpipe"}

(***************************************************************************)
(* The CHECK after queue_push ends the server only when there really are   *)
(* more open connections than a queue has places.                          *)
(***************************************************************************)
OverflowNeedsLoad ==
  exited = "queue_full" => Cardinality({c \in Conns : req[c].live}) > QueueCap

(***************************************************************************)
(* Every request in a queue is announced once, by the event descriptor or  *)
(* by the count its actor is working off: no request is left behind when   *)
(* the actor goes back to epoll_wait, and no pop finds the queue empty.    *)
(***************************************************************************)
QueueAnnounced ==
  Running => \A a \in Actors, w \in Workers :
    Len(queue[a][w]) = event[a][w] + IF actor[a].from = w THEN actor[a].num ELSE 0

(***************************************************************************)
(* A queue only carries requests of its own worker, the one whose epoll    *)
(* instance the actor then registers them with: each queue has one writer. *)
(***************************************************************************)
QueueOfHome ==
  Running => \A a \in Actors :
    /\ \A w \in Workers : \A i \in DOMAIN queue[a][w] : req[queue[a][w][i]].epoll_info = w
    /\ actor[a].conn # NoConn => req[actor[a].conn].epoll_info = actor[a].from

(***************************************************************************)
(* active_connections of server_stats.c counts the open connections.       *)
(***************************************************************************)
ActiveIsExact == Running => active = Cardinality({c \in Conns : req[c].live})

\* The request of c has been read and its response is not finished.
Processing(c) == req[c].live /\ reg[c].dir # "in"

(***************************************************************************)
(* A request that has been read is answered, or its connection closed, as  *)
(* long as the client reads and the actors come back to epoll_wait: an     *)
(* actor that never leaves the loop over one queue starves the others.     *)
(***************************************************************************)
RequestsFinish ==
  (\A a \in Actors : []<>(actor[a].pc = "loop")) =>
    \A c \in Conns : Processing(c) ~> (~Processing(c) \/ ~Running)

==============================================================================
