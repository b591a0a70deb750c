# Verification of jullop

jullop is a small HTTP server in C. Io worker threads accept connections, read
and parse requests and send responses; application actor threads compute the
responses. Each pair of an actor and an io worker has a queue of its own, with
an event descriptor that wakes the actor. This directory holds TLA+ models of
its parts, the TLC configurations that check them and the proofs TLAPS checks
(modules `*Proofs` and `RingLemmas`, section 4).

## 1. The system

| part | source (`src/src/`) | what it does | module |
|---|---|---|---|
| lock-free queue | `srsw_queue.c`, `queue.h` | ring with atomic offsets, one writer, one reader | `SrswQueue`, `SrswQueueSize` |
| mutex queue | `mrmw_queue.c` | the same interface behind a mutex; the one `CMakeLists.txt` links | `LockQueue` |
| io worker | `io_worker.c` | epoll loop, accept loop | `Server` |
| client handlers | `client.c` | read, write, error, reset, close | `Server`, `RequestReading`, `Connection` |
| actor | `actor.c` | waits for its queues, answers, registers the output | `Server`, `Connection`, the reader of both queue modules |
| epoll wrapper | `epoll_info.c` | add, modify, delete with CHECKs | `Server` |
| request context | `request_context.c` | per-connection state, keep-alive, reset, destroy | `Server`, `RequestReading`, `Connection` |
| input buffer | `input_buffer.c` | growing buffer, read loop | `RequestReading` |
| request parser | `picohttpparser.c`, `http_request.c` | parses what has been read | `RequestReading` (lines, not characters) |
| chunked decoder | `picohttpparser.c` | decodes a chunked body in place; no caller yet | `ChunkedDecoder`, `ChunkedCoding` |
| output buffer | `output_buffer.c` | growing buffer, formatted appends, partial writes | `OutputBuffer` |
| response | `http_response.c` | a sequence of appends | `Connection` |
| timers | `request_stats.c` | start/end protocol with CHECKs, durations | `Server` (protocol), `Statistics` (durations) |
| statistics | `server_stats.c` | counters, averages | `Statistics`, `Monitoring`, `Server` (active connections) |
| statistics thread | `stats_thread.c` | reports queue sizes and averages | `Monitoring`; sizes in `SrswQueueSize`, `LockQueue` |
| start-up | `main.c` | queues, threads, barrier | `Startup` |
| message passing | `message_passing.c` | a pointer through a stream socket; no caller yet | `MessagePassing` |
| benchmark, logging | `queue_test.c`, `logging.h` | | CHECK is `exited` in `Server` and `Startup`; the rest is not modelled |

A connection's life crosses threads. A worker accepts it, makes a
RequestContext and registers the descriptor for input. When a request has been
parsed the worker deregisters the descriptor, picks an actor with a shared
counter, pushes the RequestContext and frees its SocketContext. The actor pops
it, writes the response into the output buffer, makes a second SocketContext
and registers the descriptor for output **with the worker's epoll instance**.
The worker sends the response, then resets the connection or closes it.
Nothing but this order protects the RequestContext.

## 2. Modules

**`Mailbox`** is the abstract queue of `queue.h`: a bounded FIFO (`items`), the
notifications not yet written (`owed`), the event counter, the notifications
taken but not yet used for a pop (`credit`) and the last result (`got`). Both
queues implement it.

**`SrswQueue`** has one action per shared access of `queue_push` and
`queue_pop`, and the loop of `process_epoll_event` as the reader. `w_pc` and
`r_pc` are the program counters, `r_num` is the loop's remaining count.
Loads of a thread's own offset are folded into its first step, since nobody
else stores it. The acquire/release pairs order the slot accesses, so
interleaving is a faithful memory model for them. `queue_init` reserves `Size`
*bytes*: `Allocated(i)` says which slots lie in the allocation, and loading a
slot outside it may give `Junk`. **`SrswQueueSize`** adds a thread that calls
`queue_size`, whose two loads are two steps, and `pow_2_size` as a function on
64-bit words (sets of bit positions). TLC compares it with "the least power of
two not below the argument" for the sizes named in `PowTwoAssumption`, which
also records that 0 stays 0 and that sizes above 2^32 come out wrong.

**`LockQueue`** runs any number of writers, readers and size readers. Critical
sections are modelled one access at a time, so it is the mutex, not the
granularity of the model, that keeps threads apart.

**`Server`** (instantiated by `MCServer`) composes workers, actors, queues, the
kernel and clients.

| variable | code |
|---|---|
| `sock` | kernel socket of a descriptor: accept backlog, readable, unread sent units, what the peer did |
| `reg` | epoll registration: instance, direction, `data.ptr` (a SocketContext slot) |
| `req` | RequestContext: owner's `epoll_info`, bytes still to send, keep-alive, running timers |
| `sctx` | SocketContexts allocated for a descriptor |
| `queue`, `event` | `input_queue[w]` of an actor and its eventfd |
| `worker`, `actor` | where each thread is, its unhandled events, its locals |
| `count`, `active`, `exited` | the counter of `client.c`, `active_connections`, which CHECK ended the process |

A handler is one action unless another thread can see it half done.
`client_handle_read` is cut at the deregistration, the load and the store of
`count`, the push, and `free(context)`. An actor's turn is cut at the pop and
at the registration. Queue operations are atomic, which `LockQueue` justifies.
Whether bytes that were read make a complete, partial or broken request is left
open in `Server` and settled in `RequestReading`. `TOTAL_TIME` and `QUEUE_TIME`
are the timers that run from one step to another; the others start and end
inside one action.

**`RequestReading`** has buffer cells that are whole lines. The parser is a
function of the buffer. `num_headers` is both its limit and its result, as in
the code. Fresh memory holds any of the cells in `Heap`. Clients send
well-formed requests one at a time, cut into any segments of whole lines.

**`OutputBuffer`** names a byte by its position in the text, so corruption,
loss and duplication show. A turn of the format loop is a step. `exact` records
where an append ended exactly at the end of the allocation: vsnprintf's
terminator then takes the place of the last byte.

**`Connection`** (instantiated by `MCConnection`) composes the two over the
requests of one descriptor: read and parse, `handle_request` with the lengths
of its appends taken from the parsed request, the format loop, the write
handler, reset and close, and the next client. It relies on what `Server`
shows, that a request has one owner at a time. Texts are lengths: in the
checked instance any two different responses have different lengths, so the
number of bytes on the wire identifies the response.

**`ChunkedDecoder`** (instantiated by `MCChunkedDecoder`) has one action per
state of `phr_decode_chunked`, with input and output in one buffer and the
decoder's state kept from call to call. `Supply` is the caller: any cut of a
message into segments. **`ChunkedCoding`** says what a message means: it reads
the coding one byte after another (`After`), with no buffer and no segments, and
`IsMeaning` tells which bytes are the body, where the tail begins and whether
the message is well formed. `MCChunkedDecoder` builds its messages from the
grammar of the coding instead, and TLC checks that reading them gives their
bodies back (`MessagesAssumption`).

**`Startup`** follows `main`: the statistics thread, the queues of each actor
(`null`, then `garbage` after malloc, then `ready`), the threads, the barrier
and the join, with a CHECK that may fail on the way.
**`Statistics`** has the durations of `request_stats.c` in clock ticks and the
counters of `server_stats.c`, one action per atomic operation.
**`Monitoring`** composes both with the statistics thread, which follows queue
pointers and loads counters while the others are at work. The relaxed atomics
are taken in program order, which is what they compile to on x86; on a machine
that reorders them `NeverOverstated` would not follow.

**`MessagePassing`** has a sender and a receiver of pointers, each with the
blocking or the resumable functions, on a socket that takes and gives any
number of bytes, fails or is closed.

## 3. Runs

| run | checks | shows | states |
|---|---|---|---|
| `srsw_queue` | `TypeOK EventAccounting NoNullPop SlotExclusive SizeNotOver HeadIsPopped ImplementsMailbox` | with every slot allocated the lock-free ring is the mailbox; no wake-up is lost; a size is too large only if the reader overtook the loaded offset | 147,942 |
| `srsw_alloc` | `StoreInBuffer` (violated) | slots counted as bytes: the third push stores outside the buffer | |
| `lock_queue` | `RingConsistent SizeIsExact LockIsReleased ImplementsMailbox` | the mutex queue is the mailbox, sizes are exact, the mutex is given back | 60,348 |
| `server_safe` | `SingleOwner ContextOwnership EventsAreFresh NoCheckFails QueueOfHome ActiveIsExact` | hand-over, memory and accounting with two workers that reuse descriptors | 452,106 |
| `server_overflow` | `NoCheckFails OverflowNeedsLoad QueueAnnounced` | two actors, queues of one place, every trouble a client may cause | 1,311,905 |
| `server_live` | `RequestsFinish` | a request that was read is answered or closed | 219,440 |
| `connection` | `RoomToRead BufferHoldsRequest OffsetsOrdered OneResize WireInOrder OwnResponseSent ParsedWithinLimit` | over any segments, heap contents and short writes each client gets the response to its own request, once that has arrived in full | 206,029 |
| `chunked` | `DecodesBody CompleteLeavesTail VerdictRight CallReturns` | data, tail and verdict of the decoder do not depend on the segments | 155,629 |
| `monitoring` | `BarrierCovers TimesAccurate CountsExact CrashNeedsEarlyWalk NeverOverstated EverybodyStarts` | nobody serves before everybody is there; counters and averages are right; only a report during start-up can follow a bad pointer | 501,159 |
| `messages` | `PayloadsIntact AllArrive` | pointers arrive whole, in order, and all of them | 1,924 |
| `reading_full` | `FinishIsFull` (violated) | old lines complete a request that has only partly arrived | |
| `reading_kept` | `KeptConnectionParses` (violated) | the header limit shrinks on a kept connection | |

Each module's type invariant is a run's invariant of its own (`srsw_queue`) or
a conjunct of one (`RingConsistent`, `ContextOwnership`, `BufferHoldsRequest`,
`OffsetsOrdered`, `DecodesBody`, `BarrierCovers`, `CountsExact`,
`PayloadsIntact`).

Three weaknesses of the code are described exactly rather than excluded:
`WireInOrder` says which byte an exact fit loses, `ParsedWithinLimit` how the
header limit depends on the request before, and `SizeNotOver` when `queue_size`
of the lock-free ring may be wrong.

The violated properties state what a comment of the repository says;
`PROJECT.json` quotes it under `findings`.

**Bounds.** Rings: four slots wrap and fill with the writer and the reader
anywhere, two payloads show reordering; the proofs cover the other sizes. The
passing run of the lock-free ring takes `Word = 1`, the instance in which the
allocation is large enough; its invariants are proved for every `Word`, and
`srsw_alloc` runs the real width. `LockQueue`: two slots, two threads per side,
one size reader. `Server`: two connections are the least with which one event
can outdate another and a descriptor can be reused by the other worker; a
response of two units over a send buffer of one forces `WRITE_BUSY`; a queue of
one place overflows. `CountMod` bounds the counter; only its value modulo the
number of actors is used. `Troubles` selects what clients do, because all
troubles with two workers exceed what TLC can do. `Reach` says which listening
socket a client's address may lead to (the kernel spreads clients over the
workers' SO_REUSEPORT sockets); `server_live` ties one of its two clients to one
worker. `Connection`: response parts that fit, fit exactly, need a doubling and need
more; two paths and both keep-alive answers; up to one header more than the
limit; an input buffer that must grow. `ChunkedDecoder`: bodies of up to two
chunks whose data looks like sizes and line ends, with extensions, leading
zeros, trailers and a following message, and broken ones; two size digits stand
for the sixteen of a word. `Monitoring`: two actors, up to two workers, two
timer types, clocks that cross a second and a microsecond; `MaxRequests` stops
further requests once one is counted, which leaves two in flight.
`MessagePassing`: three pointers of four bytes over a socket of five, so that
messages overlap in the socket.

**Symmetry** (workers, connections) is used in the two safety runs of `Server`
only, never with liveness. **Deadlock** is checked except where the system may
stop: a decoder whose caller has no more segments, a process that has exited or
has met its bound on requests (`monitoring`), two threads that have nothing left
to send (`messages`). An exited `Server` stutters explicitly.

**Fairness.** A thread that can run is scheduled (weak fairness per thread,
from the operating system). In the lock-free queue nothing forces
a push to start, but one that has started goes on. In `LockQueue` only the owner of the mutex is fair:
POSIX mutexes do not order waiters, so no thread is promised the mutex. In
`Server` a client reads what it is sent, since the code has no timeout, and
`RequestsFinish` assumes that each actor returns to `epoll_wait` again and
again: `process_epoll_event` keeps reading one queue's descriptor until it is
empty, so a worker that refills it in time can starve the other queues.
`server_live` also keeps the descriptors ready at once within `MaxEvents`: with
more of them no request is promised an entry in `events[]` but by the order in
which the kernel rotates its ready list, which is not modelled.
In `ChunkedDecoder` a call that has begun goes on, and no segment need come. In
`Monitoring` main and the threads at the barrier go on; a worker need not serve.
In `MessagePassing` both threads call again until they are done; neither
closing nor failing is forced.

## 4. Proofs

A run checks one small instance; the theorems below hold for every value of the
constants that satisfies the named assumptions of the modules: sizes, lengths and
counts are natural numbers (not 0 where the code cannot have 0), the sets of
threads and connections are finite where they are counted, and markers such as
NULL differ from the values they are told apart from. Each theorem states a
property of section 3 under its own name, but for `SizeRoundedUp`, which is about
an operator.

| module | theorems (property) |
|---|---|
| `SrswQueueProofs` | `TypeCorrect` (`TypeOK`), `Announced` (`EventAccounting`), `NeverNull` (`NoNullPop`), `ExclusiveSlots` (`SlotExclusive`), `SizeNeverOver` (`SizeNotOver`), `MailboxWithinBuffer` and `MailboxOfBytes` (`ImplementsMailbox`), `SizeRoundedUp` (on `pow_2_size`) |
| `LockQueueProofs` | `RingAlwaysConsistent` (`RingConsistent`), `SizeAlwaysExact` (`SizeIsExact`), `LockQueueIsMailbox` (`ImplementsMailbox`) |
| `ServerProofs` | `OneOwnerAlways` (`SingleOwner`), `ContextsAlwaysOwned` (`ContextOwnership`), `EventsAlwaysFresh` (`EventsAreFresh`), `ChecksNeverFail` (`NoCheckFails`), `OverflowAlwaysNeedsLoad` (`OverflowNeedsLoad`), `QueueAlwaysAnnounced` (`QueueAnnounced`), `QueueAlwaysOfHome` (`QueueOfHome`), `ActiveAlwaysExact` (`ActiveIsExact`) |
| `ConnectionProofs` | `AlwaysRoomToRead` (`RoomToRead`), `BufferAlwaysHoldsRequest` (`BufferHoldsRequest`), `AlwaysParsedWithinLimit` (`ParsedWithinLimit`), `OffsetsAlwaysOrdered` (`OffsetsOrdered`), `OneResizeEnough` (`OneResize`), `WireAlwaysInOrder` (`WireInOrder`), `OwnResponseAlwaysSent` (`OwnResponseSent`) |
| `MonitoringProofs` | `BarrierAlwaysCovers` (`BarrierCovers`), `CrashAlwaysNeedsEarlyWalk` (`CrashNeedsEarlyWalk`), `TimesAlwaysAccurate` (`TimesAccurate`), `CountsAlwaysExact` (`CountsExact`), `AveragesNeverOverstated` (`NeverOverstated`) |
| `MessagePassingProofs` | `PayloadsAlwaysIntact` (`PayloadsIntact`) |
| `ChunkedDecoderProofs` | `BodyCorrect` (`DecodesBody`), `TailCorrect` (`CompleteLeavesTail`), `VerdictCorrect` (`VerdictRight`) |

Each of these modules has an inductive invariant `IndInv`, lemmas for the steps
(`NextInv` or `NextIndInv` has one case per action) and a theorem `Invariance`.

**Lock-free queue.** A pop is announced only if the reader's count says so at
each of its steps (`PopsOwed`), and a publication adds one to the size only if
the ring was not full when it was tested *and since* (`RoomForPush`). The
refinement needs besides what lies in the slots between the offsets, in the slot
being published and in the payload fetched (`SlotsRight`). That holds only while
the stores stay inside the allocation: `MailboxWithinBuffer` has `[]StoreInBuffer`
as a hypothesis, which is false for the real `Word` (run `srsw_alloc`) and true
for `Word = 1` (`MailboxOfBytes`). `SizeNeverOver` adds that between the two
loads of `queue_size` the distance from the loaded offset only shrinks until the
reader passes it. `SizeRoundedUp` is about words as sets of bits: each shift doubles the run of
set bits below the highest one (`SmearDoubles`), so five of them fill 32 bits,
and the increment carries through all of them. `RingLemmas` holds the arithmetic
of a ring, for both queues.

**Mutex queue.** The mutex makes one thread the author of every half-done state.
`Mutex` says that a thread is in a critical section exactly when it owns the
lock, and `Doing`, the step of the owner, tells how far offsets, count and
notification have diverged. The notifications taken by any number of readers are
counted by cardinalities.

**Server.** None of the ownership properties is inductive, because a hand-over
changes several places in several steps. The invariant reads off the
RequestContext itself in whose hands it must be (`Phase`: is it registered, does
QUEUE_TIME run, is a response waiting) and relates this to the hands
(`PhaseInv`), to the SocketContexts (`ContextInv`), to the events a worker has
still to handle (`EventInv`), to the kernel's socket (`ConnInv`) and to the
notifications (`Announced`). That an event is never outdated by another one of
the same array follows from there being one registration per descriptor and one
event per registration.

**Connection.** `ReadInv`: the buffer begins with what was read of the request,
and a request that was parsed when all of it had arrived was parsed as it is,
whatever lies behind it; the parser lemmas (`HeaderRunFacts`, `ParseTypes`,
`ParsesRequest`) hold for every buffer. `GrownFacts` shows that doubling always
finds a length with room. `OutInv`: the output buffer still holds the
text appended to it, from which `write` takes the bytes later (`TextKept`).
`ConnInv`: what was appended and what is still to be appended are the response
to that request (`Underway`).

**Start-up and statistics.** `StartInv` says which mailboxes and threads exist
at each place of `main`, and that the threads pass the barrier together.
`StatInv` bounds the error and the size of what each request has still to add
and of the sums; `ThreadInv` is what the statistics thread may rely on in the
middle of a walk or between two loads.

**Message passing.** Number the bytes of all messages in the order they are
sent: the receiver has the first `Received` of them, the socket the next, and
the sender goes on where the socket ends.

**Chunked decoder.** The theorems hold for every set of messages whose bodies,
tails and verdicts are what `ChunkedCoding` reads in them, for every alphabet
with its hexadecimal digits and for every number of digits of a `size_t`. They
compare a decoder that works in place, over any segments, with a reader that
knows neither; that the reader's automaton is the coding of the RFC is the part
TLC checks. The invariant counts the bytes consumed (`Place`): there the
decoder's state is the reader's (`Agree`), but for the moment in which the
decoder has already left the size and the byte behind it is not yet read
(`Turned`); what is ahead of `src` is still as it was supplied (`StreamInv`),
and what is behind `dst` is the body (`BodyInv`). That a size never overflows
needs the size so far to be below 16 to the number of its digits (`SizeRight`).
What a reader makes of the rest of a chunk (`ReadData`), and that the end and an
error are final (`EndStays`), is shown with a least counterexample instead of an
induction, and that a power of two doubles with its exponent by counting subsets
(`Doubling`).

**A caution about the prover.** For a function whose domain is not `1 .. n`,
`Len` is unspecified. The SMT translation of tlapm 1.4.5 takes
`DOMAIN s = 1 .. n` and `Len(s) = n` for equivalent for every `s`, and says that
`Len(s)` is a natural number, which is false of a buffer with the domain
`0 .. n - 1`. A leaf in which such a buffer and `Len` meet can then be proved for
no reason. The proofs here do not rely on it: they were also checked with this
translation restricted to the direction that holds.

**Only model-checked.** All liveness (`HeadIsPopped`, `LockIsReleased`,
`RequestsFinish`, `CallReturns`, `EverybodyStarts`, `AllArrive`): fairness and
ENABLED are beyond the prover. That the messages of the run, put together from
the grammar, mean what `ChunkedCoding` reads in them: for every message this
takes a recursive definition of the encoding. That a word's bits stand for its
number (`Bits`) at the sizes named in `PowTwoAssumption`.

## 5. Not modelled

- `queue_test.c` (a benchmark) and log output.
- The characters of a request line or header: `RequestReading` stops at lines.
  `phr_parse_response` and `phr_parse_headers`, which repeat its scans, have no
  caller.
- Failure of `malloc` and of `eventfd_write`. Failing CHECKs of the start-up are
  one action (`StartFails`).
- Options of the listening sockets, thread names and affinities.
- Pipelined requests, and lines that arrive after a request was taken for
  finished too early.
- Functions without a caller that only free or forward: `queue_destroy`,
  `queue_print`, `server_stats_destroy`, `server_stats_decr_total_requests`,
  `mod_output_epoll_event`.
- SIGPIPE is modelled (`WriteSignal`, reached in `server_overflow`), and so is a
  blocking read from a closed sender (`MessagePassing`), but no document says
  what should happen, so no property excludes either.
- The server has no timeouts; a client that stops reading is outside
  `RequestsFinish`.
