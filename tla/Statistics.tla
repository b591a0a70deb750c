----------------------------- MODULE Statistics ------------------------------
(***************************************************************************)
(* src/src/request_stats.c and server_stats.c: the intervals measured for  *)
(* one request, and the counters of the whole server that the workers add  *)
(* to when they reset or close a connection (client.c).                    *)
(*                                                                         *)
(* A worker has one connection at a time here.  A time is a number of      *)
(* clock ticks (the nanoseconds of the code), with NsPerMicro ticks to a   *)
(* microsecond and MicrosPerSec microseconds to a second.  The operations  *)
(* on the counters are atomic, and are taken to happen in program order    *)
(* (memory_order_relaxed compiles to locked adds and plain loads on x86).  *)
(***************************************************************************)
EXTENDS Integers, FiniteSets

CONSTANTS
  Workers,                   \* the I/O workers
  NumTypes,                  \* values of enum TimeType; TOTAL_TIME is 0
  NsPerMicro, MicrosPerSec,  \* 1000 and 1000000
  MaxClock,                  \* bound: clock values; an interval takes a tick or more
  MaxIntervals,              \* bound: intervals of a type in one request
  MaxRequests                \* bound: after so many no request goes on

ASSUME StatisticsAssumption ==
  /\ IsFiniteSet(Workers)
  /\ {NumTypes, NsPerMicro, MicrosPerSec, MaxClock, MaxIntervals, MaxRequests}
       \subseteq Nat \ {0}

Types == 0 .. NumTypes - 1
TOTAL_TIME == 0

VARIABLES
  avg_micros, active_connections, total_requests_processed,  \* ServerWideStats
  request,     \* the connection of each worker and its PerRequestStats
  recorded     \* history: what went into each sum of avg_micros

stat_vars == <<avg_micros, active_connections, total_requests_processed,
               request, recorded>>

Zero == [t \in Types |-> 0]

\* stage is "none", "open", "count", or "add" with the type to be added next.
NoRequest == [stage |-> "none", next |-> 0, keep |-> FALSE,
              total_micros |-> Zero, ticks |-> Zero, intervals |-> Zero]

StatInit ==
  /\ avg_micros = Zero
  /\ active_connections = 0
  /\ total_requests_processed = 0
  /\ request = [w \in Workers |-> NoRequest]
  /\ recorded = [ticks |-> Zero, intervals |-> Zero, requests |-> Zero]

------------------------------------------------------------------------------
(* request_stats.c *)

timespec(c) == [tv_sec |-> c \div (NsPerMicro * MicrosPerSec),
                tv_nsec |-> c % (NsPerMicro * MicrosPerSec)]

\* C division: towards zero.
Quotient(n, d) == IF n >= 0 THEN n \div d ELSE -((-n) \div d)

\* Mutant: the seconds are forgotten.
get_time_delta_nsec(start, end) == Quotient(end.tv_nsec - start.tv_nsec, NsPerMicro)

get_time_delta(start, end) ==
  MicrosPerSec * (end.tv_sec - start.tv_sec)
    + Quotient(end.tv_nsec - start.tv_nsec, NsPerMicro)

\* per_request_record_start at tick c and per_request_record_end at tick d.
Recorded(r, t, c, d) ==
  [r EXCEPT !.total_micros[t] = @ + get_time_delta(timespec(c), timespec(d)),
            !.ticks[t] = @ + (d - c),
            !.intervals[t] = @ + 1]

per_request_clear_time == [NoRequest EXCEPT !.stage = "open"]

\* One interval of a type that is not the total.
MeasureInterval(w, t, c, d) ==
  /\ request[w].stage = "open"
  /\ t # TOTAL_TIME
  /\ c < d
  /\ request[w].intervals[t] < MaxIntervals
  /\ total_requests_processed < MaxRequests
  /\ request' = [request EXCEPT ![w] = Recorded(request[w], t, c, d)]
  /\ UNCHANGED <<avg_micros, active_connections, total_requests_processed, recorded>>

------------------------------------------------------------------------------
(* server_stats.c, as handle_accept_read and client.c call it *)

Accept(w) ==
  /\ request[w].stage = "none"
  /\ total_requests_processed < MaxRequests
  /\ request' = [request EXCEPT ![w] = per_request_clear_time]
  /\ active_connections' = active_connections + 1
  /\ UNCHANGED <<avg_micros, total_requests_processed, recorded>>

\* client_reset_connection and client_close_connection: TOTAL_TIME ends, and a
\* close is taken off the active connections.
EndRequest(w, keep, c, d) ==
  /\ request[w].stage = "open"
  /\ c < d
  /\ total_requests_processed < MaxRequests
  /\ request' = [request EXCEPT ![w] =
                   [Recorded(request[w], TOTAL_TIME, c, d) EXCEPT !.stage = "count",
                                                                  !.keep = keep]]
  /\ active_connections' = IF keep THEN active_connections ELSE active_connections - 1
  /\ UNCHANGED <<avg_micros, total_requests_processed, recorded>>

server_stats_incr_total_requests(w) ==
  /\ request[w].stage = "count"
  /\ total_requests_processed' = total_requests_processed + 1
  /\ request' = [request EXCEPT ![w].stage = "add"]
  /\ UNCHANGED <<avg_micros, active_connections, recorded>>

\* Mutant: the last type is left out.
AfterAddEarly(r) ==
  IF r.next + 2 < NumTypes THEN [r EXCEPT !.next = @ + 1]
  ELSE IF r.keep THEN per_request_clear_time ELSE NoRequest

\* After the last type the request is over: it is cleared for the next one,
\* or the connection is gone.  What was added is history's.
AfterAdd(r) ==
  IF r.next + 1 < NumTypes
  THEN [r EXCEPT !.next = @ + 1, !.ticks[r.next] = 0, !.intervals[r.next] = 0]
  ELSE IF r.keep THEN per_request_clear_time ELSE NoRequest

\* server_stats_record_request: one atomic add for each type.
server_stats_record_request(w) ==
  LET r == request[w]
  IN /\ r.stage = "add"
     /\ avg_micros' = [avg_micros EXCEPT ![r.next] = @ + r.total_micros[r.next]]
     /\ recorded' = [recorded EXCEPT !.ticks[r.next] = @ + r.ticks[r.next],
                                     !.intervals[r.next] = @ + r.intervals[r.next],
                                     !.requests[r.next] = @ + 1]
     /\ request' = [request EXCEPT ![w] = AfterAdd(r)]
     /\ UNCHANGED <<active_connections, total_requests_processed>>

\* One step of a worker on the statistics.
WorkerStep(w) ==
  \/ Accept(w)
  \/ \E t \in Types, c, d \in 0 .. MaxClock : MeasureInterval(w, t, c, d)
  \/ \E keep \in BOOLEAN, c, d \in 0 .. MaxClock : EndRequest(w, keep, c, d)
  \/ server_stats_incr_total_requests(w)
  \/ server_stats_record_request(w)

------------------------------------------------------------------------------
(* Properties *)

PerRequestStats ==
  [stage : {"none", "open", "count", "add"}, next : Types, keep : BOOLEAN,
   total_micros : [Types -> Nat], ticks : [Types -> Nat], intervals : [Types -> Nat]]

StatTypeOK ==
  /\ avg_micros \in [Types -> Nat]
  /\ active_connections \in Nat
  /\ total_requests_processed \in Nat
  /\ request \in [Workers -> PerRequestStats]
  /\ recorded \in [ticks : [Types -> Nat], intervals : [Types -> Nat],
                   requests : [Types -> Nat]]

(***************************************************************************)
(* get_time_delta truncates the difference of the nanoseconds towards zero *)
(* whatever its sign.  Over all the requests the sum of a type is still    *)
(* within one microsecond per interval of the time that really passed.     *)
(***************************************************************************)
TimesAccurate ==
  \A t \in Types :
    LET error == NsPerMicro * avg_micros[t] - recorded.ticks[t]
        slack == (NsPerMicro - 1) * recorded.intervals[t]
    IN -slack <= error /\ error <= slack

(***************************************************************************)
(* Every request counted in total_requests_processed is added to the sum   *)
(* of every type exactly once, by the worker that counted it, and the      *)
(* active connections are those that were accepted and not yet closed.     *)
(* All of it presumes the types (StatTypeOK).                              *)
(***************************************************************************)
CountsExact ==
  /\ StatTypeOK
  /\ \A t \in Types :
       total_requests_processed = recorded.requests[t]
         + Cardinality({w \in Workers : request[w].stage = "add" /\ request[w].next <= t})
  /\ active_connections =
       Cardinality({w \in Workers : request[w].stage = "open" \/ request[w].keep})

==============================================================================
