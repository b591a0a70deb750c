--------------------------- MODULE RequestReading ---------------------------
(***************************************************************************)
(* How a connection's requests are read: input_buffer.c, http_request.c,   *)
(* the request parser of picohttpparser.c and try_parse_http_request of    *)
(* client.c, over the requests of one kept-alive connection.               *)
(*                                                                         *)
(* A request is cut into lines: a request line, headers, a blank line.  A  *)
(* line is one cell of the buffer.  The client sends well-formed requests, *)
(* one at a time, in segments of whole lines; lines still on their way     *)
(* when a request is taken for finished are not followed further.  Heap    *)
(* memory that was never written holds any of the cells in Heap.           *)
(***************************************************************************)
EXTENDS Naturals, Sequences

CONSTANTS
  InitLength,   \* BUF_SIZE
  NumHeaders,   \* NUM_HEADERS
  MaxHeaders,   \* bound: headers of a request
  Lines,        \* request lines
  Heap          \* what fresh heap memory may hold

\* "keep" is the header Connection: Keep-Alive.
Headers == {"header", "keep"}

\* What a line can be, which get_token_to_eol cuts off at its end; fresh memory
\* may be zero.
Cells == Lines \cup Headers \cup {"blank", "nul"}

ASSUME ReadingAssumption ==
  /\ InitLength \in Nat \ {0}
  /\ NumHeaders \in Nat
  /\ MaxHeaders \in Nat
  /\ Lines \cap (Headers \cup {"blank", "nul"}) = {}
  /\ Heap \subseteq Cells

VARIABLES
  buffer, length, offset,   \* InputBuffer; the domain of buffer is 0 .. length - 1
  num_headers, path,        \* of the HttpRequest; path is an offset in buffer
  sent,                     \* the request the client is sending
  arrived,                  \* how many lines of it the kernel has received
  state,                    \* outcome of the last read of this request
  served                    \* were requests answered on this connection before?

http_request == <<num_headers, path>>
read_vars == <<buffer, length, offset, http_request, sent, arrived, state, served>>

ReadInit ==
  /\ buffer \in [0 .. InitLength - 1 -> Heap]
  /\ length = InitLength
  /\ offset = 0
  /\ num_headers = NumHeaders
  /\ path = 0
  /\ sent = << >>
  /\ arrived = 0
  /\ state = "READ_BUSY"
  /\ served = FALSE

------------------------------------------------------------------------------
(* picohttpparser.c *)

Min2(a, b) == IF a < b THEN a ELSE b

\* is_complete finds two line ends in a row at or after the bytes parsed
\* before; a nul is not a line end.
is_complete(buf, len, last_len) ==
  \E i \in last_len .. len - 1 : buf[i] = "blank" /\ i > 0 /\ buf[i - 1] # "nul"

\* How many of the cells from i on are headers, up to max_headers.
HeaderRun(buf, len, i, max_headers) ==
  CHOOSE n \in 0 .. Min2(max_headers, len - i) :
    /\ \A k \in i .. i + n - 1 : buf[k] \in Headers
    /\ \/ n = Min2(max_headers, len - i)
       \/ buf[i + n] \notin Headers

\* Mutant: the last header allowed is refused.
EndsHeadersEarly(c, n, max_headers) == c = "blank" /\ n < max_headers

\* The cell after n headers ends them; a header after max_headers does not.
EndsHeaders(c, n, max_headers) == c = "blank"

\* Anything but a header or the blank line is an error, and so is a header
\* after max_headers of them.
parse_headers(buf, len, i, max_headers) ==
  LET n == HeaderRun(buf, len, i, max_headers)
  IN [num |-> n,
      ret |-> IF i + n = len THEN "PARSE_INCOMPLETE"
              ELSE IF EndsHeaders(buf[i + n], n, max_headers) THEN "PARSE_FINISH"
              ELSE "PARSE_ERROR"]

\* The tokens of a request line are there, printable, with one space between.
IsRequestLine(c) == c \in Lines

\* One blank line is skipped, then a request line is expected.
parse_request(buf, len, max_headers) ==
  LET i == IF buf[0] = "blank" THEN 1 ELSE 0
  IN IF i = len THEN [num |-> 0, path |-> 0, ret |-> "PARSE_INCOMPLETE"]
     ELSE IF ~IsRequestLine(buf[i]) THEN [num |-> 0, path |-> 0, ret |-> "PARSE_ERROR"]
     ELSE LET p == parse_headers(buf, len, i + 1, max_headers)
          IN [num |-> p.num, path |-> i, ret |-> p.ret]

\* num_headers is the room on entry and the number found on return.
phr_parse_request(buf, len, max_headers, last_len) ==
  IF last_len # 0 /\ ~is_complete(buf, len, last_len)
  THEN [num |-> 0, path |-> 0, ret |-> "PARSE_INCOMPLETE"]
  ELSE parse_request(buf, len, max_headers)

\* The parser is given the whole allocation, not only the bytes read.
http_request_parse(buf, len, prev_len) ==
  phr_parse_request(buf, len, num_headers, prev_len)

------------------------------------------------------------------------------
(* input_buffer.c and client.c *)

Doublings(n) == {length * 2 ^ k : k \in 0 .. n}

\* Mutant: a buffer that is exactly full is not grown.
GrownLate(n) ==
  CHOOSE l \in Doublings(n) : l >= n /\ \A m \in Doublings(n) : m >= n => l <= m

\* The length once n cells are filled: resize doubles it, before each read,
\* when there is no room left.
Grown(n) == CHOOSE l \in Doublings(n) : l > n /\ \A m \in Doublings(n) : m > n => l <= m

\* Mutant: what was read before is overwritten.
StoredFromStart(buf, len) ==
  [i \in 0 .. len - 1 |-> IF i < arrived - offset THEN sent[offset + i + 1] ELSE buf[i]]

\* input_buffer_read_into appends all that has arrived.
Stored(buf, len) ==
  [i \in 0 .. len - 1 |-> IF offset <= i /\ i < arrived THEN sent[i + 1] ELSE buf[i]]

\* client_handle_read: try_parse_http_request and what follows from it.
try_parse_http_request ==
  /\ state = "READ_BUSY"
  /\ offset < arrived
  /\ length' = Grown(arrived)
  /\ \E fresh \in [length .. length' - 1 -> Heap] :
       buffer' = Stored([i \in 0 .. length' - 1 |->
                           IF i < length THEN buffer[i] ELSE fresh[i]], length')
  /\ offset' = arrived
  /\ LET p == http_request_parse(buffer', length', offset)
     IN /\ num_headers' = p.num
        /\ path' = p.path
        /\ state' = CASE p.ret = "PARSE_FINISH" -> "READ_FINISH"
                      [] p.ret = "PARSE_ERROR" -> "READ_ERROR"
                      [] p.ret = "PARSE_INCOMPLETE" -> "READ_BUSY"
  /\ UNCHANGED <<sent, arrived, served>>

\* Mutant: only the first header is looked at.
context_keep_alive_first == num_headers > 0 /\ buffer[path + 1] = "keep"

\* One of the headers that were parsed asks to keep the connection.
context_keep_alive == \E i \in 1 .. num_headers : buffer[path + i] = "keep"

\* The response is sent and the connection is kept: the buffer counts as empty,
\* and all of the HttpRequest stays as it is.
client_reset_connection ==
  /\ state = "READ_FINISH"
  /\ context_keep_alive
  /\ offset' = 0
  /\ state' = "READ_BUSY"
  /\ sent' = << >>
  /\ arrived' = 0
  /\ served' = TRUE
  /\ UNCHANGED <<buffer, length, http_request>>

\* After an error, or a response without keep-alive; a client may then be given
\* the same descriptor and the same memory again.
client_close_connection ==
  /\ state \in {"READ_ERROR", "READ_FINISH"}
  /\ buffer' \in [0 .. InitLength - 1 -> Heap]
  /\ length' = InitLength
  /\ offset' = 0
  /\ num_headers' = NumHeaders
  /\ path' = 0
  /\ sent' = << >>
  /\ arrived' = 0
  /\ state' = "READ_BUSY"
  /\ served' = FALSE

------------------------------------------------------------------------------
(* The client *)

\* A well-formed request with h headers, the last of which may be "keep".
Request(line, h, last) ==
  <<line>> \o [k \in 1 .. h |-> IF k = h THEN last ELSE "header"] \o <<"blank">>

Sending(h) == \E line \in Lines, last \in Headers : sent = Request(line, h, last)

SendRequest(line, h, last) ==
  /\ state = "READ_BUSY"
  /\ sent = << >>
  /\ sent' = Request(line, h, last)
  /\ UNCHANGED <<buffer, length, offset, http_request, arrived, state, served>>

Arrive(n) ==
  /\ state = "READ_BUSY"
  /\ arrived < n
  /\ n <= Len(sent)
  /\ arrived' = n
  /\ UNCHANGED <<buffer, length, offset, http_request, sent, state, served>>

ReadNext ==
  \/ \E line \in Lines, h \in 0 .. MaxHeaders, last \in Headers : SendRequest(line, h, last)
  \/ \E n \in 1 .. MaxHeaders + 2 : Arrive(n)
  \/ try_parse_http_request
  \/ client_reset_connection
  \/ client_close_connection

ReadSpec == ReadInit /\ [][ReadNext]_read_vars

------------------------------------------------------------------------------
(* Properties *)

ReadTypeOK ==
  /\ length \in Nat \ {0}
  /\ buffer \in [0 .. length - 1 -> Cells]
  /\ offset \in 0 .. length
  /\ num_headers \in 0 .. NumHeaders
  /\ path \in 0 .. 1
  /\ sent \in Seq(Cells)
  /\ arrived \in 0 .. Len(sent)
  /\ state \in {"READ_BUSY", "READ_FINISH", "READ_ERROR"}
  /\ served \in BOOLEAN

(***************************************************************************)
(* read is never given a buffer without room: it would return 0, which     *)
(* input_buffer_read_into takes for the end of the connection.             *)
(***************************************************************************)
RoomToRead == offset < length

(***************************************************************************)
(* The buffer begins with the lines of the current request, in order and   *)
(* whole, however the segments and the reallocations cut them.             *)
(* All of it presumes the types (ReadTypeOK).                              *)
(***************************************************************************)
BufferHoldsRequest ==
  /\ ReadTypeOK
  /\ \A i \in 0 .. offset - 1 : i < Len(sent) /\ buffer[i] = sent[i + 1]

\* The whole request came in one read.
WholeAtOnce(h) == Sending(h) /\ offset = 0 /\ arrived = Len(sent)

(***************************************************************************)
(* A request that comes in one segment is parsed, with exactly its own     *)
(* headers and whatever the memory holds behind it, if and only if it has  *)
(* no more headers than http_request.num_headers leaves room for: that is  *)
(* NUM_HEADERS on a new connection, and on a kept one the number of        *)
(* headers of the request before.                                          *)
(***************************************************************************)
ParsedWithinLimit ==
  [][\A h \in 0 .. MaxHeaders :
       WholeAtOnce(h) /\ offset' # offset
         => IF h <= num_headers THEN state' = "READ_FINISH" /\ num_headers' = h
                                ELSE state' = "READ_ERROR"]_read_vars

(***************************************************************************)
(* "A READ_FINISH indicates that a full http request has been successfully *)
(* parsed" (client.c:21): the request that was parsed has arrived.         *)
(***************************************************************************)
FinishIsFull == state = "READ_FINISH" => arrived = Len(sent)

(***************************************************************************)
(* "Starts the connection pipeline from the beginning" (client.h:26): a    *)
(* request that the first of a connection could have been is also accepted *)
(* after a reset, when it comes in one segment.                            *)
(***************************************************************************)
KeptConnectionParses ==
  [][\A h \in 0 .. NumHeaders :
       WholeAtOnce(h) /\ offset' # offset => state' = "READ_FINISH"]_read_vars

==============================================================================
