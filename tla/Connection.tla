----------------------------- MODULE Connection -----------------------------
(***************************************************************************)
(* One connection from end to end: its requests are read (RequestReading), *)
(* an actor formats the response (handle_request of actor.c and            *)
(* http_response.c) into the output buffer (OutputBuffer), and the worker  *)
(* sends it and then resets or closes the connection (client.c).           *)
(*                                                                         *)
(* A request has one owner at a time, so these steps do not overlap; that  *)
(* they do not is Server's concern.  Of the texts only lengths matter: one *)
(* byte stands for the fixed part of each append.                          *)
(***************************************************************************)
EXTENDS RequestReading, OutputBuffer, FiniteSets

CONSTANTS
  PathLen,    \* the length of the path of each request line
  Base        \* of the digits of Content-Length

ASSUME PathAssumption == PathLen \in [Lines -> Nat \ {0}] /\ Base \in Nat \ {0, 1}

VARIABLES
  stage,      \* "read"; "respond" from READ_FINISH until the reset or close
  todo        \* lengths of the appends http_response_init still makes

conn_vars == <<stage, todo>>

vars == <<read_vars, out_vars, conn_vars>>

Init ==
  /\ ReadInit
  /\ OutInit
  /\ stage = "read"
  /\ todo = << >>

------------------------------------------------------------------------------
(* actor.c and http_response.c *)

\* sprintf("%zu").
Digits(n) == Cardinality({e \in 0 .. n : Base ^ e <= n})

\* "keep-alive" is longer than "close".
ConnectionValue(keep) == IF keep THEN 2 ELSE 1

\* "HTTP/1.1", the status and its reason, whichever they are.
StatusLine == 1

\* The appends of http_response_init: the status line, Content-Length,
\* Connection, and the body behind an empty line.
http_response_init(path_len, keep) ==
  <<StatusLine, 1 + Digits(path_len), 1 + ConnectionValue(keep), 1 + path_len>>

\* The body is the path, which still lies in the input buffer.
handle_request ==
  /\ stage = "read"
  /\ state = "READ_FINISH"
  /\ stage' = "respond"
  /\ todo' = http_response_init(PathLen[buffer[path]], context_keep_alive)
  /\ UNCHANGED <<read_vars, out_vars>>

NextAppend ==
  /\ todo # << >>
  /\ AppendCall(Head(todo))
  /\ todo' = Tail(todo)
  /\ UNCHANGED <<read_vars, stage>>

AppendLoop ==
  /\ AppendGrow \/ AppendDone
  /\ UNCHANGED <<read_vars, conn_vars>>

------------------------------------------------------------------------------
(* client.c *)

\* The actor is done and the worker has the request back.
ToSend == stage = "respond" /\ todo = << >> /\ pc = "idle"

\* WRITE_FINISH: nothing is left to send.
WriteFinish == ToSend /\ write_from_offset = write_into_offset

\* client_handle_write while the text is not all sent.
Send(m) ==
  /\ ToSend
  /\ m > 0
  /\ output_buffer_write_to(m)
  /\ UNCHANGED <<read_vars, conn_vars>>

\* client_handle_write after the last byte, when the connection is kept.
Keep ==
  /\ WriteFinish
  /\ client_reset_connection
  /\ output_buffer_reset
  /\ stage' = "read"
  /\ UNCHANGED todo

\* client_handle_read or client_handle_write after an error, or after the last
\* byte when the connection is not kept; then another client connects.
CloseAndAccept ==
  /\ \/ state = "READ_ERROR"
     \/ ToSend /\ ~WriteFinish
     \/ WriteFinish /\ ~context_keep_alive
  /\ client_close_connection
  /\ output_buffer_destroy
  /\ stage' = "read"
  /\ UNCHANGED todo

Read ==
  /\ \/ \E line \in Lines, h \in 0 .. MaxHeaders, last \in Headers :
          SendRequest(line, h, last)
     \/ \E n \in 1 .. MaxHeaders + 2 : Arrive(n)
     \/ try_parse_http_request
  /\ UNCHANGED <<out_vars, conn_vars>>

Next ==
  \/ Read
  \/ handle_request
  \/ NextAppend
  \/ AppendLoop
  \/ \E m \in 1 .. MaxText : Send(m)
  \/ Keep
  \/ CloseAndAccept

Spec == Init /\ [][Next]_vars

------------------------------------------------------------------------------
(* Properties *)

\* The response to the request the client sent.
OwnResponse ==
  http_response_init(PathLen[sent[1]], \E i \in DOMAIN sent : sent[i] = "keep")

(***************************************************************************)
(* A client whose request had arrived in full gets the response to that    *)
(* very request: its path, under a Content-Length that counts exactly the  *)
(* bytes that follow the head, and the Connection header it asked for,     *)
(* whatever was left in the two buffers and in the HttpRequest by requests *)
(* before it.                                                              *)
(***************************************************************************)
OwnResponseSent ==
  WriteFinish /\ arrived = Len(sent)
    => Len(wire) = OwnResponse[1] + OwnResponse[2] + OwnResponse[3] + OwnResponse[4]

==============================================================================
