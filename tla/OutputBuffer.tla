---------------------------- MODULE OutputBuffer ----------------------------
(***************************************************************************)
(* src/src/output_buffer.c: the growing buffer a response is formatted     *)
(* into and sent from.                                                     *)
(*                                                                         *)
(* A byte is named by its place in the text appended since the last reset, *)
(* so a buffer is intact when offset i holds byte i.  The socket accepts   *)
(* any part of what it is offered.                                         *)
(***************************************************************************)
EXTENDS Naturals, Sequences

CONSTANTS
  InitSize,    \* argument of output_buffer_init
  MaxText,     \* bound: bytes appended between two resets
  NUL, Junk    \* vsnprintf's terminator, what is no byte of this text

ASSUME SizeAssumption ==
  /\ InitSize \in Nat \ {0}
  /\ MaxText \in Nat
  /\ NUL \notin Nat
  /\ Junk \notin Nat

VARIABLES
  out_buffer,          \* its domain is 0 .. out_length - 1
  out_length,
  write_from_offset, write_into_offset,
  written,             \* length of the text being appended; 0 outside a call
  pc,                  \* "idle", "append", or "retry" after a resize
  exact,               \* offsets where an append ended exactly at length
  wire                 \* what the socket accepted since the last reset

out_vars == <<out_buffer, out_length, write_from_offset, write_into_offset, written, pc,
              exact, wire>>

OutInit ==
  /\ out_buffer = [i \in 0 .. InitSize - 1 |-> Junk]
  /\ out_length = InitSize
  /\ write_from_offset = 0
  /\ write_into_offset = 0
  /\ written = 0
  /\ pc = "idle"
  /\ exact = {}
  /\ wire = << >>

max_to_write == out_length - write_into_offset

\* vsnprintf stores all the text that fits before a terminator, if any does.
Formatted ==
  LET last == IF written < max_to_write THEN written ELSE max_to_write - 1
  IN [i \in 0 .. out_length - 1 |->
        IF max_to_write = 0 \/ i < write_into_offset
             \/ i > write_into_offset + last
        THEN out_buffer[i]
        ELSE IF i = write_into_offset + last THEN NUL ELSE i]

\* Mutant: the buffer is only doubled.
resize_doubles(min_size) == 2 * out_length

\* The new length: doubled, or what the text needs when that is more.
resize(min_size) == IF 2 * out_length > min_size THEN 2 * out_length ELSE min_size

AppendCall(n) ==
  /\ pc = "idle"
  /\ write_into_offset + n <= MaxText
  /\ written' = n
  /\ pc' = "append"
  /\ UNCHANGED <<out_buffer, out_length, write_from_offset, write_into_offset, exact, wire>>

\* One turn of the loop that finds too little room.
AppendGrow ==
  /\ pc # "idle"
  /\ written > max_to_write
  /\ out_length' = resize(write_into_offset + written + 1)
  /\ out_buffer' = [i \in 0 .. out_length' - 1 |->
                  IF i < out_length THEN Formatted[i] ELSE Junk]
  /\ pc' = "retry"
  /\ UNCHANGED <<write_from_offset, write_into_offset, written, exact, wire>>

AppendDone ==
  /\ pc # "idle"
  /\ written <= max_to_write
  /\ out_buffer' = Formatted
  /\ write_into_offset' = write_into_offset + written
  /\ exact' = IF written > 0 /\ written = max_to_write
              THEN exact \cup {out_length - 1} ELSE exact
  /\ written' = 0
  /\ pc' = "idle"
  /\ UNCHANGED <<out_length, write_from_offset, wire>>

\* Mutant: a write that met a full socket starts over the next time.
SentToRestarts(m) == IF write_from_offset + m = write_into_offset THEN write_into_offset ELSE 0

\* How far the text is sent once the socket has taken m more bytes.
SentTo(m) == write_from_offset + m

\* output_buffer_write_to: the socket takes m bytes, in one or more calls of
\* write, and then the text ends, or the socket is full or fails.
output_buffer_write_to(m) ==
  /\ pc = "idle"
  /\ write_from_offset + m <= write_into_offset
  /\ wire' = wire \o [k \in 1 .. m |-> out_buffer[write_from_offset + k - 1]]
  /\ write_from_offset' = SentTo(m)
  /\ UNCHANGED <<out_buffer, out_length, write_into_offset, written, pc, exact>>

\* Mutant: the sending side is not reset.
ResetFromKept == write_from_offset

\* Where sending starts after a reset.
ResetFrom == 0

\* Both offsets go back; what the buffer holds is no byte of the next text.
output_buffer_reset ==
  /\ pc = "idle"
  /\ write_from_offset' = ResetFrom
  /\ write_into_offset' = 0
  /\ exact' = {}
  /\ wire' = << >>
  /\ out_buffer' = [i \in 0 .. out_length - 1 |-> Junk]
  /\ UNCHANGED <<out_length, written, pc>>

\* output_buffer_destroy, and output_buffer_init for the next connection.
output_buffer_destroy ==
  /\ pc = "idle"
  /\ out_buffer' = [i \in 0 .. InitSize - 1 |-> Junk]
  /\ out_length' = InitSize
  /\ write_from_offset' = 0
  /\ write_into_offset' = 0
  /\ exact' = {}
  /\ wire' = << >>
  /\ UNCHANGED <<written, pc>>

------------------------------------------------------------------------------
(* Properties *)

OutTypeOK ==
  /\ out_length \in Nat \ {0}
  /\ out_buffer \in [0 .. out_length - 1 -> Nat \cup {NUL, Junk}]
  /\ write_from_offset \in Nat
  /\ write_into_offset \in Nat
  /\ written \in Nat
  /\ pc \in {"idle", "append", "retry"}
  /\ exact \subseteq Nat
  /\ wire \in Seq(Nat \cup {NUL, Junk})

(***************************************************************************)
(* The offsets stay ordered and inside the allocation, so that neither     *)
(* vsnprintf nor write is handed memory past the end, and length -         *)
(* write_into_offset does not wrap.                                        *)
(* All of it presumes the types (OutTypeOK).                               *)
(***************************************************************************)
OffsetsOrdered ==
  /\ OutTypeOK
  /\ write_from_offset <= write_into_offset
  /\ write_into_offset <= out_length

(***************************************************************************)
(* One resize is always enough: after it the loop of output_buffer_append  *)
(* formats the text and returns.                                           *)
(***************************************************************************)
OneResize == pc = "retry" => written < max_to_write

(***************************************************************************)
(* The socket gets the appended bytes in order, none skipped and none      *)
(* twice, however appends, resizes and short writes cut the text up; only  *)
(* the last byte of an append that ended exactly at length is lost to      *)
(* vsnprintf's terminator.                                                 *)
(***************************************************************************)
WireInOrder ==
  /\ Len(wire) = write_from_offset
  /\ \A k \in DOMAIN wire : wire[k] = IF k - 1 \in exact THEN NUL ELSE k - 1

==============================================================================
