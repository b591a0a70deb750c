--------------------------- MODULE MessagePassing ----------------------------
(***************************************************************************)
(* src/src/message_passing.c: pointers sent from one thread to another     *)
(* through a stream socket, a few bytes at a time, blocking or resumed     *)
(* from where the last call left off.                                      *)
(*                                                                         *)
(* The sender makes a message of each pointer in turn (message_init) and   *)
(* writes it; the receiver reads one (message_reset first), takes the      *)
(* payload and goes on.  Byte i of the pointer p is <<p, i>>.  Each side   *)
(* uses either the sync or the async functions.                            *)
(***************************************************************************)
EXTENDS Naturals, Sequences

CONSTANTS
  Pointers,   \* bound: the pointers are 1 .. Pointers, sent in this order
  Word,       \* sizeof(size_t)
  Room,       \* bytes the socket holds
  Modes       \* "sync", "async"

ASSUME PassingAssumption ==
  /\ {Pointers, Word, Room} \subseteq Nat \ {0}
  /\ Modes \subseteq {"sync", "async"}

VARIABLES
  stream,            \* bytes in the socket
  open,              \* has the sender not closed the socket?
  w_mode, r_mode,    \* which functions the sender and the receiver use
  w_msg, r_msg,      \* the two struct Message, buffer and offset
  w_state, r_state,  \* what the last call returned; "CALL" inside one
  payloads           \* what message_get_payload returned so far

vars == <<stream, open, w_mode, r_mode, w_msg, r_msg, w_state, r_state, payloads>>

Bytes(p) == [i \in 1 .. Word |-> <<p, i>>]
Stale == <<0, 0>>

message_init(p) == [buffer |-> Bytes(p), offset |-> 0]

Init ==
  /\ stream = << >>
  /\ open = TRUE
  /\ w_mode \in Modes
  /\ r_mode \in Modes
  /\ w_msg = message_init(1)
  /\ r_msg = [buffer |-> [i \in 1 .. Word |-> Stale], offset |-> 0]
  /\ w_state = "WRITE_BUSY"
  /\ r_state = "READ_BUSY"
  /\ payloads = << >>

------------------------------------------------------------------------------
(* The sender *)

WriteCall ==
  /\ w_state = "WRITE_BUSY"
  /\ open
  /\ w_state' = "CALL"
  /\ UNCHANGED <<stream, open, w_mode, r_mode, w_msg, r_msg, r_state, payloads>>

\* Mutant: an interrupted message starts again from its first byte.
WriteFromStart(m, n) == SubSeq(m.buffer, 1, n)

\* The n bytes at the offset, of num_to_write.
WriteFrom(m, n) == SubSeq(m.buffer, m.offset + 1, m.offset + n)

\* write takes n bytes; the loop ends with the message.
WriteSome(n) ==
  /\ w_state = "CALL"
  /\ n \in 1 .. Word - w_msg.offset
  /\ Len(stream) + n <= Room
  /\ stream' = stream \o WriteFrom(w_msg, n)
  /\ w_msg' = [w_msg EXCEPT !.offset = @ + n]
  /\ w_state' = IF w_msg.offset + n < Word THEN "CALL" ELSE "WRITE_FINISH"
  /\ UNCHANGED <<open, w_mode, r_mode, r_msg, r_state, payloads>>

\* write fails with EAGAIN on a full socket: write_async returns, and
\* message_write_sync only logs it and tries again.
WriteBlocks ==
  /\ w_state = "CALL"
  /\ w_mode = "async"
  /\ Len(stream) = Room
  /\ w_state' = "WRITE_BUSY"
  /\ UNCHANGED <<stream, open, w_mode, r_mode, w_msg, r_msg, r_state, payloads>>

\* write fails otherwise, or takes nothing: write_async gives up, and
\* message_write_sync tries again.
WriteFails ==
  /\ w_state = "CALL"
  /\ w_mode = "async"
  /\ w_state' = "WRITE_ERROR"
  /\ UNCHANGED <<stream, open, w_mode, r_mode, w_msg, r_msg, r_state, payloads>>

\* The message is out: the next pointer.
NextMessage ==
  /\ w_state = "WRITE_FINISH"
  /\ w_msg.buffer # Bytes(Pointers)
  /\ \E p \in 2 .. Pointers :
       /\ w_msg.buffer = Bytes(p - 1)
       /\ w_msg' = message_init(p)
  /\ w_state' = "WRITE_BUSY"
  /\ UNCHANGED <<stream, open, w_mode, r_mode, r_msg, r_state, payloads>>

\* The sender ends, with or without the rest of a message.
Close ==
  /\ open
  /\ w_state # "CALL"
  /\ open' = FALSE
  /\ UNCHANGED <<stream, w_mode, r_mode, w_msg, r_msg, w_state, r_state, payloads>>

------------------------------------------------------------------------------
(* The receiver *)

ReadCall ==
  /\ r_state = "READ_BUSY"
  /\ r_state' = "CALL"
  /\ UNCHANGED <<stream, open, w_mode, r_mode, w_msg, r_msg, w_state, payloads>>

num_to_read(m) == Word - m.offset

\* The buffer with n bytes of the stream stored at the offset.
StoredAt(m, n) ==
  [i \in 1 .. Word |-> IF m.offset < i /\ i <= m.offset + n
                       THEN stream[i - m.offset] ELSE m.buffer[i]]

ReadSome(n) ==
  /\ r_state = "CALL"
  /\ n \in 1 .. num_to_read(r_msg)
  /\ n <= Len(stream)
  /\ r_msg' = [buffer |-> StoredAt(r_msg, n), offset |-> r_msg.offset + n]
  /\ stream' = SubSeq(stream, n + 1, Len(stream))
  /\ r_state' = IF r_msg.offset + n < Word THEN "CALL" ELSE "READ_FINISH"
  /\ UNCHANGED <<open, w_mode, r_mode, w_msg, w_state, payloads>>

\* Nothing to read: read_async returns READ_BUSY, or READ_ERROR at the end of
\* the stream; message_read_sync logs it and tries again in both cases.
ReadNothing ==
  /\ r_state = "CALL"
  /\ stream = << >>
  /\ r_mode = "async"
  /\ r_state' = IF open THEN "READ_BUSY" ELSE "READ_ERROR"
  /\ UNCHANGED <<stream, open, w_mode, r_mode, w_msg, r_msg, w_state, payloads>>

\* The same for read.
ReadFails ==
  /\ r_state = "CALL"
  /\ r_mode = "async"
  /\ r_state' = "READ_ERROR"
  /\ UNCHANGED <<stream, open, w_mode, r_mode, w_msg, r_msg, w_state, payloads>>

\* Mutant: the message is used again as it is.
message_reset_never(m) == m

message_reset(m) == [m EXCEPT !.offset = 0]

\* message_get_payload, whose assertion is in TypeOK: a message never holds
\* more than a word.  The message is reset for the next one.
GetPayload ==
  /\ r_state = "READ_FINISH"
  /\ payloads' = Append(payloads, r_msg.buffer)
  /\ r_msg' = message_reset(r_msg)
  /\ r_state' = "READ_BUSY"
  /\ UNCHANGED <<stream, open, w_mode, r_mode, w_msg, w_state>>

------------------------------------------------------------------------------

Writer == WriteCall \/ (\E n \in 1 .. Word : WriteSome(n)) \/ WriteBlocks \/ NextMessage
Reader == ReadCall \/ (\E n \in 1 .. Word : ReadSome(n)) \/ ReadNothing \/ GetPayload

Next == Writer \/ WriteFails \/ Close \/ Reader \/ ReadFails

Spec == Init /\ [][Next]_vars

\* Both threads are scheduled, and go on to call the async functions until they
\* finish.  The sender need not close the socket.
FairSpec ==
  /\ Spec
  /\ WF_vars(Writer)
  /\ WF_vars(Reader)

------------------------------------------------------------------------------
(* Properties *)

Message == [buffer : [1 .. Word -> ((1 .. Pointers) \X (1 .. Word)) \cup {Stale}],
            offset : 0 .. Word]

TypeOK ==
  /\ stream \in Seq((1 .. Pointers) \X (1 .. Word))
  /\ Len(stream) <= Room
  /\ open \in BOOLEAN
  /\ {w_mode, r_mode} \subseteq Modes
  /\ {w_msg, r_msg} \subseteq Message
  /\ w_state \in {"CALL", "WRITE_BUSY", "WRITE_FINISH", "WRITE_ERROR"}
  /\ r_state \in {"CALL", "READ_BUSY", "READ_FINISH", "READ_ERROR"}
  /\ payloads \in Seq([1 .. Word -> (1 .. Pointers) \X (1 .. Word)])

(***************************************************************************)
(* The receiver gets the pointers that were sent, whole, in order, none    *)
(* lost or repeated: a message that is cut by short writes, short reads or *)
(* a closed socket is never handed out in part, nor mixed with another.    *)
(* All of it presumes the types (TypeOK).                                  *)
(***************************************************************************)
PayloadsIntact ==
  /\ TypeOK
  /\ Len(payloads) <= Pointers
  /\ \A k \in DOMAIN payloads : payloads[k] = Bytes(k)

(***************************************************************************)
(* As long as the sender stays and no call returns an error, every pointer *)
(* arrives, whichever functions the two sides use: no retry waits for a    *)
(* byte that will never come.                                              *)
(***************************************************************************)
AllArrive ==
  <>(~open \/ w_state = "WRITE_ERROR" \/ r_state = "READ_ERROR" \/ Len(payloads) = Pointers)

==============================================================================
