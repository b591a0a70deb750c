---------------------------- MODULE ChunkedCoding ----------------------------
(***************************************************************************)
(* The chunked transfer coding (RFC 7230, 4.1) read one byte after another *)
(* from the first to the last: no buffer, no segments, no call that ends   *)
(* in the middle.  It says what a message means, as the reference that     *)
(* ChunkedDecoder is compared with.                                        *)
(***************************************************************************)
EXTENDS Integers, Sequences

CONSTANTS
  Chars,     \* the characters of a message
  HexValue,  \* the hexadecimal digits among them, with their values
  HexMax,    \* sizeof(size_t) * 2, the digits of a size
  Messages,  \* what is sent: bytes, the body they encode, what follows the
             \* body, whether trailers are to be consumed, and whether the
             \* bytes are well formed
  Reading    \* for each message and number of bytes, where a reader then is

Hex == DOMAIN HexValue

\* Where a reader is, the size and its digits so far or the bytes that are left
\* of the chunk, and how many bytes of the body have been read.
Position == [at : {"size", "ext", "data", "crlf", "head", "line", "done", "bad"},
             size : Nat, digits : 0 .. HexMax, body : Nat]

Start == [at |-> "size", size |-> 0, digits |-> 0, body |-> 0]

\* Behind the end of the line with the size.
BehindSize(r, consume) ==
  IF r.size > 0 THEN "data" ELSE IF consume THEN "head" ELSE "done"

\* The position behind the character c read at r.
After(r, c, consume) ==
  CASE r.at = "size" /\ c \in Hex /\ r.digits < HexMax ->
         [r EXCEPT !.size = 16 * @ + HexValue[c], !.digits = @ + 1]
    [] r.at = "size" /\ r.digits = (IF c \in Hex THEN HexMax ELSE 0) ->
         [r EXCEPT !.at = "bad"]
    [] r.at = "ext" \/ (r.at = "size" /\ c \notin Hex /\ r.digits # 0) ->
         [r EXCEPT !.at = IF c = "lf" THEN BehindSize(r, consume) ELSE "ext", !.digits = 0]
    [] r.at = "data" ->
         [r EXCEPT !.at = IF r.size = 1 THEN "crlf" ELSE "data",
                   !.size = @ - 1, !.body = @ + 1]
    [] r.at = "crlf" ->
         [r EXCEPT !.at = IF c = "cr" THEN "crlf" ELSE IF c = "lf" THEN "size" ELSE "bad"]
    [] r.at = "head" ->
         [r EXCEPT !.at = IF c = "cr" THEN "head" ELSE IF c = "lf" THEN "done" ELSE "line"]
    [] r.at = "line" ->
         [r EXCEPT !.at = IF c = "lf" THEN "head" ELSE "line"]
    [] r.at \in {"done", "bad"} -> r

\* f is what reading m comes to.
IsReading(m, f) ==
  /\ f \in [0 .. Len(m.bytes) -> Position]
  /\ f[0] = Start
  /\ \A k \in 1 .. Len(m.bytes) : f[k] = After(f[k - 1], m.bytes[k], m.consume)

\* The body is what is read as data, the tail what follows the end of the
\* coding, and reading all of m tells whether it is well formed.
IsMeaning(m, f) ==
  /\ \A k \in 1 .. Len(m.bytes) : f[k - 1].at = "data" =>
       f[k].body <= Len(m.body) /\ m.body[f[k].body] = m.bytes[k]
  /\ \A k \in 1 .. Len(m.bytes) : f[k].at = "done" /\ f[k - 1].at # "done" =>
       f[k].body = Len(m.body) /\ m.tail = SubSeq(m.bytes, k + 1, Len(m.bytes))
  /\ f[Len(m.bytes)].at = IF m.ok THEN "done" ELSE "bad"

ASSUME CharsAssumption ==
  /\ {"cr", "lf"} \subseteq Chars
  /\ HexValue \in [Hex -> 0 .. 15]
  /\ Hex \subseteq Chars \ {"cr", "lf"}
  /\ HexMax \in Nat \ {0}

ASSUME MessagesAssumption ==
  \A m \in Messages :
    /\ {m.bytes, m.body, m.tail} \subseteq Seq(Chars)
    /\ {m.consume, m.ok} \subseteq BOOLEAN
    /\ IsReading(m, Reading[m])
    /\ IsMeaning(m, Reading[m])

==============================================================================
