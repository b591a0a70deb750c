--------------------------- MODULE ChunkedDecoder ----------------------------
(***************************************************************************)
(* phr_decode_chunked of src/src/picohttpparser.c: it takes the chunked    *)
(* encoding off the bytes it is given, in place, over as many calls as the *)
(* caller's segments make.                                                 *)
(*                                                                         *)
(* The caller does what picohttpparser.h asks of it: a zero-filled decoder *)
(* and a call for every segment while the result is -2.  It supplies one   *)
(* of Messages, each cut into segments in every way.  ChunkedCoding says   *)
(* what they mean.                                                         *)
(***************************************************************************)
EXTENDS ChunkedCoding

VARIABLES
  msg, rest,      \* the message, and its bytes not supplied yet
  buf, src, dst,  \* the buffer of the current call and the offsets into it
  decoder,        \* struct phr_chunked_decoder but for consume_trailer
  ret,            \* the result of the last call
  pc,             \* "call" inside phr_decode_chunked, else "caller"
  got             \* what earlier calls decoded

vars == <<msg, rest, buf, src, dst, decoder, ret, pc, got>>

Init ==
  /\ msg \in Messages
  /\ rest = msg.bytes
  /\ buf = << >>
  /\ src = 0
  /\ dst = 0
  /\ decoder = [state |-> "SIZE", left |-> 0, hex |-> 0]
  /\ ret = -2
  /\ pc = "caller"
  /\ got = << >>

\* The caller takes the decoded bytes away and supplies the next n.
Supply(n) ==
  /\ pc = "caller"
  /\ ret = -2
  /\ n \in 1 .. Len(rest)
  /\ got' = got \o SubSeq(buf, 1, dst)
  /\ buf' = SubSeq(rest, 1, n)
  /\ rest' = SubSeq(rest, n + 1, Len(rest))
  /\ src' = 0
  /\ dst' = 0
  /\ pc' = "call"
  /\ UNCHANGED <<msg, decoder, ret>>

------------------------------------------------------------------------------
(* The body of phr_decode_chunked: one step for a turn of one of its loops *)

In(state) == pc = "call" /\ decoder.state = state
AtEnd == src = Len(buf)
Current == buf[src + 1]

\* memmove(buf + to, buf + from, n)
Moved(to, from, n) ==
  [i \in 1 .. Len(buf) |-> IF to < i /\ i <= to + n THEN buf[from + i - to] ELSE buf[i]]

\* Mutant: what is left undecoded stays where it is.
NotLeft(s) == buf

\* The tail from offset s on is left behind the data.
Left(s) == Moved(dst, s, Len(buf) - s)

\* The label Exit, reached at offset s.
Exit(result, s) ==
  /\ buf' = Left(s)
  /\ src' = s
  /\ ret' = result
  /\ pc' = "caller"
  /\ UNCHANGED <<msg, rest, dst, got>>

\* On to offset s with the given decoder.
Go(s, d) ==
  /\ src' = s
  /\ decoder' = d
  /\ UNCHANGED <<msg, rest, buf, dst, ret, pc, got>>

\* The supplied bytes are used up outside of the data.
UsedUp ==
  /\ pc = "call"
  /\ decoder.state # "DATA"
  /\ AtEnd
  /\ Exit(-2, src)
  /\ UNCHANGED decoder

\* Mutant: the digits of the next size are added to those of this one.
SizeEndKeepsHex(d) == [d EXCEPT !.state = "EXT"]

\* The size is followed by something that is not a digit.
SizeEnd(d) == [d EXCEPT !.state = "EXT", !.hex = 0]

decode_hex(ch) == IF ch \in Hex THEN HexValue[ch] ELSE -1

ChunkSize ==
  LET v == decode_hex(Current)
  IN /\ In("SIZE")
     /\ ~AtEnd
     /\ \/ /\ v # -1 /\ decoder.hex # HexMax
           /\ Go(src + 1, [decoder EXCEPT !.left = @ * 16 + v, !.hex = @ + 1])
        \/ /\ decoder.hex = IF v = -1 THEN 0 ELSE HexMax
           /\ Exit(-1, src)
           /\ UNCHANGED decoder
        \/ /\ v = -1 /\ decoder.hex # 0
           /\ Go(src, SizeEnd(decoder))

\* Extensions are skipped; a size of zero ends the body.
ChunkExt ==
  /\ In("EXT")
  /\ ~AtEnd
  /\ \/ Current # "lf" /\ Go(src + 1, decoder)
     \/ Current = "lf" /\ decoder.left > 0 /\ Go(src + 1, [decoder EXCEPT !.state = "DATA"])
     \/ /\ Current = "lf" /\ decoder.left = 0 /\ msg.consume
        /\ Go(src + 1, [decoder EXCEPT !.state = "TRAILERS_HEAD"])
     \/ /\ Current = "lf" /\ decoder.left = 0 /\ ~msg.consume
        /\ Exit(Len(buf) - (src + 1), src + 1)
        /\ UNCHANGED decoder

\* Mutant: the bytes of a chunk that goes on in the next segment are not
\* taken off its size.
LeftUnchanged(n) == decoder.left

\* bytes_left_in_chunk when n bytes of the chunk have been moved.
LeftAfter(n) == decoder.left - n

\* As much of the chunk as is there moves down to dst.
ChunkData ==
  LET avail == Len(buf) - src
      n == IF avail < decoder.left THEN avail ELSE decoder.left
  IN /\ In("DATA")
     /\ buf' = Moved(dst, src, n)
     /\ src' = src + n
     /\ dst' = dst + n
     /\ IF avail < decoder.left
        THEN /\ decoder' = [decoder EXCEPT !.left = LeftAfter(n)]
             /\ ret' = -2
             /\ pc' = "caller"
        ELSE /\ decoder' = [decoder EXCEPT !.left = 0, !.state = "CRLF"]
             /\ UNCHANGED <<ret, pc>>
     /\ UNCHANGED <<msg, rest, got>>

ChunkCrlf ==
  /\ In("CRLF")
  /\ ~AtEnd
  /\ \/ Current = "cr" /\ Go(src + 1, decoder)
     \/ Current = "lf" /\ Go(src + 1, [decoder EXCEPT !.state = "SIZE"])
     \/ Current \notin {"cr", "lf"} /\ Exit(-1, src) /\ UNCHANGED decoder

\* A trailer line begins; an empty one is the end.
TrailersHead ==
  /\ In("TRAILERS_HEAD")
  /\ ~AtEnd
  /\ \/ Current = "cr" /\ Go(src + 1, decoder)
     \/ Current = "lf" /\ Exit(Len(buf) - (src + 1), src + 1) /\ UNCHANGED decoder
     \/ Current \notin {"cr", "lf"} /\ Go(src + 1, [decoder EXCEPT !.state = "TRAILERS_MIDDLE"])

\* Mutant: the loop over a trailer line stays where it is.
NotPast(c) == src

\* Past a character of a trailer line.
Past(c) == src + 1

TrailersMiddle ==
  /\ In("TRAILERS_MIDDLE")
  /\ ~AtEnd
  /\ Go(Past(Current),
        IF Current = "lf" THEN [decoder EXCEPT !.state = "TRAILERS_HEAD"] ELSE decoder)

phr_decode_chunked ==
  \/ UsedUp
  \/ ChunkSize
  \/ ChunkExt
  \/ ChunkData
  \/ ChunkCrlf
  \/ TrailersHead
  \/ TrailersMiddle

Next == (\E n \in 1 .. Len(rest) : Supply(n)) \/ phr_decode_chunked

Spec == Init /\ [][Next]_vars

\* A call that has begun goes on; the next segment need never come.
FairSpec == Spec /\ WF_vars(phr_decode_chunked)

------------------------------------------------------------------------------
(* Properties *)

Decoded == got \o SubSeq(buf, 1, dst)

\* A size_t has 4 * HexMax bits.
Decoder ==
  [state : {"SIZE", "EXT", "DATA", "CRLF", "TRAILERS_HEAD", "TRAILERS_MIDDLE"},
   left : 0 .. 2 ^ (4 * HexMax) - 1, hex : 0 .. HexMax]

TypeOK ==
  /\ {rest, buf, got} \subseteq Seq(Chars)
  /\ dst \in 0 .. src
  /\ src \in 0 .. Len(buf)
  /\ decoder \in Decoder
  /\ ret \in Int
  /\ pc \in {"call", "caller"}

(***************************************************************************)
(* "the function rewrites the buffer ... removing the chunked-encoding     *)
(* headers" (picohttpparser.h:71): however the message is cut into         *)
(* segments, the bytes decoded so far are the first bytes of the body,     *)
(* although input and output share one buffer.                             *)
(* All of it presumes the types (TypeOK).                                  *)
(***************************************************************************)
DecodesBody ==
  /\ TypeOK
  /\ Len(Decoded) <= Len(msg.body)
  /\ Decoded = SubSeq(msg.body, 1, Len(Decoded))

(***************************************************************************)
(* "returns a non-negative number indicating the number of octets left     *)
(* undecoded at the tail of the supplied buffer" (picohttpparser.h:76):    *)
(* then the whole body is decoded, and those octets, right behind it, and  *)
(* what was not yet supplied are all that follows the body.                *)
(***************************************************************************)
CompleteLeavesTail ==
  ret >= 0 => /\ Decoded = msg.body
              /\ SubSeq(buf, dst + 1, dst + ret) \o rest = msg.tail

(***************************************************************************)
(* The verdict does not depend on the segments: a well-formed message is   *)
(* never refused and is complete once all of it is supplied; one that is   *)
(* not well formed is never complete, and is refused by then.              *)
(***************************************************************************)
VerdictRight ==
  /\ ret = -1 => ~msg.ok
  /\ ret >= 0 => msg.ok
  /\ pc = "caller" /\ rest = << >> => ret # -2

(***************************************************************************)
(* Every call returns: each turn of the loops uses a byte up or leaves a   *)
(* state it does not come back to without using one.                       *)
(***************************************************************************)
CallReturns == pc = "call" ~> pc = "caller"

==============================================================================
