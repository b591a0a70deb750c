-------------------------- MODULE MCChunkedDecoder ---------------------------
(***************************************************************************)
(* The messages ChunkedDecoder is checked with: encodings of short bodies  *)
(* whose data looks like sizes and line ends, and broken ones.  They are   *)
(* put together from the grammar of the coding; that reading them gives    *)
(* their bodies back is the assumption of ChunkedCoding, which TLC checks. *)
(***************************************************************************)
EXTENDS ChunkedDecoder, SequencesExt

LineEnd == <<"cr", "lf">>
Digits == <<"0", "1", "2">>
MCHexValue == [c \in {"0", "1", "2"} |-> CASE c = "0" -> 0 [] c = "1" -> 1 [] c = "2" -> 2]
MCChars == {"0", "1", "2", "cr", "lf", "x"}

\* The line with the size n, with or without a leading zero and an extension.
SizeLine(n, style) ==
  (IF style.pad THEN <<"0">> ELSE << >>) \o <<Digits[n + 1]>>
    \o (IF style.ext THEN <<"x">> ELSE << >>) \o LineEnd

Chunk(data, style) == SizeLine(Len(data), style) \o data \o LineEnd

Bodies == {<< >>} \cup {<<d>> : d \in {<<"lf">>, <<"1", "x">>}}
            \cup {<<<<"cr", "lf">>, d>> : d \in {<<"0">>, <<"lf", "2">>}}

Chunks(body, style) == FlattenSeq([i \in DOMAIN body |-> Chunk(body[i], style)])

Styles == {[pad |-> FALSE, ext |-> TRUE], [pad |-> TRUE, ext |-> FALSE]}

\* The end of the body, an optional trailer line, and the next message.
Whole(body, style, trailer, consume, next) ==
  LET end == trailer \o LineEnd
  IN [bytes |-> Chunks(body, style) \o SizeLine(0, style) \o end \o next,
      body |-> FlattenSeq(body),
      tail |-> IF consume THEN next ELSE end \o next,
      consume |-> consume, ok |-> TRUE]

\* A line without a size, one with too many digits, data longer than its size.
Broken(body, style, wrong) ==
  [bytes |-> Chunks(body, style) \o wrong, body |-> FlattenSeq(body) \o <<"1">>,
   tail |-> << >>, consume |-> TRUE, ok |-> FALSE]

MCMessages ==
  {Whole(b, s, t, c, n) : b \in Bodies, s \in Styles,
     t \in {<< >>, <<"x", "cr", "lf">>}, c \in BOOLEAN, n \in {<< >>, <<"2">>}}
  \cup
  {Broken(b, s, w) : b \in Bodies, s \in Styles,
     w \in {<<"x", "cr", "lf">>, <<"0", "0", "1">>, <<"1", "cr", "lf", "1", "1">>}}

MCReading ==
  [m \in MCMessages |->
     LET f[k \in 0 .. Len(m.bytes)] ==
           IF k = 0 THEN Start ELSE After(f[k - 1], m.bytes[k], m.consume)
     IN f]

==============================================================================
