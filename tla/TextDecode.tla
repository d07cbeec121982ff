----------------------------- MODULE TextDecode -----------------------------
(***************************************************************************)
(* The UTF-8 decoder of the text library (asterius/libc/text_cbits.c): a   *)
(* stream arrives in chunks, and the decoder is restarted for each of them *)
(* with the state and the code point of the chunk before.  On i386 and     *)
(* x86_64 runs of ASCII characters are copied four at a time, and the      *)
(* encoder, which is used here to turn what was decoded back, has a fast   *)
(* path of its own on each.                                                *)
(***************************************************************************)
EXTENDS Utf8

CONSTANTS
  Bytes,     \* the bytes of the stream
  Runs,      \* how many ASCII characters a chunk may begin with
  MaxChunk,  \* bound: the bytes of a chunk behind such a run
  MaxBytes   \* bound: the bytes of the stream

VARIABLES
  host,
  decoded,    \* the bytes that have been decoded
  chunk, src, \* the last chunk, and the offset the decoder returned for it
  began,      \* the decoder's state when it was given that chunk
  units,      \* the units of UTF-16 that have been written
  codepoint0, state0

textVars == <<host, decoded, chunk, src, began, units, codepoint0, state0>>

Platforms == {"i386", "x86_64", "other"}

(***************************************************************************)
(* The decoder.  Within a chunk: s is the next byte to decoded, last is       *)
(* behind the last character, d is what has been written.                  *)
(***************************************************************************)
Ascii(bs) == \A i \in 1..Len(bs) : bs[i] < 128

\* How many bytes the copy of four at a time takes from offset s on: it leaves
\* at least one byte to the automaton.
RECURSIVE FastBytes(_, _)
FastBytes(c, s) ==
  IF s < Len(c) - 4 /\ Ascii(SubSeq(c, s + 1, s + 4)) THEN 4 + FastBytes(c, s + 4) ELSE 0

fastAscii(c, r) ==
  IF host # "other" /\ r.state = UTF8_ACCEPT
  THEN LET n == FastBytes(c, r.s)
       IN  [r EXCEPT !.s = @ + n, !.last = r.s + n, !.d = @ \o SubSeq(c, r.s + 1, r.s + n)]
  ELSE r

decodeByte(c, r) ==
  LET a == decode(r.state, r.codep, c[r.s + 1])
      t == [r EXCEPT !.s = @ + 1, !.state = a.state, !.codep = a.codep]
  IN  IF a.state = UTF8_ACCEPT THEN [t EXCEPT !.d = @ \o emit(a.codep), !.last = t.s] ELSE t

RECURSIVE decodeLoop(_, _)
decodeLoop(c, r) ==
  IF r.s >= Len(c) \/ r.state = UTF8_REJECT THEN r
  ELSE decodeLoop(c, decodeByte(c, fastAscii(c, r)))

\* A bug: the state of the chunk before is not taken up.
intFresh(c) ==
  decodeLoop(c, [s |-> 0, last |-> 0, d |-> units, state |-> UTF8_ACCEPT, codep |-> codepoint0])

_hs_text_decode_utf8_int(c) ==
  decodeLoop(c, [s |-> 0, last |-> 0, d |-> units, state |-> state0, codep |-> codepoint0])

_hs_text_decode_utf8(c) ==
  decodeLoop(c, [s |-> 0, last |-> 0, d |-> <<>>, state |-> UTF8_ACCEPT, codep |-> 0])

(***************************************************************************)
(* The encoder.                                                            *)
(***************************************************************************)
\* The units the fast path of a host copies in front of us: on x86_64 four
\* at a time and then those before the first that is not ASCII, but never the
\* fourth; on i386 two at a time.
RECURSIVE Copied(_)
Copied(us) ==
  CASE host = "x86_64" /\ Len(us) >= 4 /\ Ascii(SubSeq(us, 1, 4)) ->
         4 + Copied(SubSeq(us, 5, Len(us)))
    [] host = "x86_64" /\ Len(us) >= 4 /\ ~Ascii(SubSeq(us, 1, 4)) ->
         CHOOSE n \in 0..3 : Ascii(SubSeq(us, 1, n)) /\ (n = 3 \/ us[n + 1] >= 128)
    [] host = "i386" /\ Len(us) >= 2 /\ Ascii(SubSeq(us, 1, 2)) ->
         2 + Copied(SubSeq(us, 3, Len(us)))
    [] OTHER -> 0

joinPair(w, u) == (w - 55296) * 1024 + (u - 56320) + 65536

\* One unit, or a pair, that is not taken by the fast path.
bytesOf(w, us) ==
  CASE w <= 127  -> <<w>>
    [] w \in 128..2047 -> <<192 + w \div 64, 128 + (w % 64)>>
    [] w > 2047 /\ w \notin High ->
         <<224 + w \div 4096, 128 + ((w \div 64) % 64), 128 + (w % 64)>>
    [] OTHER ->
         LET c == joinPair(w, us[2])
         IN  <<240 + c \div 262144, 128 + ((c \div 4096) % 64), 128 + ((c \div 64) % 64), 128 + (c % 64)>>

\* The loop begins with the fast path, and returns to it after an ASCII unit.
RECURSIVE encodeFrom(_, _)
encodeFrom(us, atAscii) ==
  LET n    == IF atAscii THEN Copied(us) ELSE 0
      rest == SubSeq(us, n + 1, Len(us))
      used == IF rest[1] \in High THEN 2 ELSE 1
  IN  IF us = <<>> THEN <<>>
      ELSE SubSeq(us, 1, n) \o
           (IF rest = <<>> THEN <<>>
            ELSE bytesOf(rest[1], rest) \o encodeFrom(SubSeq(rest, used + 1, Len(rest)), rest[1] < 128))

_hs_text_encode_utf8(us) == encodeFrom(us, TRUE)

----------------------------------------------------------------------------
TextInit ==
  /\ host \in Platforms
  /\ decoded = <<>> /\ chunk = <<>> /\ src = 0 /\ began = UTF8_ACCEPT
  /\ units = <<>> /\ codepoint0 = 0 /\ state0 = UTF8_ACCEPT

\* A caller of _hs_text_decode_utf8_state with the next chunk of its stream.
_hs_text_decode_utf8_state(c) ==
  LET r == _hs_text_decode_utf8_int(c)
  IN  /\ state0 # UTF8_REJECT
      /\ decoded' = decoded \o SubSeq(c, 1, r.s)
      /\ chunk' = c /\ src' = r.last /\ began' = state0
      /\ units' = r.d /\ codepoint0' = r.codep /\ state0' = r.state
      /\ UNCHANGED host

Chunks ==
  { [i \in 1..n |-> 97] \o b : n \in Runs, b \in UNION { [1..m -> Bytes] : m \in 0..MaxChunk } }

TextNext ==
  \E c \in Chunks :
     Len(decoded) + Len(c) <= MaxBytes /\ c # <<>> /\ _hs_text_decode_utf8_state(c)

TextSpec == TextInit /\ [][TextNext]_textVars
----------------------------------------------------------------------------
\* The bytes behind the last character that was decoded.
Pending == SubSeq(decoded, Len(_hs_text_encode_utf8(units)) + 1, Len(decoded))

\* Every unit fits in 16 bits, the returned offset is one of the chunk.
TextTypeOK ==
  /\ state0 \in States
  /\ src \in 0..Len(chunk)
  /\ \A i \in 1..Len(units) : units[i] \in 0..65535

\* However the stream was cut, encoding what has been decoded gives back the
\* bytes it came from: no byte is lost, doubled or changed, and none of the
\* characters had a longer form.
RoundTrip == IsPrefix(_hs_text_encode_utf8(units), decoded)

\* Surrogates are only written in pairs.
PairsOnly == WellFormed16(units)

\* The decoder stops exactly at the first byte that no well-formed character can
\* have there, and is between two characters exactly when nothing is pending.
StopsAtFirstIllFormed ==
  LET p == Pending
  IN  /\ state0 = UTF8_ACCEPT <=> p = <<>>
      /\ state0 = UTF8_REJECT <=> p # <<>> /\ ~Viable(p)
      /\ state0 = UTF8_REJECT => Len(p) = 1 \/ Viable(Front(p))

\* A chunk that begins between two characters: the decoder returns where the
\* last of its characters ends.
ReturnsEndOfCharacters ==
  began = UTF8_ACCEPT => IsPrefix(Pending, SubSeq(chunk, src + 1, Len(chunk)))

\* A whole stream and the same stream in chunks give the same units.
CuttingDoesNotMatter == units = _hs_text_decode_utf8(decoded).d

\* "In this case we return the address of the first invalid byte": what the
\* returned offset points at is where the ill-formed sequence begins, or the byte
\* that cannot be in it.
RejectPointsAtInvalid ==
  state0 = UTF8_REJECT => \/ chunk[src + 1] = Last(decoded)
                          \/ IsPrefix(Pending, SubSeq(chunk, src + 1, Len(chunk)))
============================================================================
