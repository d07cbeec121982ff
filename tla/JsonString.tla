----------------------------- MODULE JsonString -----------------------------
(***************************************************************************)
(* _js_decode_string of asterius/libc/unescape_string.c: the inside of a   *)
(* JSON string in UTF-8 becomes UTF-16.  The function jumps between        *)
(* labels; each step reads the byte that the label looks at.  The function *)
(* is compared with the grammar of JSON strings.                           *)
(***************************************************************************)
EXTENDS Utf8, FiniteSetsExt

CONSTANTS
  JsonBytes, \* the bytes of the input
  LastBytes, \* bound: those tried as the third and fourth digit of an escape
  MaxUnits   \* bound: a string goes on until it has given that many units

VARIABLES
  json,      \* the bytes that have been read
  label,
  digits,    \* how many digits of an escape have been read: the labels unicode1 to unicode4
  dest, state, codepoint,
  surrogate, \* has a high surrogate been read?
  unidata, ret

jsonVars == <<json, label, digits, dest, state, codepoint, surrogate, unidata, ret>>

Running == 2
Backslash == 92

Simple == {34, 92, 47, 98, 102, 110, 114, 116}

\* The escapes of one character.
simple(b) ==
  CASE b \in {34, 92, 47} -> b
    [] b = 98 -> 8 [] b = 102 -> 12 [] b = 110 -> 10 [] b = 114 -> 13 [] b = 116 -> 9

decode_hex(c) ==
  CASE c \in 48..57  -> c - 48
    [] c \in 97..102 -> c - 97 + 10
    [] c \in 65..70  -> c - 65 + 10
    [] OTHER         -> 65535
----------------------------------------------------------------------------
JsonInit ==
  /\ json = <<>> /\ label = "standard" /\ digits = 0
  /\ dest = <<>> /\ state = UTF8_ACCEPT /\ codepoint = 0
  /\ surrogate = FALSE /\ unidata = 0 /\ ret = Running

NextByte(b) == ret = Running /\ json' = Append(json, b)
Refuse(r) == ret' = r /\ UNCHANGED <<label, digits, dest, state, codepoint, surrogate, unidata>>
Goto(l) == label' = l /\ ret' = ret

standard(b) ==
  /\ label = "standard" /\ NextByte(b)
  /\ LET a == decode(state, codepoint, b)
     IN  /\ state' = a.state /\ codepoint' = a.codep
         /\ ret' = IF a.state = UTF8_REJECT THEN -1 ELSE ret
         /\ IF a.state = UTF8_ACCEPT /\ a.codep = Backslash
            THEN label' = "backslash" /\ UNCHANGED dest
            ELSE label' = label /\ dest' = dest \o IF a.state = UTF8_ACCEPT THEN emit(a.codep) ELSE <<>>
  /\ UNCHANGED <<digits, surrogate, unidata>>

backslash(b) ==
  /\ label = "backslash" /\ NextByte(b)
  /\ \/ /\ b \in Simple /\ dest' = Append(dest, simple(b)) /\ Goto("standard")
        /\ UNCHANGED <<digits, state, codepoint, surrogate, unidata>>
     \/ /\ b = 117 /\ Goto("unicode") /\ digits' = 0
        /\ UNCHANGED <<dest, state, codepoint, surrogate, unidata>>
     \/ b \notin Simple \cup {117} /\ Refuse(-1)

afterUnit(u) ==
  \/ surrogate /\ u \in Low /\ surrogate' = FALSE /\ Goto("standard")
  \/ ~surrogate /\ u \in High /\ surrogate' = TRUE /\ Goto("surrogate1")
  \/ ~surrogate /\ u \notin High \cup Low /\ Goto("standard") /\ UNCHANGED surrogate
  \/ /\ (surrogate /\ u \notin Low) \/ (~surrogate /\ u \in Low)
     /\ ret' = -1 /\ UNCHANGED <<label, surrogate>>

unicode(b) ==
  /\ label = "unicode" /\ NextByte(b)
  /\ \/ decode_hex(b) = 65535 /\ Refuse(-1)
     \/ /\ decode_hex(b) # 65535
        /\ unidata' = (IF digits = 0 THEN 0 ELSE unidata) + decode_hex(b) * 16^(3 - digits)
        /\ digits' = (digits + 1) % 4
        /\ IF digits < 3
           THEN Goto("unicode") /\ UNCHANGED <<dest, surrogate>>
           ELSE dest' = Append(dest, unidata') /\ afterUnit(unidata')
        /\ UNCHANGED <<state, codepoint>>

surrogate1(b) ==
  /\ label = "surrogate1" /\ NextByte(b)
  /\ IF b = Backslash
     THEN Goto("surrogate2") /\ UNCHANGED <<digits, dest, state, codepoint, surrogate, unidata>>
     ELSE Refuse(-1)

surrogate2(b) ==
  /\ label = "surrogate2" /\ NextByte(b)
  /\ IF b = 117
     THEN Goto("unicode") /\ UNCHANGED <<digits, dest, state, codepoint, surrogate, unidata>>
     ELSE Refuse(-1)

\* The end of the string: an error inside an escape, and inside a character.
resultAtEnd == IF label # "standard" THEN -1 ELSE IF state # UTF8_ACCEPT THEN 1 ELSE 0

atEnd ==
  /\ ret = Running
  /\ ret' = resultAtEnd /\ label' = "end"
  /\ UNCHANGED <<json, digits, dest, state, codepoint, surrogate, unidata>>

More == Len(dest) < MaxUnits \/ label # "standard" \/ state # UTF8_ACCEPT

_js_decode_string ==
  \/ \E b \in JsonBytes :
       /\ More /\ (label = "unicode" /\ digits >= 2 => b \in LastBytes)
       /\ (standard(b) \/ backslash(b) \/ unicode(b) \/ surrogate1(b) \/ surrogate2(b))
  \/ atEnd

JsonSpec == JsonInit /\ [][_js_decode_string]_jsonVars
----------------------------------------------------------------------------
(* The grammar.                                                            *)

\* The digits with the value n, and what stands for the control characters.
DigitsOf(n) == IF n < 10 THEN {48 + n} ELSE {55 + n, 87 + n}
IsHex(c)    == \E n \in 0..15 : c \in DigitsOf(n)
HexValue(c) == CHOOSE n \in 0..15 : c \in DigitsOf(n)
Control     == {<<98, 8>>, <<116, 9>>, <<110, 10>>, <<102, 12>>, <<114, 13>>}
Itself      == {34, 47, 92}

HexUnit(p) == FoldLeft(LAMBDA u, c : u * 16 + HexValue(c), 0, p)

IsEscapedUnit(p) ==
  Len(p) = 6 /\ p[1] = 92 /\ p[2] = 117 /\ \A i \in 3..6 : IsHex(p[i])

UnitOf(p) == HexUnit(SubSeq(p, 3, 6))

\* What the bytes p stand for when they are one element of a string.
Element(p) ==
  CASE IsCharacter(p) /\ p # <<92>> -> {emit(Scalar(p))}
    [] Len(p) = 2 /\ p[1] = 92 ->
         { <<u>> : u \in { v \in {8, 9, 10, 12, 13} : <<p[2], v>> \in Control } \cup ({p[2]} \cap Itself) }
    [] IsEscapedUnit(p) /\ UnitOf(p) \notin High \cup Low -> {<<UnitOf(p)>>}
    [] Len(p) = 12 /\ IsEscapedUnit(SubSeq(p, 1, 6)) /\ IsEscapedUnit(SubSeq(p, 7, 12))
         /\ UnitOf(SubSeq(p, 1, 6)) \in High /\ UnitOf(SubSeq(p, 7, 12)) \in Low ->
         {<<UnitOf(SubSeq(p, 1, 6)), UnitOf(SubSeq(p, 7, 12))>>}
    [] OTHER -> {}

\* What bytes stand for: at most one sequence of units.
RECURSIVE Meanings(_)
Meanings(bs) ==
  IF bs = <<>> THEN {<<>>}
  ELSE UNION { { u \o v : u \in Element(SubSeq(bs, 1, n)),
                          v \in Meanings(SubSeq(bs, n + 1, Len(bs))) }
               : n \in { m \in {1, 2, 3, 4, 6, 12} : m <= Len(bs) /\ Element(SubSeq(bs, 1, m)) # {} } }

\* How a string that has been broken off can go on.
Completions ==
  LET tails(s) == { SubSeq(s, i, Len(s)) : i \in 1..Len(s) + 1 }
  IN  tails(<<117, 68, 66, 48, 48, 92, 117, 68, 67, 48, 48>>) \cup tails(<<48, 48, 48, 48>>)
      \cup tails(<<128, 128, 128>>) \cup tails(<<160, 128>>)
----------------------------------------------------------------------------
\* At most one unit of a pair is ever missing, and a unit is below 2^16.
JsonTypeOK ==
  /\ ret \in {-1, 0, 1, Running} /\ digits \in 0..3
  /\ \A i \in 1..Len(dest) : dest[i] \in 0..65535
  /\ ret = Running /\ surrogate => dest # <<>> /\ Last(dest) \in High

\* What the function accepts is a string by the grammar and it has written what
\* that string means.
AcceptedIsMeant == ret = 0 => dest \in Meanings(json)

\* What it refuses could not have been the beginning of a string, or ended in
\* the middle of one.
RefusedIsMeaningless ==
  /\ ret \in {-1, 1} => Meanings(json) = {}
  /\ ret = -1 /\ label # "end" =>
       \A t \in Completions : Meanings(json \o t) = {}

\* A string that is accepted has no half of a surrogate pair in it.
JsonPairsOnly == ret = 0 => WellFormed16(dest)

\* Between two elements, what has been written is what has been read.
InStep ==
  ret = Running /\ label = "standard" /\ state = UTF8_ACCEPT => Meanings(json) = {dest}
============================================================================
