-------------------------------- MODULE Utf8 --------------------------------
(***************************************************************************)
(* The automaton that asterius/libc/text_cbits.c and unescape_string.c     *)
(* decode UTF-8 with, and what the Unicode standard says about UTF-8 and   *)
(* UTF-16, which the modules that extend this one compare it with.         *)
(***************************************************************************)
EXTENDS Integers, Sequences, SequencesExt, TLC

UTF8_ACCEPT == 0
UTF8_REJECT == 12

\* The first half of utf8d: the class of a byte.
class(b) ==
  CASE b < 128 -> 0
    [] b \in 128..143 -> 1
    [] b \in 144..159 -> 9
    [] b \in 160..191 -> 7
    [] b \in {192, 193} \/ b >= 245 -> 8
    [] b \in 194..223 -> 2
    [] b = 224 -> 10
    [] b = 237 -> 4
    [] b \in 225..239 \ {237} -> 3
    [] b = 240 -> 11
    [] b \in 241..243 -> 6
    [] b = 244 -> 5

\* The second half: where the classes 0 to 11 lead from a state.
States == {0, 12, 24, 36, 48, 60, 72, 84, 96}
Leads(s) ==
  CASE s = 0  -> << 0, 12, 24, 36, 60, 96, 84, 12, 12, 12, 48, 72>>
    [] s = 12 -> <<12, 12, 12, 12, 12, 12, 12, 12, 12, 12, 12, 12>>
    [] s = 24 -> <<12,  0, 12, 12, 12, 12, 12,  0, 12,  0, 12, 12>>
    [] s = 36 -> <<12, 24, 12, 12, 12, 12, 12, 24, 12, 24, 12, 12>>
    [] s = 48 -> <<12, 12, 12, 12, 12, 12, 12, 24, 12, 12, 12, 12>>
    [] s = 60 -> <<12, 24, 12, 12, 12, 12, 12, 12, 12, 24, 12, 12>>
    [] s = 72 -> <<12, 12, 12, 12, 12, 12, 12, 36, 12, 36, 12, 12>>
    [] s = 84 -> <<12, 36, 12, 12, 12, 12, 12, 36, 12, 36, 12, 12>>
    [] s = 96 -> <<12, 36, 12, 12, 12, 12, 12, 12, 12, 12, 12, 12>>

\* One step of the automaton: the code point so far and the next state.
decode(state, codep, byte) ==
  LET type == class(byte)
  IN  [ codep |-> IF state # UTF8_ACCEPT THEN codep * 64 + (byte % 64)
                                         ELSE byte % (2^(IF type < 8 THEN 8 - type ELSE 0)),
        state |-> Leads(state)[type + 1] ]

\* A code point as one or two units of UTF-16.
emit(codepoint) ==
  IF codepoint <= 65535
  THEN <<codepoint>>
  ELSE <<55232 + codepoint \div 1024, 56320 + (codepoint % 1024)>>
----------------------------------------------------------------------------
(* The Unicode standard, for reference.                                    *)

\* The bytes that may follow the first byte of a sequence (table 3-7).
SecondBytes(b) ==
  CASE b \in 194..223 \cup 225..236 \cup {238, 239} \cup 241..243 -> 128..191
    [] b = 224 -> 160..191
    [] b = 237 -> 128..159
    [] b = 240 -> 144..191
    [] b = 244 -> 128..143
    [] OTHER   -> {}

SequenceLength(b) ==
  CASE b < 128 -> 1 [] b \in 194..223 -> 2 [] b \in 224..239 -> 3 [] b \in 240..244 -> 4
    [] OTHER -> 0

\* Can more bytes make p, which is not empty, a character, or is it one?
Viable(p) ==
  /\ Len(p) <= SequenceLength(p[1])
  /\ Len(p) >= 2 => p[2] \in SecondBytes(p[1])
  /\ \A i \in 3..Len(p) : p[i] \in 128..191

IsCharacter(p) == p # <<>> /\ Len(p) = SequenceLength(p[1]) /\ Viable(p)

\* The value of a character in UTF-8.
Scalar(p) ==
  CASE Len(p) = 1 -> p[1]
    [] Len(p) = 2 -> (p[1] - 192) * 64 + p[2] - 128
    [] Len(p) = 3 -> (p[1] - 224) * 4096 + (p[2] - 128) * 64 + p[3] - 128
    [] Len(p) = 4 -> (p[1] - 240) * 262144 + (p[2] - 128) * 4096 + (p[3] - 128) * 64 + p[4] - 128

High == 55296..56319
Low  == 56320..57343

\* Surrogates come in pairs.
WellFormed16(us) ==
  \A i \in 1..Len(us) :
     /\ us[i] \in High => i < Len(us) /\ us[i + 1] \in Low
     /\ us[i] \in Low  => i > 1 /\ us[i - 1] \in High
============================================================================
