------------------------------ MODULE BlockSearch ------------------------------
(***************************************************************************)
(* The search of rts.unicode.mjs for the block of a character.  The blocks *)
(* of characters with equal properties are entries of the parallel arrays  *)
(* _first and _last, numbered from 0 and in ascending order.  A lookup     *)
(* halves the interval of entries start .. end - 1; it begins with         *)
(* 0 .. c, as block i begins at character i or later, whether or not there *)
(* are that many blocks.  Comparing with an entry behind the end of an     *)
(* array is comparing with undefined: it is false both ways.               *)
(***************************************************************************)
EXTENDS Integers

CONSTANTS NumBlocks,   \* the length of the arrays
          MaxChar      \* bound: characters are 0 .. MaxChar

ASSUME NumBlocksAssumption == NumBlocks \in Nat \ {0}
ASSUME MaxCharAssumption == MaxChar \in Nat

VARIABLES _first, _last, key, start, end,
          result   \* Unknown while searching, -1 for no block, or the block's index

searchVars == <<_first, _last, key, start, end, result>>

Unknown == -2

Blocks == 0 .. NumBlocks - 1
Chars  == 0 .. MaxChar

(* The blocks genunicode.hs writes: not empty, disjoint and in order. *)
Ascending(f, l) ==
  /\ \A i \in Blocks : f[i] =< l[i]
  /\ \A i, j \in Blocks : i < j => l[i] < f[j]

(* _property: the interval a lookup of c begins with. *)
_property(c) == start = 0 /\ end = c + 1

SearchInit ==
  /\ _first \in [Blocks -> Chars] /\ _last \in [Blocks -> Chars] /\ Ascending(_first, _last)
  /\ key \in Chars
  /\ _property(key)
  /\ result = Unknown

pivot == (start + end) \div 2

isBaseCase == start + 1 = end

Left  == pivot \in Blocks /\ key < _first[pivot]
Here  == pivot \in Blocks /\ key >= _first[pivot] /\ key =< _last[pivot]
Right == ~Left /\ ~Here

----------------------------------------------------------------------------
Searching == result = Unknown /\ UNCHANGED <<_first, _last, key>>

GiveUp == isBaseCase /\ result' = -1 /\ UNCHANGED <<start, end>>

\* A bug: the left half loses its last block.
GoLeftTooFar ==
  /\ Searching /\ Left
  /\ \/ GiveUp
     \/ ~isBaseCase /\ end' = pivot - 1 /\ UNCHANGED <<start, result>>

GoLeft ==
  /\ Searching /\ Left
  /\ \/ GiveUp
     \/ ~isBaseCase /\ end' = pivot /\ UNCHANGED <<start, result>>

Found ==
  /\ Searching /\ Here
  /\ result' = pivot /\ UNCHANGED <<start, end>>

GoRight ==
  /\ Searching /\ Right
  /\ \/ GiveUp
     \/ ~isBaseCase /\ start' = pivot /\ UNCHANGED <<end, result>>

(* One call of _bbsearch. *)
_bbsearch == GoLeft \/ Found \/ GoRight

SearchSpec == SearchInit /\ [][_bbsearch]_searchVars

----------------------------------------------------------------------------
IsIn(c, i) == _first[i] =< c /\ c =< _last[i]

(* An answer names the character's block (rts.unicode.mjs:17-27). *)
AnswerIsRight == result \in Blocks => IsIn(key, result)

(* For a character below the number of blocks the interval never leaves    *)
(* the arrays, and a lookup that fails means that no block has the         *)
(* character (rts.unicode.mjs:29-32).                                      *)
FoundIfInside == (key < NumBlocks /\ result = -1) => \A i \in Blocks : ~IsIn(key, i)

(* Every call is made with a smaller interval that is not empty: the       *)
(* recursion ends (rts.unicode.mjs:17-27).                                 *)
IntervalShrinks ==
  [][result' = Unknown => start' < end' /\ end' - start' < end - start]_searchVars

(* What genunicode.hs:80 says of the search: it finds the block of the     *)
(* character, if it is in one.                                             *)
FoundIfThere == result = -1 => \A i \in Blocks : ~IsIn(key, i)
=============================================================================
