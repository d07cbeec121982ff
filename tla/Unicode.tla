------------------------------- MODULE Unicode -------------------------------
(***************************************************************************)
(* The character functions of WCsubst.c over its real tables: a binary     *)
(* search for the row of a character, predicates on the category of the    *)
(* row's rule, and conversions by the rule's distances.  The same          *)
(* functions exist a second time in rts.unicode.mjs; the masks that file   *)
(* tests category numbers against are here too, its search is in           *)
(* BlockSearch.                                                            *)
(*                                                                         *)
(* A behaviour takes a row of allchars and goes through the characters at  *)
(* which an answer can change: the first and the last one of the row and   *)
(* the one behind it.  Every other character is answered like one of       *)
(* these, up to the distance that is added to it.                          *)
(***************************************************************************)
EXTENDS UnicodeTables

VARIABLES row,   \* a row of allchars
          at     \* which character of it, or behind it

(* The NUMCAT_ enumeration: a category's number is its place in the list. *)
NUMCAT == << "LU", "LL", "LT", "LM", "LO", "MN", "MC", "ME", "ND", "NL", "NO", "PC", "PD", "PS", "PE",
             "PI", "PF", "PO", "SM", "SC", "SK", "SO", "ZS", "ZL", "ZP", "CC", "CF", "CS", "CO", "CN" >>

catnumber(cat) == (CHOOSE i \in DOMAIN NUMCAT : NUMCAT[i] = cat) - 1

(* The GENCAT_ flags, as the number of the bit each one sets. *)
GENCAT == [ ZP |-> 26, MC |-> 23, NO |-> 17, SK |-> 10, CO |-> 28, ME |-> 22, ND |-> 8, PO |-> 2, LT |-> 19, PC |-> 11,
            SM |-> 6, ZS |-> 1, CC |-> 0, LU |-> 9, PD |-> 7, SO |-> 13, PE |-> 5, CS |-> 27, PF |-> 18, CF |-> 16,
            PS |-> 4, SC |-> 3, LL |-> 12, ZL |-> 25, LM |-> 20, PI |-> 15, NL |-> 24, MN |-> 21, LO |-> 14 ]

NUM_BLOCKS      == 3349
NUM_CONVBLOCKS  == 1326
NUM_SPACEBLOCKS == 7
NUM_LAT1BLOCKS  == 63

----------------------------------------------------------------------------
(* The rules by their number, and the rule of a search that fails. *)
rule == [n \in 0 .. Len(ruleRows) - 1 |->
           LET r == CHOOSE r \in {ruleRows[i] : i \in DOMAIN ruleRows} : r[1] = n
           IN  [bits |-> {GENCAT[r[2]]}, cat |-> r[2], updist |-> r[3], lowdist |-> r[4], titledist |-> r[5]]]

nullrule == [bits |-> {}, cat |-> "CN", updist |-> 0, lowdist |-> 0, titledist |-> 0]

\* A bug: the end of a block counts as part of it.
blkcmpClosed(key, cur) ==
  IF key >= cur[1] /\ key <= cur[1] + cur[2] THEN 0 ELSE IF key > cur[1] THEN 1 ELSE -1

blkcmp(key, cur) ==
  IF key >= cur[1] /\ key < cur[1] + cur[2] THEN 0 ELSE IF key > cur[1] THEN 1 ELSE -1

(* The C library's bsearch on the rows lo .. hi - 1: it halves until the   *)
(* comparison answers 0 or nothing is left.                                *)
RECURSIVE bsearch(_, _, _, _)
bsearch(key, blocks, lo, hi) ==
  LET mid == lo + (hi - lo) \div 2
      s   == blkcmp(key, blocks[mid])
  IN  IF lo >= hi THEN 0
      ELSE IF s = 0 THEN mid
      ELSE IF s < 0 THEN bsearch(key, blocks, lo, mid) ELSE bsearch(key, blocks, mid + 1, hi)

getrule(blocks, numblocks, unichar) ==
  LET i == bsearch(unichar, blocks, 1, numblocks + 1)
  IN  IF i = 0 THEN nullrule ELSE rule[blocks[i][3]]

Mask(cats) == {GENCAT[cat] : cat \in cats}

(* Below 256 only the rows for Latin-1 are searched. *)
attrBlocks(c) == IF c < 256 THEN NUM_LAT1BLOCKS ELSE NUM_BLOCKS

checkattr(c, catmask) == getrule(allchars, attrBlocks(c), c).bits \cap Mask(catmask) # {}

checkattr_s(c, catmask) == getrule(spacechars, NUM_SPACEBLOCKS, c).bits \cap Mask(catmask) # {}

(* unipred: which function tests which categories. *)
PrintCats == {"MC", "NO", "SK", "ME", "ND", "PO", "LT", "PC", "SM", "ZS", "LU", "PD", "SO", "PE", "PF", "PS",
              "SC", "LL", "LM", "PI", "NL", "MN", "LO"}

unipred == [ u_iswcntrl |-> {"CC"}, u_iswprint |-> PrintCats, u_iswspace |-> {"ZS"}, u_iswupper |-> {"LU", "LT"},
             u_iswlower |-> {"LL"}, u_iswalpha |-> {"LL", "LU", "LT", "LM", "LO"}, u_iswdigit |-> {"ND"},
             u_iswalnum |-> {"LT", "LU", "LL", "LM", "LO", "NO", "ND", "NL"} ]

isw(p, c) == IF p = "u_iswspace" THEN checkattr_s(c, unipred[p]) ELSE checkattr(c, unipred[p])

(* caseconv: u_towupper, u_towlower and u_towtitle, by the distance they add. *)
caseconv(c, to) ==
  LET r == getrule(convchars, NUM_CONVBLOCKS, c) IN IF r = nullrule THEN c ELSE c + r[to]

u_gencat(c) == catnumber(getrule(allchars, NUM_BLOCKS, c).cat)

(* rts.unicode.mjs: the bits of the mask its predicates test the category number against. *)
jsMask == [ u_iswupper |-> {0, 2}, u_iswlower |-> {1}, u_iswspace |-> {22}, u_iswalpha |-> 0 .. 4, u_iswdigit |-> {8},
            u_iswalnum |-> (0 .. 4) \cup (8 .. 10), u_iswprint |-> 0 .. 22, u_iswcntrl |-> {25} ]

----------------------------------------------------------------------------
charVars == <<row, at>>

Start(i) == allchars[i][1]
End(i)   == allchars[i][1] + allchars[i][2]

char == CASE at = "first" -> Start(row) [] at = "last" -> End(row) - 1 [] at = "behind" -> End(row)

CharInit == row \in 1 .. NUM_BLOCKS /\ at = "first"

CharNext ==
  /\ \/ at = "first" /\ at' = "last"
     \/ at = "last" /\ at' = "behind"
  /\ UNCHANGED row

CharSpec == CharInit /\ [][CharNext]_charVars

----------------------------------------------------------------------------
(* The rule the character has by the row the walk is at, without a search. *)
ruleHere ==
  CASE at # "behind" -> rule[allchars[row][3]]
    [] at = "behind" /\ row < NUM_BLOCKS /\ Start(row + 1) = End(row) -> rule[allchars[row + 1][3]]
    [] OTHER -> nullrule

(* A binary search needs rows in order: each row begins where the row      *)
(* before it ends or later, and the search finds exactly the row a         *)
(* character is in, or none (WCsubst.c:5006-5032).                         *)
SearchFindsTheRow ==
  /\ row < NUM_BLOCKS => End(row) <= Start(row + 1)
  /\ getrule(allchars, NUM_BLOCKS, char) = ruleHere

(* The predicates go through a table of their own (u_iswspace) or through  *)
(* the first NUM_LAT1BLOCKS rows only; they answer what the category of    *)
(* the character says (WCsubst.c:5040-5079).                               *)
PredicatesFollowCategory ==
  \A p \in DOMAIN unipred : isw(p, char) <=> ruleHere.cat \in unipred[p]

(* The conversions go through convchars; that table and allchars give a    *)
(* character the same distances (WCsubst.c:5081-5091).                     *)
ConversionsFollowRule ==
  \A to \in {"updist", "lowdist", "titledist"} : caseconv(char, to) = char + ruleHere[to]

(* Converting twice is converting once, and what a conversion yields is an *)
(* assigned character if it was given one (WCsubst.c:5081-5091).           *)
ConversionsSettle ==
  \A to \in {"updist", "lowdist", "titledist"} :
     /\ caseconv(caseconv(char, to), to) = caseconv(char, to)
     /\ u_gencat(char) # 29 => u_gencat(caseconv(char, to)) # 29

(* The two implementations of the predicates agree on a category: the C    *)
(* code tests GENCAT_ flags, rts.unicode.mjs:44-74 tests category numbers, *)
(* and the flags are not in the order of the numbers.                      *)
MasksAgreeWithNumbers ==
  \A p \in DOMAIN unipred : isw(p, char) <=> u_gencat(char) \in jsMask[p]
=============================================================================
