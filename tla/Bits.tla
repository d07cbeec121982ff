-------------------------------- MODULE Bits --------------------------------
(***************************************************************************)
(* The fall-backs for bit primitives in ghc-prim/cbits: bswap.c, clz.c,    *)
(* ctz.c, popcnt.c, pdep.c and pext.c.  A word is the set of the places of *)
(* its one bits.                                                           *)
(***************************************************************************)
EXTENDS Integers, FiniteSets, FiniteSetsExt

CONSTANTS
  ByteBits,  \* 8: bits of a byte; a long has eight bytes, an int four
  Ops        \* the functions that are called

BitsAssumption == ByteBits \in 1..8

VARIABLES
  op, args,     \* the call
  src, mask,    \* the arguments, as the loops change them
  bit, offset,  \* hs_pext64's
  result,
  pc

vars == <<op, args, src, mask, bit, offset, result, pc>>

bits(bytes) == bytes * ByteBits
long == 0..bits(8) - 1

shl(w, n)   == {b + n : b \in {c \in w : c + n \in long}}
shr(w, n)   == {b - n : b \in {c \in w : c >= n}}
cast(w, bytes) == w \cap 0..bits(bytes) - 1
inv(w)      == long \ w
\* Two's complement: every bit above the lowest one is inverted.
neg(w)      == {b \in long : (\E c \in w : c <= b) /\ (b \in w => \A c \in w : c >= b)}

Value(byte) == SumSet({2^b : b \in byte})

----------------------------------------------------------------------------
(* bswap.c                                                                 *)

byteAt(k)   == bits(k)..bits(k + 1) - 1

hs_bswap16(x) == cast(shr(x, bits(1)) \cup shl(x, bits(1)), 2)

hs_bswap32(x) ==
  cast(shr(x, bits(3)) \cup (shr(x, bits(1)) \cap byteAt(1))
       \cup shl(x, bits(3)) \cup shl(x \cap byteAt(1), bits(1)), 4)

hs_bswap64(x) ==
  shr(x, bits(7)) \cup shl(x, bits(7))
  \cup (shr(x, bits(5)) \cap byteAt(1)) \cup shl(x \cap byteAt(1), bits(5))
  \cup (shr(x, bits(3)) \cap byteAt(2)) \cup shl(x \cap byteAt(2), bits(3))
  \cup (shr(x, bits(1)) \cap byteAt(3)) \cup shl(x \cap byteAt(3), bits(1))
----------------------------------------------------------------------------
(* clz.c and ctz.c; the compiler's builtins take no zero.                  *)

builtin_clz(w)  == bits(4) - 1 - Max(w)
builtin_clzl(w) == bits(8) - 1 - Max(w)
builtin_ctz(w)  == Min(cast(w, 4))
builtin_ctzl(w) == Min(w)

hs_clz8(x)  == IF cast(x, 1) # {} THEN builtin_clz(cast(x, 1)) - bits(3) ELSE bits(1)
hs_clz16(x) == IF cast(x, 2) # {} THEN builtin_clz(cast(x, 2)) - bits(2) ELSE bits(2)
hs_clz32(x) == IF cast(x, 4) # {} THEN builtin_clz(cast(x, 4)) ELSE bits(4)
hs_clz64(x) == IF x # {} THEN builtin_clzl(x) ELSE bits(8)

hs_ctz8(x)  == IF cast(x, 1) # {} THEN builtin_ctz(x) ELSE bits(1)
hs_ctz16(x) == IF cast(x, 2) # {} THEN builtin_ctz(x) ELSE bits(2)
hs_ctz32(x) == IF cast(x, 4) # {} THEN builtin_ctz(x) ELSE bits(4)
hs_ctz64(x) == IF x # {} THEN builtin_ctzl(x) ELSE bits(8)

\* In two halves, as it is built for i386 and powerpc.
hs_ctz64_halves(x) ==
  IF x = {} THEN bits(8)
  ELSE IF cast(x, 4) # {} THEN builtin_ctz(cast(x, 4)) ELSE builtin_ctz(shr(x, bits(4))) + bits(4)
----------------------------------------------------------------------------
(* popcnt.c                                                                *)

popcount_tab ==
  <<
      0,1,1,2,1,2,2,3,1,2,2,3,2,3,3,4,1,2,2,3,2,3,3,4,2,3,3,4,3,4,4,5,
      1,2,2,3,2,3,3,4,2,3,3,4,3,4,4,5,2,3,3,4,3,4,4,5,3,4,4,5,4,5,5,6,
      1,2,2,3,2,3,3,4,2,3,3,4,3,4,4,5,2,3,3,4,3,4,4,5,3,4,4,5,4,5,5,6,
      2,3,3,4,3,4,4,5,3,4,4,5,4,5,5,6,3,4,4,5,4,5,5,6,4,5,5,6,5,6,6,7,
      1,2,2,3,2,3,3,4,2,3,3,4,3,4,4,5,2,3,3,4,3,4,4,5,3,4,4,5,4,5,5,6,
      2,3,3,4,3,4,4,5,3,4,4,5,4,5,5,6,3,4,4,5,4,5,5,6,4,5,5,6,5,6,6,7,
      2,3,3,4,3,4,4,5,3,4,4,5,4,5,5,6,3,4,4,5,4,5,5,6,4,5,5,6,5,6,6,7,
      3,4,4,5,4,5,5,6,4,5,5,6,5,6,6,7,4,5,5,6,5,6,6,7,5,6,6,7,6,7,7,8
  >>

\* The number of ones in the k-th byte.
ones(x, k) == popcount_tab[Value(cast(shr(x, bits(k)), 1)) + 1]

hs_popcnt8(x)  == ones(x, 0)
hs_popcnt16(x) == ones(x, 0) + ones(x, 1)
hs_popcnt32(x) == ones(x, 0) + ones(x, 1) + ones(x, 2) + ones(x, 3)

hs_popcnt64(x) == ones(x, 0) + ones(x, 1) + ones(x, 2) + ones(x, 3)
                  + ones(x, 4) + ones(x, 5) + ones(x, 6) + ones(x, 7)

\* Of a machine word, which has eight bytes.
hs_popcnt(x) == hs_popcnt64(x)

\* What a function of one word returns.
Result ==
  CASE op = "bswap16" -> hs_bswap16(cast(src, 2)) [] op = "bswap32" -> hs_bswap32(cast(src, 4))
    [] op = "bswap64" -> hs_bswap64(src)
    [] op = "clz8"  -> hs_clz8(src)  [] op = "clz16" -> hs_clz16(src)
    [] op = "clz32" -> hs_clz32(src) [] op = "clz64" -> hs_clz64(src)
    [] op = "ctz8"  -> hs_ctz8(src)  [] op = "ctz16" -> hs_ctz16(src)
    [] op = "ctz32" -> hs_ctz32(src) [] op = "ctz64" -> hs_ctz64(src)
    [] op = "ctz64_halves" -> hs_ctz64_halves(src)
    [] op = "popcnt8"  -> hs_popcnt8(src)  [] op = "popcnt16" -> hs_popcnt16(src)
    [] op = "popcnt32" -> hs_popcnt32(src) [] op = "popcnt64" -> hs_popcnt64(src)
    [] op = "popcnt" -> hs_popcnt(src)
----------------------------------------------------------------------------
(* Bound: the arguments are the words of one or two ones, one of them at   *)
(* an end of a half, those with ones in the lowest byte or half byte only, *)
(* and their inverses.                                                     *)
Ends  == {0, bits(4) - 1, bits(4), bits(8) - 1}
Few   == {{a, b} : a \in long, b \in Ends} \cup {{a} : a \in long} \cup SUBSET (byteAt(0) \cup 0..3)
Words == Few \cup {inv(w) : w \in Few}

BinaryOps == {"pdep64", "pdep32", "pdep16", "pdep8", "pext64", "pext32", "pext16", "pext8"}

Init ==
  /\ op \in Ops /\ src \in Words /\ mask \in IF op \in BinaryOps THEN Words ELSE {{}}
  /\ args = [src |-> src, mask |-> mask]
  /\ bit = 0 /\ offset = 0 /\ result = {} /\ pc = "called"

unary ==
  /\ pc = "called" /\ op \notin BinaryOps
  /\ result' = Result /\ pc' = "returned"
  /\ UNCHANGED <<op, args, src, mask, bit, offset>>

\* The narrower functions call the widest.
pdep == op \in {"pdep64", "pdep32", "pdep16", "pdep8"}
pext == op \in {"pext64", "pext32", "pext16", "pext8"}

lowest == neg(mask) \cap mask

\* All ones if the lowest bit of src is one: it is shifted to the sign and back.
lsb == IF bits(8) - 1 \in shl(src, bits(8) - 1) THEN long ELSE {}

deposit ==
  /\ pc = "called" /\ pdep /\ lowest # {}
  /\ result' = result \cup (lsb \cap lowest)
  /\ mask' = mask \cap inv(lowest)
  /\ src' = shr(src, 1)
  /\ UNCHANGED <<op, args, bit, offset, pc>>

deposited ==
  /\ pc = "called" /\ pdep /\ lowest = {}
  /\ pc' = "returned" /\ UNCHANGED <<op, args, src, mask, bit, offset, result>>

extract ==
  /\ pc = "called" /\ pext /\ bit # bits(8)
  /\ IF 0 \in shr(mask, bit)
     THEN /\ result' = result \cup shl(shr(src, bit) \cap {0}, offset)
          /\ offset' = offset + 1
     ELSE UNCHANGED <<result, offset>>
  /\ bit' = bit + 1 /\ UNCHANGED <<op, args, src, mask, pc>>

extracted ==
  /\ pc = "called" /\ pext /\ bit = bits(8)
  /\ pc' = "returned" /\ UNCHANGED <<op, args, src, mask, bit, offset, result>>

Next == unary \/ deposit \/ deposited \/ extract \/ extracted

Spec == Init /\ [][Next]_vars
----------------------------------------------------------------------------
\* The bytes an operation is about.
Width ==
  CASE op \in {"clz8", "ctz8", "popcnt8", "pdep8", "pext8"} -> 1
    [] op \in {"bswap16", "clz16", "ctz16", "popcnt16", "pdep16", "pext16"} -> 2
    [] op \in {"bswap32", "clz32", "ctz32", "popcnt32", "pdep32", "pext32"} -> 4
    [] OTHER -> 8

Arg  == cast(args.src, Width)
Rank(m, b) == Cardinality({c \in m : c < b})
Returned(ops) == pc = "returned" /\ op \in ops

\* Swapping turns round the order of the bytes and keeps that of their bits.
BytesReversed ==
  Returned({"bswap16", "bswap32", "bswap64"}) =>
    result = {bits(Width - 1 - (b \div ByteBits)) + (b % ByteBits) : b \in Arg}

\* The zeros in front of and behind the ones are counted within the width, whatever
\* is in the bits above it, and a word without ones has all its bits counted.
ZerosCounted ==
  /\ Returned({"clz8", "clz16", "clz32", "clz64"}) =>
       /\ Arg \cap bits(Width) - result..bits(Width) - 1 = {}
       /\ result = bits(Width) \/ bits(Width) - 1 - result \in Arg
  /\ Returned({"ctz8", "ctz16", "ctz32", "ctz64", "ctz64_halves"}) =>
       /\ Arg \cap 0..result - 1 = {}
       /\ result = bits(Width) \/ result \in Arg

\* The table and the sums over bytes count the ones of the width.
OnesCounted ==
  Returned({"popcnt8", "popcnt16", "popcnt32", "popcnt64", "popcnt"}) => result = Cardinality(Arg)

\* Bit n of the source goes to the n-th one of the mask; a narrow function gives
\* within its width what it gives for the narrow source and mask.
Deposited ==
  Returned({"pdep64", "pdep32", "pdep16", "pdep8"}) =>
    LET m == cast(args.mask, Width)
    IN  cast(result, Width) = {b \in m : Rank(m, b) \in Arg}

\* The bits of the source at the ones of the mask are packed from the lowest up,
\* in a narrow function those above its width too.
Extracted ==
  Returned({"pext64", "pext32", "pext16", "pext8"}) =>
    result = {Rank(args.mask, b) : b \in args.src \cap args.mask}

\* What is not yet deposited is what the rest of the mask and of the source say:
\* the loop neither skips a bit nor takes one twice.
InStep ==
  pdep => /\ mask \subseteq args.mask /\ result \subseteq args.mask \ mask
          /\ src = shr(args.src, Cardinality(args.mask) - Cardinality(mask))
============================================================================
