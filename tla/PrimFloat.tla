----------------------------- MODULE PrimFloat -----------------------------
(***************************************************************************)
(* base/cbits/primFloat.c: the predicates for extreme floating-point       *)
(* values and the rounding to the nearest integer, ties to even, which the *)
(* C code does on the fields of the representation.  A double's mantissa   *)
(* is in two words, and the integer part may end in either or between      *)
(* them.  The widths of the fields are constants, so that every bit        *)
(* pattern of a small format is checked; no branch of the code depends on  *)
(* the widths but through the expressions of these constants.              *)
(***************************************************************************)
EXTENDS Integers

CONSTANTS
  ExpBits,   \* 8 and 11: the bits of the exponent
  FltBits,   \* 23: the bits of a float's mantissa
  High, Low, \* 20 and 32: the bits of mantissa0 and of mantissa1, which fills a word
  Kinds      \* which of "float" and "double" are looked at

WidthsAssumption ==
  /\ ExpBits \in Nat \ {0, 1} /\ FltBits \in Nat \ {0}
  /\ High \in Nat \ {0} /\ Low \in Nat /\ Low >= High + 2

VARIABLES
  kind,
  x,        \* the representation: negative, exponent, mantissa0 (a float's mantissa), mantissa1
  y,        \* what x has been rounded to
  rounded   \* has it been rounded?

vars == <<kind, x, y, rounded>>

MaxExp == 2^ExpBits - 1            \* 255 and 2047
Bias   == 2^(ExpBits - 1) - 1      \* 127 and 1023
FLT_HIDDEN == 2^FltBits
FLT_POWER2 == 2^(FltBits + 1)
DBL_HIDDEN == 2^High
DBL_POWER2 == 2^(High + 1)
LTOP_BIT   == 2^(Low - 1)
Word(n)    == n % (2^Low)          \* an unsigned int

Zero == [neg |-> 0, exp |-> 0, hi |-> 0, lo |-> 0]
Reps(k) ==
  [neg : 0..1, exp : 0..MaxExp,
   hi : 0..(IF k = "float" THEN FLT_HIDDEN ELSE DBL_HIDDEN) - 1,
   lo : IF k = "float" THEN {0} ELSE 0..2^Low - 1]
----------------------------------------------------------------------------
(* The predicates.                                                         *)
isDoubleFinite(u)       == u.exp # MaxExp
isDoubleNaN(u)          == u.exp = MaxExp /\ (u.hi # 0 \/ u.lo # 0)
isDoubleInfinite(u)     == u.exp = MaxExp /\ u.hi = 0 /\ u.lo = 0
isDoubleDenormalized(u) == u.exp = 0 /\ (u.hi # 0 \/ u.lo # 0)
isDoubleNegativeZero(u) == u.neg = 1 /\ u.exp = 0 /\ u.hi = 0 /\ u.lo = 0

isFloatFinite(u)       == u.exp # MaxExp
isFloatNaN(u)          == u.exp = MaxExp /\ u.hi # 0
isFloatInfinite(u)     == u.exp = MaxExp /\ u.hi = 0
isFloatDenormalized(u) == u.exp = 0 /\ u.hi # 0
isFloatNegativeZero(u) == u.neg # 0 /\ u.exp = 0 /\ u.hi = 0
----------------------------------------------------------------------------
(* The rounding.  mask is 2 * half - 1, so "and" with it is a remainder.   *)
HasBit(n, b) == b # 0 /\ (n \div b) % 2 = 1
WithoutHidden(n, hidden) == IF HasBit(n, hidden) THEN n - hidden ELSE n + hidden

\* Is it rounded down?  A tie goes to the even neighbour.
fltDown(frac, half, mant) == frac < half \/ (frac = half /\ ~HasBit(mant, 2 * half))

rintFloat(u) ==
  LET half == 2^(Bias + FltBits - 1 - u.exp)
      all  == u.hi + FLT_HIDDEN
      frac == all % (2 * half)
      mant == all - frac
      up   == mant + 2 * half
  IN CASE u.exp > Bias + FltBits - 1 -> u
       [] u.exp < Bias - 1 -> Zero
       [] u.exp \in Bias - 1..Bias + FltBits - 1 /\ fltDown(frac, half, mant) ->
            IF mant = 0 THEN Zero ELSE [u EXCEPT !.hi = WithoutHidden(mant, FLT_HIDDEN)]
       [] OTHER ->
            IF up = FLT_POWER2 THEN [u EXCEPT !.hi = 0, !.exp = @ + 1]
                               ELSE [u EXCEPT !.hi = WithoutHidden(up, FLT_HIDDEN)]

\* The fractional part meets the higher part of the mantissa.
rintHigh(u) ==
  LET half == 2^(Bias + High - 1 - u.exp)
      all  == u.hi + DBL_HIDDEN
      frac == all % (2 * half)
      mant == all - frac
      up   == mant + 2 * half
      down == frac < half \/ (frac = half /\ u.lo = 0 /\ ~HasBit(mant, 2 * half))
  IN CASE down /\ mant = 0  -> Zero
       [] down /\ mant # 0  -> [u EXCEPT !.hi = WithoutHidden(mant, DBL_HIDDEN), !.lo = 0]
       [] ~down /\ up = DBL_POWER2 -> [u EXCEPT !.hi = 0, !.lo = 0, !.exp = @ + 1]
       [] OTHER -> [u EXCEPT !.hi = WithoutHidden(up, DBL_HIDDEN), !.lo = 0]

\* A tie: is the integer part even?  Its last bit may be the last one of mantissa0.
lowTieEven(u, half, mant) ==
  IF half = LTOP_BIT THEN u.hi % 2 = 0 ELSE ~HasBit(mant, Word(2 * half))

\* mantissa1 has overflowed.
carry(u) ==
  IF u.hi + 1 = DBL_HIDDEN THEN [u EXCEPT !.hi = 0, !.exp = @ + 1] ELSE [u EXCEPT !.hi = @ + 1]

\* The fractional part is entirely in the lower part.
rintLow(u) ==
  LET half == 2^(Bias + High + Low - 1 - u.exp)
      frac == u.lo % (2 * half)
      mant == u.lo - frac
      up   == Word(mant + 2 * half)
  IN CASE frac < half \/ (frac = half /\ lowTieEven(u, half, mant)) -> [u EXCEPT !.lo = mant]
       [] OTHER -> IF up = 0 THEN carry([u EXCEPT !.lo = 0]) ELSE [u EXCEPT !.lo = up]

rintDouble(u) ==
  CASE u.exp > Bias + High + Low - 1 -> u
    [] u.exp < Bias - 1              -> Zero
    [] u.exp \in Bias - 1..Bias + High - 1 -> rintHigh(u)
    [] OTHER                         -> rintLow(u)
----------------------------------------------------------------------------
(* The values, in units of the smallest number there is.                   *)
Mantissa(k, u) == IF k = "float" THEN u.hi ELSE u.hi * 2^Low + u.lo
MantBits(k)    == IF k = "float" THEN FltBits ELSE High + Low
Abs(k, u) ==
  IF u.exp = 0 THEN Mantissa(k, u) ELSE (2^MantBits(k) + Mantissa(k, u)) * 2^(u.exp - 1)
Value(k, u) == IF u.neg = 1 THEN 0 - Abs(k, u) ELSE Abs(k, u)
One(k) == 2^(MantBits(k) + Bias - 1)

(***************************************************************************)
(* The code for other formats: the number is cut to an integer i, and what *)
(* was cut off decides; the limits FLT_UPP and DBL_UPP keep i in its type. *)
(***************************************************************************)
CutOff(v, one) == IF v >= 0 THEN v \div one ELSE 0 - ((0 - v) \div one)

exoticRint(v, one) ==
  LET i == CutOff(v, one)
      r == v - i * one
  IN CASE 2 * r > one        -> i + 1
       [] 2 * r = one        -> IF i % 2 = 1 THEN i + 1 ELSE i
       [] 2 * r = 0 - one    -> IF i % 2 = 1 THEN i - 1 ELSE i
       [] 2 * r < 0 - one    -> i - 1
       [] OTHER              -> i
----------------------------------------------------------------------------
Init == kind \in Kinds /\ x \in Reps(kind) /\ y = Zero /\ rounded = FALSE

rint ==
  /\ ~rounded /\ rounded' = TRUE
  /\ y' = IF kind = "float" THEN rintFloat(x) ELSE rintDouble(x)
  /\ UNCHANGED <<kind, x>>

Spec == Init /\ [][rint]_vars
----------------------------------------------------------------------------
Finite == IF kind = "float" THEN isFloatFinite(x) ELSE isDoubleFinite(x)
NaN    == IF kind = "float" THEN isFloatNaN(x) ELSE isDoubleNaN(x)
Infinite == IF kind = "float" THEN isFloatInfinite(x) ELSE isDoubleInfinite(x)
Denormalized == IF kind = "float" THEN isFloatDenormalized(x) ELSE isDoubleDenormalized(x)
NegativeZero == IF kind = "float" THEN isFloatNegativeZero(x) ELSE isDoubleNegativeZero(x)

\* Every field stays within its bits.
TypeOK == {x, y} \subseteq Reps(kind) /\ rounded \in BOOLEAN

\* The predicates fit the value: every representation is a number, an infinity
\* or no number at all, the denormalized numbers are those nearer to zero than
\* every other number but zero, and negative zero is the zero with a sign.
PredicatesFit ==
  /\ Finite <=> ~NaN /\ ~Infinite
  /\ ~(NaN /\ Infinite)
  /\ Infinite => \A m \in {"hi", "lo"} : x[m] = 0
  /\ Finite => (Denormalized <=> Abs(kind, x) \in 1..2^MantBits(kind) - 1)
  /\ NegativeZero <=> (x.neg = 1 /\ Finite /\ Value(kind, x) = 0)

\* A number is rounded to the nearest integer, and to the even one of two; what
\* is no number stays as it is, and an infinity an infinity.
NearestEven ==
  rounded =>
    IF Finite
    THEN \E n \in {CutOff(Value(kind, x), One(kind)) + e : e \in {-1, 0, 1}} :
           LET d == n * One(kind) - Value(kind, x)
           IN  /\ Value(kind, y) = n * One(kind) /\ isDoubleFinite(y)
               /\ 2 * d \in 0 - One(kind)..One(kind)
               /\ 2 * d \in {0 - One(kind), One(kind)} => n % 2 = 0
    ELSE y = x

\* The code for formats that are not IEEE's rounds to the same integers.
OtherFormatsAgree ==
  rounded /\ Finite => Value(kind, y) = exoticRint(Value(kind, x), One(kind)) * One(kind)
============================================================================
