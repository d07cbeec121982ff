------------------------------ MODULE Decimal ------------------------------
(***************************************************************************)
(* The number printers of asterius/libc/itoa.c.  Each writes digits into a *)
(* buffer from the lowest one on and turns them round in place, or, padded *)
(* to a fixed width, writes them from the end of the buffer.  The digits   *)
(* in memory are numbers, and the buffer's addresses are relative to the   *)
(* one the caller gave.                                                    *)
(***************************************************************************)
EXTENDS Integers, Sequences, FiniteSets

CONSTANTS
  IntBits, LongBits,  \* 32 and 64: the bits of an int and of a long long int
  Pad9, Pad18,        \* 9 and 18: the widths of the padded printers
  PadBits             \* 31: the bits of the numbers that are given to the narrow one

WidthsAssumption ==
  {IntBits, LongBits, Pad9, Pad18, PadBits} \subseteq Nat \ {0}

\* The printers: they differ in the base, the bits of the number, whether it has
\* a sign and the fixed width, if any.
_hs_bytestring_int_dec == [base |-> 10, bits |-> IntBits, signed |-> TRUE, width |-> 0]
_hs_bytestring_long_long_int_dec == [base |-> 10, bits |-> LongBits, signed |-> TRUE, width |-> 0]
_hs_bytestring_uint_dec == [base |-> 10, bits |-> IntBits, signed |-> FALSE, width |-> 0]
_hs_bytestring_long_long_uint_dec == [base |-> 10, bits |-> LongBits, signed |-> FALSE, width |-> 0]
_hs_bytestring_int_dec_padded9 == [base |-> 10, bits |-> IntBits, signed |-> FALSE, width |-> Pad9]
_hs_bytestring_long_long_int_dec_padded18 == [base |-> 10, bits |-> LongBits, signed |-> FALSE, width |-> Pad18]
_hs_bytestring_uint_hex == [base |-> 16, bits |-> IntBits, signed |-> FALSE, width |-> 0]
_hs_bytestring_long_long_uint_hex == [base |-> 16, bits |-> LongBits, signed |-> FALSE, width |-> 0]

Printers ==
  { _hs_bytestring_int_dec, _hs_bytestring_long_long_int_dec,
    _hs_bytestring_uint_dec, _hs_bytestring_long_long_uint_dec,
    _hs_bytestring_int_dec_padded9, _hs_bytestring_long_long_int_dec_padded18,
    _hs_bytestring_uint_hex, _hs_bytestring_long_long_uint_hex }

VARIABLES
  printer, number,  \* the call
  x,                \* what is left of the number
  mem,              \* the bytes that have been written, by address
  buf, ptr,         \* the two pointers
  next_free,        \* the result
  pc

vars == <<printer, number, x, mem, buf, ptr, next_free, pc>>

Minus == -1
Padded == printer.width > 0

Numbers(p) ==
  IF p.signed THEN -(2^(p.bits - 1))..2^(p.bits - 1) - 1
  ELSE IF p.width > 0 THEN 0..10^p.width - 1
  ELSE 0..2^p.bits - 1

\* Division in C cuts towards zero.
Quotient(n, b) == IF n >= 0 THEN n \div b ELSE 0 - ((0 - n) \div b)
Put(m, a, v)   == [i \in DOMAIN m \cup {a} |-> IF i = a THEN v ELSE m[i]]
----------------------------------------------------------------------------
Call(p, n) ==
  /\ printer = p /\ number = n /\ x = n
  /\ mem = [i \in {} |-> 0] /\ buf = 0 /\ ptr = p.width /\ next_free = 0
  /\ pc = IF p.signed THEN "sign" ELSE "digits"

Init == \E p \in Printers : \E n \in Numbers(p) : Call(p, n)

\* Numbers of PadBits bits are given to the narrow padded printer.
NarrowInit == \E n \in 0..2^PadBits - 1 : Call(_hs_bytestring_int_dec_padded9, n)

\* The last digit and the rest of a negative number; the rest can be negated,
\* which the whole number cannot always be.
lastDigitAndRest(n) == <<Quotient(n, 10) * 10 - n, 0 - Quotient(n, 10)>>

sign ==
  /\ pc = "sign"
  /\ IF x >= 0
     THEN pc' = "digits" /\ UNCHANGED <<x, mem, buf, ptr, next_free>>
     ELSE LET split == lastDigitAndRest(x)
          IN  /\ mem' = Put(Put(mem, ptr, Minus), ptr + 1, split[1])
              /\ x' = split[2]
              /\ buf' = buf + 1 /\ ptr' = ptr + 2
              /\ IF split[2] = 0 THEN pc' = "done" /\ next_free' = ptr + 2
                                 ELSE pc' = "digits" /\ UNCHANGED next_free
  /\ UNCHANGED <<printer, number>>

isLast(rest) == rest = 0

\* The digits from the lowest on.
digits ==
  /\ pc = "digits" /\ ~Padded
  /\ LET q == Quotient(x, printer.base)
     IN  /\ x' = q
         /\ mem' = Put(mem, ptr, x - q * printer.base)
         /\ IF isLast(q)
            THEN next_free' = ptr + 1 /\ ptr' = ptr /\ pc' = "reverse"
            ELSE ptr' = ptr + 1 /\ UNCHANGED <<next_free, pc>>
  /\ UNCHANGED <<printer, number, buf>>

\* The digits are turned round, two at a time.
reverse ==
  /\ pc = "reverse"
  /\ IF buf < ptr
     THEN /\ mem' = [mem EXCEPT ![ptr] = mem[buf], ![buf] = mem[ptr]]
          /\ ptr' = ptr - 1 /\ buf' = buf + 1 /\ UNCHANGED pc
     ELSE pc' = "done" /\ UNCHANGED <<mem, ptr, buf>>
  /\ UNCHANGED <<printer, number, x, next_free>>

\* The padded printers write towards the front, and then zeros.
paddedDigits ==
  /\ pc = "digits" /\ Padded
  /\ LET q == Quotient(x, 10)
     IN  /\ x' = q /\ ptr' = ptr - 1
         /\ mem' = Put(mem, ptr - 1, x - q * 10)
         /\ pc' = IF q = 0 THEN "pad" ELSE pc
  /\ UNCHANGED <<printer, number, buf, next_free>>

pad ==
  /\ pc = "pad"
  /\ IF buf < ptr
     THEN ptr' = ptr - 1 /\ mem' = Put(mem, ptr - 1, 0) /\ UNCHANGED pc
     ELSE pc' = "done" /\ UNCHANGED <<ptr, mem>>
  /\ UNCHANGED <<printer, number, x, buf, next_free>>

Next == sign \/ digits \/ reverse \/ paddedDigits \/ pad

Spec == Init /\ [][Next]_vars
NarrowSpec == NarrowInit /\ [][Next]_vars
----------------------------------------------------------------------------
\* What the digits at the addresses from a to b stand for.
Meaning(a, b) ==
  LET value[n \in a - 1..b] == IF n = a - 1 THEN 0 ELSE value[n - 1] * printer.base + mem[n]
  IN  value[b]

\* The bytes the longest number needs: what the caller has set aside.
Longest ==
  IF Padded THEN printer.width
  ELSE LET top == IF printer.signed THEN 2^(printer.bits - 1) ELSE 2^printer.bits - 1
           n   == CHOOSE k \in 1..printer.bits : printer.base^(k - 1) <= top /\ top < printer.base^k
       IN  IF printer.signed THEN n + 1 ELSE n

\* Memory holds digits and a sign, and the pointers stay by what has been written.
TypeOK ==
  /\ \A a \in DOMAIN mem : mem[a] \in 0..printer.base - 1 \/ (a = 0 /\ mem[a] = Minus /\ printer.signed)
  /\ buf \in 0..Longest /\ ptr \in -1..Longest

\* No byte is written outside of the buffer.
StaysInBuffer == DOMAIN mem \subseteq 0..Longest - 1

\* What has been printed stands for the number, with a sign exactly when it is
\* negative and, unless it is padded, without a leading zero; the result is the
\* address behind it.
PrintsTheNumber ==
  pc = "done" =>
    LET neg  == number < 0
        from == IF neg THEN 1 ELSE 0
        to   == IF Padded THEN printer.width - 1 ELSE next_free - 1
    IN  /\ DOMAIN mem = 0..to
        /\ neg <=> mem[0] = Minus
        /\ Meaning(from, to) = IF neg THEN 0 - number ELSE number
        /\ ~Padded => mem[from] # 0 \/ to = from
============================================================================
