-------------------------------- MODULE Md5 --------------------------------
(***************************************************************************)
(* The streaming part of asterius/libc/md5.c, of which base/cbits holds a  *)
(* copy: a message given in pieces is cut into blocks of words, padded and *)
(* closed with its length.  The block function is left abstract: ctx.buf   *)
(* is the blocks it has been given.  A block is read as words, on machines *)
(* of either byte order.                                                   *)
(*                                                                         *)
(* The n-th byte of the message is -n, which is told apart from every      *)
(* number the code writes.                                                 *)
(***************************************************************************)
EXTENDS Integers, Sequences

CONSTANTS
  WordBytes,  \* 4
  ByteBits,   \* 8
  BlockWords, \* 16
  MaxMessage  \* a bound: bytes of a message

Block    == WordBytes * BlockWords
Tail1    == WordBytes * (BlockWords - 2)   \* 56: where the length begins
WordBits == WordBytes * ByteBits
Word(n)  == n % 2^WordBits

SizesAssumption ==
  /\ WordBytes \in Nat \ {0} /\ ByteBits \in Nat \ {0} /\ BlockWords \in Nat \ 0..2
  /\ MaxMessage \in Nat /\ \E k \in 0..WordBits : Block = 2^k

VARIABLES
  bigEndian,  \* the byte order of the machine
  ctx,        \* struct MD5Context, and whether it is in use
  given       \* bytes of the message so far

vars == <<bigEndian, ctx, given>>

Cells   == 0..Block - 1
Garbage == -MaxMessage - 1    \* what is in memory nobody has written
----------------------------------------------------------------------------
(* Memory.                                                                 *)

\* memcpy to place at of what comes behind the first i bytes of the message.
memcpy(in, at, i, len) == [c \in Cells |-> IF c \in at..at + len - 1 THEN 0 - (i + c - at + 1) ELSE in[c]]
memset(in, at, len)    == [c \in Cells |-> IF c \in at..at + len - 1 THEN 0 ELSE in[c]]

InWord(c)   == c % WordBytes
Mirrored(c) == (c - InWord(c)) + (WordBytes - 1 - InWord(c))

\* A byte's place in the order from the lowest to the highest of its word.
Ordered(c) == IF bigEndian THEN Mirrored(c) ELSE c

\* The words get the value their bytes have when the first is the lowest.
byteSwap(in, words) ==
  [c \in Cells |-> IF c < words * WordBytes THEN in[Ordered(c)] ELSE in[c]]

\* The k-th word is assigned a number.
Assign(in, k, v) ==
  [c \in Cells |->
     IF c \div WordBytes = k THEN (v \div 2^(ByteBits * InWord(Ordered(c)))) % 2^ByteBits ELSE in[c]]

\* The block function takes the values of the words, here as bytes from the
\* lowest to the highest.
Transform(buf, in) == Append(buf, [i \in 1..Block |-> in[Ordered(i - 1)]])
----------------------------------------------------------------------------
Init ==
  /\ bigEndian \in BOOLEAN /\ given = 0
  /\ ctx = [live |-> FALSE, buf |-> <<>>, bytes |-> <<0, 0>>, in |-> [c \in Cells |-> Garbage]]

MD5Init ==
  /\ ~ctx.live
  /\ ctx' = [ctx EXCEPT !.live = TRUE, !.buf = <<>>, !.bytes = <<0, 0>>]
  /\ given' = 0 /\ UNCHANGED bigEndian

\* A bug: the high word does not count the wraps of the low one.
addNoCarry(bytes, len) == <<Word(bytes[1] + len), bytes[2]>>

add(bytes, len) ==
  LET low == Word(bytes[1] + len)
  IN  <<low, IF low < bytes[1] THEN Word(bytes[2] + 1) ELSE bytes[2]>>

\* Whole blocks behind the first i bytes of the message, and the bytes that remain.
Chunks(b, in, i, len) ==
  LET after[k \in 0..len \div Block] ==
        IF k = 0 THEN [buf |-> b, in |-> in]
        ELSE LET block == byteSwap(memcpy(after[k - 1].in, 0, i + (k - 1) * Block, Block), BlockWords)
             IN  [buf |-> Transform(after[k - 1].buf, block), in |-> block]
      n == len \div Block
  IN  [buf |-> after[n].buf, in |-> memcpy(after[n].in, 0, i + n * Block, len % Block)]

MD5Update(len) ==
  /\ ctx.live
  /\ LET t     == Block - (ctx.bytes[1] % Block)
         first == byteSwap(memcpy(ctx.in, Block - t, given, t), BlockWords)
         rest  == IF t > len
                  THEN [buf |-> ctx.buf, in |-> memcpy(ctx.in, Block - t, given, len)]
                  ELSE Chunks(Transform(ctx.buf, first), first, given + t, len - t)
     IN  ctx' = [live |-> TRUE, bytes |-> add(ctx.bytes, len), buf |-> rest.buf, in |-> rest.in]
  /\ given' = given + len /\ UNCHANGED bigEndian

fits(count) == Tail1 - 1 - count >= 0

\* The length in bits is put behind the padding.
length(in, bytes) ==
  Assign(Assign(byteSwap(in, BlockWords - 2), BlockWords - 2, Word(bytes[1] * 8)),
         BlockWords - 1, Word(bytes[2] * 8) + (bytes[1] \div 2^(WordBits - 3)))

\* The digest is the last value of ctx.buf; the context is cleared behind it.
padded(c) ==
  LET count  == c.bytes[1] % Block
      marked == [c.in EXCEPT ![count] = 2^(ByteBits - 1)]
      full   == byteSwap(memset(marked, count + 1, Block - 1 - count), BlockWords)
  IN  IF fits(count)
      THEN Transform(c.buf, length(memset(marked, count + 1, Tail1 - 1 - count + WordBytes * 2), c.bytes))
      ELSE Transform(Transform(c.buf, full), length(memset(full, 0, Block), c.bytes))

MD5Final ==
  /\ ctx.live
  /\ ctx' = [live |-> FALSE, buf |-> padded(ctx), bytes |-> <<0, 0>>, in |-> [c \in Cells |-> 0]]
  /\ UNCHANGED <<bigEndian, given>>

\* The length of a piece is an int.
Lengths == {len \in 0..MaxMessage - given : len < 2^(WordBits - 1)}

Next == MD5Init \/ (\E len \in Lengths : MD5Update(len)) \/ MD5Final

Spec == Init /\ [][Next]_vars
----------------------------------------------------------------------------
(* What the padding of MD5 asks for.                                       *)

Message(n) == [i \in 1..n |-> 0 - i]
Zeros(n)   == [i \in 1..n |-> 0]
BytesOf(v, n) == [i \in 1..n |-> (v \div 2^(ByteBits * (i - 1))) % 2^ByteBits]
Padding(n) == Zeros((Tail1 + Block - 1 - (n % Block)) % Block)
Whole(n)   == Message(n) \o <<2^(ByteBits - 1)>> \o Padding(n) \o BytesOf(8 * n, 2 * WordBytes)
Cut(s, n)  == [k \in 1..n |-> SubSeq(s, (k - 1) * Block + 1, k * Block)]

\* The context's numbers fit their words, and memory holds bytes of this message
\* or of none.
TypeOK ==
  /\ ctx.bytes[1] \in 0..2^WordBits - 1 /\ ctx.bytes[2] \in 0..2^WordBits - 1
  /\ \A c \in Cells : ctx.in[c] \in {Garbage} \cup -given..2^ByteBits - 1
  /\ given \in 0..MaxMessage

\* However the message is cut into pieces, the block function has been given its
\* whole blocks, the rest is in the buffer, and the count is that of its bytes.
CuttingDoesNotMatter ==
  ctx.live =>
    /\ ctx.bytes[1] + ctx.bytes[2] * 2^WordBits = given
    /\ ctx.buf = Cut(Message(given), given \div Block)
    /\ \A c \in 0..(given % Block) - 1 : ctx.in[c] = 0 - ((given - (given % Block)) + c + 1)

\* The digest is that of the message, padded with one bit and zeros to whole
\* blocks that end in the number of its bits, in words and bytes from the lowest up.
DigestOfPadded ==
  ~ctx.live /\ ctx.buf # <<>> => ctx.buf = Cut(Whole(given), Len(Whole(given)) \div Block)

\* "64-bit count of bits processed, MSB-first", says the comment above the
\* function that appends the count.
CountHighFirst ==
  ~ctx.live /\ ctx.buf # <<>> =>
    LET last == ctx.buf[Len(ctx.buf)]
    IN  \A i \in 1..2 * WordBytes : last[Block + 1 - i] = BytesOf(8 * given, 2 * WordBytes)[i]
============================================================================
