------------------------------ MODULE BlockLayout ------------------------------
(***************************************************************************)
(* The arithmetic of blocks and megablocks of Block.h.  A megablock starts *)
(* with the descriptors of its blocks, the blocks they take up included;   *)
(* the usable blocks follow.  A group of several megablocks has only the   *)
(* descriptors of its first one: everything behind is data.                *)
(***************************************************************************)
EXTENDS Integers

CONSTANTS BLOCK_SHIFT, MBLOCK_SHIFT, BDESCR_SHIFT,
          W,            \* sizeof(W_)
          MaxWord       \* machine words are below it

ShiftsAssumption ==
  /\ BDESCR_SHIFT \in Nat /\ BLOCK_SHIFT \in Nat /\ MBLOCK_SHIFT \in Nat
  /\ BDESCR_SHIFT < BLOCK_SHIFT /\ BLOCK_SHIFT < MBLOCK_SHIFT

BLOCK_SIZE  == 2 ^ BLOCK_SHIFT
MBLOCK_SIZE == 2 ^ MBLOCK_SHIFT
BDESCR_SIZE == 2 ^ BDESCR_SHIFT

RoundDown(p, size) == p - (p % size)
RoundUp(p, size)   == RoundDown((p + size - 1) % MaxWord, size)

FIRST_BLOCK_OFF == RoundUp(BDESCR_SIZE * (MBLOCK_SIZE \div BLOCK_SIZE), BLOCK_SIZE)

FIRST_BDESCR(m) == FIRST_BLOCK_OFF \div (2 ^ (BLOCK_SHIFT - BDESCR_SHIFT)) + m
LAST_BDESCR(m)  == (MBLOCK_SIZE - BLOCK_SIZE) \div (2 ^ (BLOCK_SHIFT - BDESCR_SHIFT)) + m
FIRST_BLOCK(m)  == FIRST_BLOCK_OFF + m
LAST_BLOCK(m)   == MBLOCK_SIZE - BLOCK_SIZE + m

BLOCKS_PER_MBLOCK == (MBLOCK_SIZE - FIRST_BLOCK_OFF) \div BLOCK_SIZE

(* The descriptor of the block of p, and what the macro of the Cmm code    *)
(* answers instead: the first descriptor of the megablock.                 *)
BdescrOfBlock(p) ==
  RoundDown(p % MBLOCK_SIZE, BLOCK_SIZE) \div (2 ^ (BLOCK_SHIFT - BDESCR_SHIFT)) + RoundDown(p, MBLOCK_SIZE)

Bdescr(p) == RoundDown(p, MBLOCK_SIZE) + FIRST_BDESCR(0)

----------------------------------------------------------------------------
(* The blocks of a group of m megablocks, and the megablocks for m blocks; *)
(* the difference wraps around when one megablock is enough.               *)
MBLOCK_GROUP_BLOCKS(m) == BLOCKS_PER_MBLOCK + (m - 1) * (MBLOCK_SIZE \div BLOCK_SIZE)

BLOCKS_TO_MBLOCKS(m) ==
  1 + RoundUp(((m - BLOCKS_PER_MBLOCK) * BLOCK_SIZE) % MaxWord, MBLOCK_SIZE) \div MBLOCK_SIZE

round_to_mblocks(words) ==
  LET gap == FIRST_BLOCK_OFF \div W
      mw  == MBLOCK_SIZE \div W
      all == (words + gap) % MaxWord
  IN  IF words <= BLOCKS_PER_MBLOCK * (BLOCK_SIZE \div W) THEN words
      ELSE IF all % mw < mw \div 2 THEN RoundDown(all, mw) - gap ELSE RoundDown(all, mw) + mw - gap

----------------------------------------------------------------------------
(* A block has a descriptor of its own, in the part of the megablock that  *)
(* is in front of its usable blocks: writing a descriptor never writes     *)
(* into a block, and the usable blocks are those from the first to the     *)
(* last (Block.h:181-219).                                                 *)
DescriptorsApart(a) ==
  LET p == a % MBLOCK_SIZE  IN
    p >= FIRST_BLOCK_OFF =>
      /\ BdescrOfBlock(p) \in FIRST_BDESCR(0) .. LAST_BDESCR(0)
      /\ LAST_BDESCR(0) + BDESCR_SIZE <= FIRST_BLOCK(0)
      /\ (BdescrOfBlock(p) - FIRST_BDESCR(0)) * (BLOCK_SIZE \div BDESCR_SIZE) = RoundDown(p, BLOCK_SIZE) - FIRST_BLOCK(0)
      /\ RoundDown(p, BLOCK_SIZE) \in FIRST_BLOCK(0) .. LAST_BLOCK(0)

(* BLOCKS_TO_MBLOCKS gives the smallest group that has the blocks, for one *)
(* block as for many, though it computes with unsigned words (Block.h:     *)
(* 222-230).                                                               *)
MblocksSuffice(blocks) ==
  LET m == BLOCKS_TO_MBLOCKS(blocks)  IN
    MBLOCK_GROUP_BLOCKS(m) >= blocks /\ (m > 1 => MBLOCK_GROUP_BLOCKS(m - 1) < blocks)

(* A size that needs several megablocks is rounded to the size of a group, *)
(* by no more than half a megablock, and never to nothing (Block.h:        *)
(* 335-354).                                                               *)
RoundsToGroups(words) ==
  LET r == round_to_mblocks(words)
      groups == {MBLOCK_GROUP_BLOCKS(m) * (BLOCK_SIZE \div W) : m \in 1 .. words \div (MBLOCK_SIZE \div W) + 2}
  IN  /\ words > MBLOCK_GROUP_BLOCKS(1) * (BLOCK_SIZE \div W) => r \in groups
      /\ 2 * (r - words) <= MBLOCK_SIZE \div W /\ 2 * (words - r) <= MBLOCK_SIZE \div W

(* Addresses, blocks and words below a quarter of the machine words, that  *)
(* no sum of the macros wraps around.                                      *)
LayoutSound ==
  /\ \A a \in 0 .. MaxWord \div 4 : DescriptorsApart(a)
  /\ \A blocks \in 1 .. MaxWord \div (4 * BLOCK_SIZE) : MblocksSuffice(blocks)
  /\ \A words \in 0 .. MaxWord \div 4 : RoundsToGroups(words)
=============================================================================
