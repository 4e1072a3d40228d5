-------------------------- MODULE BuddyManagerMeta --------------------------
(***************************************************************************)
(* The arithmetic of include/BuddyManager/BuddyManagerMeta.h: size         *)
(* classes, buddies, and the position of a block's bit in the bitmap.      *)
(* Offsets and sizes are counted in any common unit.                       *)
(***************************************************************************)
EXTENDS Integers

CONSTANTS
  PageSize,      \* the size of a chunk
  MinAllocSize   \* the smallest block

\* 1ULL << k.
pow2[k \in Nat] == IF k = 0 THEN 1 ELSE 2 * pow2[k - 1]

IsPowerOfTwo(n) == \E k \in 0..n : n = pow2[k]

ASSUME SizeAssumption ==
  /\ PageSize \in Nat /\ MinAllocSize \in Nat
  /\ IsPowerOfTwo(PageSize) /\ IsPowerOfTwo(MinAllocSize)
  /\ MinAllocSize <= PageSize

\* 63 minus the leading zeroes: the logarithm, rounded down.
log_2(n) == CHOOSE k \in 0..n : pow2[k] <= n /\ n < pow2[k + 1]

get_num_sizeclasses == log_2(PageSize) - log_2(MinAllocSize) + 1

\* A size that is not a power of two gets the class of the next smaller one.
get_sizeclass(size) == log_2(size) - log_2(MinAllocSize)

get_size(szc) == MinAllocSize * pow2[szc]

SizeClass == 0..(get_num_sizeclasses - 1)
TopClass == get_sizeclass(PageSize)

\* The offsets at which a block of a class can start.
OffsetsOf(szc) == {i * get_size(szc) : i \in 0..(PageSize \div get_size(szc) - 1)}

\* Mutant (here and below, each before the definition it would replace): the
\* buddy is always the block after.
next_block(offset, szc) == (offset \div get_size(szc) + 1) * get_size(szc)

get_bitmap_index(offset, szc) ==
  pow2[get_num_sizeclasses - (szc + 1)] - 1 + offset \div get_size(szc)

BitIndex == 0..(pow2[get_num_sizeclasses] - 2)

\* Flipping the lowest bit of the block's number.
get_buddy(offset, szc) ==
  LET n == offset \div get_size(szc)
  IN (IF n % 2 = 0 THEN n + 1 ELSE n - 1) * get_size(szc)

\* A bitmap is the set of its bits that are 1: a 0 bit says free.
block_is_free(bitmap, offset, szc) == get_bitmap_index(offset, szc) \notin bitmap

\* Mutant: the lower half keeps the place of the block freed.
SameBlock(offset, szc) == offset

\* The block of class `szc' that contains an offset; min(ptr, buddy) at every
\* merge leads to it.
EnclosingBlock(offset, szc) == offset - (offset % get_size(szc))
=============================================================================
