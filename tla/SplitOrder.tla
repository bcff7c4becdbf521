----------------------------- MODULE SplitOrder -----------------------------
(***************************************************************************)
(* include/LFS/LF_HashTable.hpp: the bit tricks and the index arithmetic   *)
(* of the split-ordered hash table.                                        *)
(*                                                                         *)
(* A size_t is the set of its bits, 0 the lowest: `|` is union, `&` is     *)
(* intersection, a shift moves every element.  Bucket indexes and segment  *)
(* numbers are integers.                                                   *)
(***************************************************************************)
EXTENDS Integers, Sequences, FiniteSets, FiniteSetsExt

Bits  == 0 .. 63
Half  == 0 .. 31          \* the bits of a uint

\* Bound: keys and indexes are below 2 ^ 30, which TLC's integers hold.
WordBits == 0 .. 29
Indexes  == 0 .. 2 ^ 30 - 1

Shr(v, n) == {b - n : b \in {c \in v : c >= n}}
Shl(v, n) == {b + n : b \in v} \cap Bits

Word(i)   == {b \in WordBits : (i \div 2 ^ b) % 2 = 1}
Number(v) == MapThenSumSet(LAMBDA b : 2 ^ b, v)

\* v < w, as numbers.
Less(v, w) ==
  v # w /\ Max((v \cup w) \ (v \cap w)) \in w

-----------------------------------------------------------------------------
(***************************************************************************)
(* log2_64                                                                 *)
(***************************************************************************)
Tab64 ==
  <<63,  0, 58,  1, 59, 47, 53,  2, 60, 39, 48, 27, 54, 33, 42,  3,
    61, 51, 37, 40, 49, 18, 28, 20, 55, 30, 34, 11, 43, 14, 22,  4,
    62, 57, 46, 52, 38, 26, 32, 41, 50, 36, 17, 19, 29, 10, 13, 21,
    56, 45, 25, 31, 35, 16,  9, 12, 44, 24, 15,  8, 23,  7,  6,  5>>

\* 0x07EDD5E59A4E28C2
Magic ==
  LET digits == <<0, 7, 14, 13, 13, 5, 14, 5, 9, 10, 4, 14, 2, 8, 12, 2>>
  IN  {b \in Bits : b % 4 \in Word(digits[16 - b \div 4])}

\* value |= value >> n
Spread(v, n) == v \cup Shr(v, n)

Smear(v) ==
  Spread(Spread(Spread(Spread(Spread(Spread(v, 1), 2), 4), 8), 16), 32)

\* What is left of the smeared value after the subtraction is its top bit, and
\* a product with a single bit is a shift.
Log2_64(v) ==
  LET top     == Smear(v) \ Shr(Smear(v), 1)
      product == UNION {Shl(Magic, b) : b \in top}
  IN  Tab64[Number(Shr(product, 58)) + 1]

(***************************************************************************)
(* reverse_bit_order                                                       *)
(***************************************************************************)
\* Two neighbouring groups of n bits change places, all over a half.
SwapGroups(v, n) ==
  LET mask == {b \in Half : (b \div n) % 2 = 0}
  IN  (Shr(v, n) \cap mask) \cup (Shl(v \cap mask, n) \cap Half)

ReverseHalf(v) ==
  SwapGroups(SwapGroups(SwapGroups(SwapGroups(SwapGroups(v, 1), 2), 4), 8), 16)

\* Mutant: the halves stay where they are.
ReverseInPlace(v) ==
  ReverseHalf(v \cap Half) \cup Shl(ReverseHalf(Shr(v, 32)), 32)

\* The lower half, reversed, becomes the upper one.
ReverseBitOrder(v) ==
  ReverseHalf(Shr(v, 32)) \cup Shl(ReverseHalf(v \cap Half), 32)

Msb(v)         == Max(v \cup {0})
SetUpperBit(v) == v \cup {63}

\* HashNode: rhash_ of a bucket's dummy and of an element.
DummyHash(bucket) == ReverseBitOrder(Word(bucket))
RHash(key)        == ReverseBitOrder(SetUpperBit(Word(key)))

-----------------------------------------------------------------------------
(***************************************************************************)
(* Buckets and segments.                                                   *)
(***************************************************************************)
\* get_global_size, get_global_index
GlobalSize(segment)        == 2 ^ segment
GlobalIndex(hash, segment) == hash % GlobalSize(segment)

\* Mutant: the first bucket of a level is put one segment too high.
SegmentOfLevel(i) == IF i <= 1 THEN i ELSE Log2_64(Word(i)) + 1

\* get_table_segment: a power of two closes a segment.
TableSegment(i) ==
  IF i <= 1 THEN i
  ELSE Log2_64(Word(i)) + (IF Cardinality(Word(i)) = 1 THEN 0 ELSE 1)

\* get_table_size_by_segment
TableSize(segment) ==
  CASE segment = 0 -> 1
    [] segment = 1 -> 2
    [] OTHER       -> 2 ^ (segment - 1)

\* get_index
TableIndex(i) ==
  LET segment == TableSegment(i)
  IN  CASE segment = 0 -> 0
        [] segment = 1 -> i - 1
        [] OTHER       -> i - TableSize(segment) - 1

\* Mutant: the lowest bit goes.
ParentHalf(i) == i \div 2

\* get_parent_index: the top bit goes.
ParentIndex(i) ==
  IF i <= 1 THEN 0 ELSE Number(Word(i) \ {Msb(Word(i))})
=============================================================================
