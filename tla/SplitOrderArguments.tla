------------------------ MODULE SplitOrderArguments ------------------------
(***************************************************************************)
(* The arithmetic of the hash table on words and indexes.  A behaviour     *)
(* builds one argument: a word bit by bit, an index by counting.           *)
(***************************************************************************)
EXTENDS SplitOrder

CONSTANTS
  MaxBits,       \* bound: bits of a word
  MaxIndex,      \* bound: bucket indexes and keys
  MaxSegment     \* bound: segments, of which the last holds MaxIndex

ASSUME ArgumentAssumption ==
  /\ MaxBits \in Nat
  /\ MaxSegment \in 0 .. 30
  /\ MaxIndex \in 0 .. GlobalSize(MaxSegment) - 1

VARIABLES
  word,          \* an argument of log2_64 and reverse_bit_order
  index          \* a bucket index or a key; -1 is none

argument == <<word, index>>

ArgumentInit ==
  /\ word = {}
  /\ index = -1

NextWord ==
  /\ Cardinality(word) < MaxBits
  /\ index = -1
  /\ \E b \in Bits : word' = word \cup {b}
  /\ UNCHANGED index

NextIndex ==
  /\ index < MaxIndex
  /\ word = {}
  /\ index' = index + 1
  /\ UNCHANGED word

ArgumentNext == NextWord \/ NextIndex

ArgumentSpec == ArgumentInit /\ [][ArgumentNext]_argument

-----------------------------------------------------------------------------
\* rhash_ of the dummies, computed once.
DummyHashes == [b \in 0 .. GlobalSize(MaxSegment) - 1 |-> DummyHash(b)]
Dummy(b)    == DummyHashes[b]

\* reverse_bit_order really reverses all 64 bits, and log2_64 finds the top bit
\* of every value but zero, as msb does: get_index and get_parent_index rely on
\* the two agreeing.
BitTricks ==
  /\ ReverseBitOrder(word) = {63 - b : b \in word}
  /\ word # {} => Log2_64(word) = Max(word) /\ Msb(word) = Max(word)

\* Every bucket of a table has a place of its own, in a segment that the table
\* has by the time it has grown to that bucket.
PlaceOfItsOwn ==
  index >= 0 =>
    /\ TableIndex(index) \in 0 .. TableSize(TableSegment(index)) - 1
    /\ \A i \in 0 .. index - 1 :
         TableSegment(i) = TableSegment(index) => TableIndex(i) # TableIndex(index)
    /\ \A s \in 0 .. MaxSegment : index < GlobalSize(s) => TableSegment(index) <= s

\* The parent of a bucket is the one whose part of the list it splits: of the
\* buckets of the table before it grew, the parent's dummy comes last before
\* the new one.  A search for the place of the new dummy starts there.
ParentIsNearest ==
  index > 0 =>
    LET parent == ParentIndex(index)
        older  == 0 .. GlobalSize(Msb(Word(index))) - 1
    IN  /\ parent \in older
        /\ Less(Dummy(parent), Dummy(index))
        /\ \A b \in older : ~ (/\ Less(Dummy(parent), Dummy(b))
                               /\ Less(Dummy(b), Dummy(index)))

\* Whatever the size of the table, a key lies behind the dummy of its bucket
\* and before every other dummy that follows: the search from the bucket meets
\* it before it meets another bucket.
KeyInItsBucket ==
  index >= 0 =>
    \A s \in 0 .. MaxSegment :
      LET bucket == GlobalIndex(index, s)
      IN  /\ Less(Dummy(bucket), RHash(index))
          /\ \A b \in 0 .. GlobalSize(s) - 1 :
               ~ (/\ Less(Dummy(bucket), Dummy(b))
                  /\ Less(Dummy(b), RHash(index)))
=============================================================================
