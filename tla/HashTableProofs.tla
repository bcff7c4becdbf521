-------------------------- MODULE HashTableProofs --------------------------
(***************************************************************************)
(* For any number of threads that insert, find and remove, any keys and    *)
(* any size of the table: a bucket gets one dummy, no thread waits for a   *)
(* segment, a bucket serves from its head, and no insertion is lost.       *)
(***************************************************************************)
EXTENDS HashTableInvariants, Arithmetic, SequenceTheorems

-----------------------------------------------------------------------------
(***************************************************************************)
(* Ranks and lineages, from the arithmetic of SplitOrder.                  *)
(***************************************************************************)
LEMMA BucketsAre ==
  /\ MaxSegment \in 0 .. 30
  /\ 2 ^ MaxSegment \in Nat \ {0}
  /\ Buckets = 0 .. 2 ^ MaxSegment - 1
  /\ 0 \in Buckets
  /\ Buckets \subseteq Indexes
  /\ Buckets \cup Keys \subseteq Indexes
<1>1. MaxSegment \in 0 .. 30 /\ 30 \in MaxSegment .. 30
  BY TableAssumption
<1>2. 2 ^ MaxSegment \in Nat \ {0} /\ 2 ^ MaxSegment <= 2 ^ 30
  BY <1>1, Powers, PowerGrows
<1>3. Buckets = 0 .. 2 ^ MaxSegment - 1
  BY DEF Buckets, GlobalSize
<1>4. 0 \in 0 .. 2 ^ MaxSegment - 1
  BY <1>2
<1>5. 0 .. 2 ^ MaxSegment - 1 \subseteq Indexes
  <2>1. \A p, q \in Nat : p <= q => 0 .. p - 1 \subseteq 0 .. q - 1
    OBVIOUS
  <2>2. 2 ^ 30 \in Nat
    OBVIOUS
  <2>3. QED
    BY <1>2, <2>1, <2>2 DEF Indexes
<1>6. QED
  BY <1>1, <1>2, <1>3, <1>4, <1>5, TableAssumption

LEMMA HashesAre ==
  /\ IsFiniteSet(Hashes)
  /\ Hashes \subseteq SUBSET Bits
  /\ \A n \in Buckets \cup Keys : DummyHash(n) \in Hashes
  /\ \A k \in Keys : RHash(k) \in Hashes
<1>1. \A n \in Buckets \cup Keys : DummyHash(n) \in SUBSET Bits
  BY BucketsAre, HashBits
<1>2. \A k \in Keys : RHash(k) \in SUBSET Bits
  BY BucketsAre, HashBits
<1>3. Hashes \subseteq SUBSET Bits
  BY <1>1, <1>2 DEF Hashes
<1>4. IsFiniteSet(SUBSET Bits)
  <2>1. 0 \in Int /\ 63 \in Int
    OBVIOUS
  <2>2. IsFiniteSet(0 .. 63)
    BY <2>1, FS_Interval
  <2>3. QED
    BY <2>2, FS_SUBSET DEF Bits
<1>5. IsFiniteSet(Hashes)
  BY <1>3, <1>4, FS_Subset
<1>6. QED
  BY <1>3, <1>5 DEF Hashes

\* Ranks compare as the hashes do.
LEMMA RankOrders ==
  ASSUME NEW v \in Hashes, NEW w \in Hashes
  PROVE  /\ Rank(v) \in Nat
         /\ Less(v, w) <=> Rank(v) < Rank(w)
         /\ v = w <=> Rank(v) = Rank(w)
<1> DEFINE Below(u) == {x \in Hashes : Less(x, u)}
<1>1. \A u \in Hashes : u \in SUBSET Bits
  BY HashesAre
<1>2. \A u \in Hashes : IsFiniteSet(Below(u)) /\ Rank(u) = Cardinality(Below(u))
  BY HashesAre, FS_Subset DEF Rank
<1>3. \A u \in Hashes : Rank(u) \in Nat
  BY <1>2, FS_CardinalityType
<1>4. ASSUME NEW a \in Hashes, NEW b \in Hashes, Less(a, b)
      PROVE  Rank(a) < Rank(b)
  <2>1. Below(a) \in SUBSET Below(b)
    BY <1>1, <1>4, LessOrders
  <2>2. a \in Below(b) /\ a \notin Below(a)
    BY <1>1, <1>4, LessOrders
  <2> HIDE DEF Below
  <2>3. Below(a) # Below(b)
    BY <2>2
  <2>4. /\ Cardinality(Below(a)) <= Cardinality(Below(b))
        /\ Cardinality(Below(b)) = Cardinality(Below(a)) => Below(b) = Below(a)
    BY <1>2, <2>1, FS_Subset
  <2>5. QED
    BY <1>2, <1>3, <2>3, <2>4
<1>5. v = w \/ Less(v, w) \/ Less(w, v)
  BY <1>1, LessOrders
<1>6. Less(v, w) => Rank(v) < Rank(w)
  BY <1>4
<1>7. Less(w, v) => Rank(w) < Rank(v)
  BY <1>4
<1> HIDE DEF Below
<1>8. QED
  BY <1>3, <1>5, <1>6, <1>7

-----------------------------------------------------------------------------
\* Equations of the recursive function Lineage, for buckets up to n.
LineageTo(f, n) ==
  f = [b \in 0 .. n |-> IF b = 0 THEN <<0>> ELSE Append(f[ParentIndex(b)], b)]

LEMMA ParentBelow ==
  ASSUME NEW b \in Buckets, b # 0
  PROVE  /\ b \in Indexes /\ b \in Nat
         /\ ParentIndex(b) \in 0 .. b - 1
         /\ ParentIndex(b) \in Buckets
         /\ Less(DummyHash(ParentIndex(b)), DummyHash(b))
<1> DEFINE m == Msb(Word(b))
<1>1. b \in Indexes /\ b \in Nat /\ b > 0 /\ b \in 0 .. 2 ^ MaxSegment - 1
  BY BucketsAre, IndexesAre
<1>2. m \in 0 .. 30 /\ 2 ^ m <= b /\ ParentIndex(b) = b % 2 ^ m
  BY <1>1, TopOfWord DEF WordBits
<1> HIDE DEF m
<1>3. b % 2 ^ m \in 0 .. 2 ^ m - 1 /\ 2 ^ m \in Nat
  BY <1>1, <1>2, RestIs, Powers
<1>4. b % 2 ^ m \in 0 .. b - 1
  BY <1>1, <1>2, <1>3
<1>5. b % 2 ^ m \in 0 .. 2 ^ MaxSegment - 1
  BY <1>1, <1>4, BucketsAre
<1>6. Less(DummyHash(b % 2 ^ m), DummyHash(b))
  <2>1. b % 2 ^ m # b
    BY <1>1, <1>4
  <2>2. QED
    BY <1>1, <1>2, <2>1, RestBefore
<1>7. QED
  BY <1>1, <1>2, <1>4, <1>5, <1>6, BucketsAre

LEMMA LineageExists ==
  ASSUME NEW m \in Buckets
  PROVE  \E f : LineageTo(f, m)
<1> DEFINE S == {i \in Nat : \E f : LineageTo(f, i)}
<1>0. m \in Nat /\ 0 .. m \subseteq Buckets
  BY BucketsAre
<1>1. 0 \in S
  <2> DEFINE f == [b \in 0 .. 0 |-> <<0>>]
  <2>1. LineageTo(f, 0)
    BY DEF LineageTo
  <2>2. QED
    BY <2>1
<1>2. ASSUME NEW i \in 0 .. m - 1, i \in S
      PROVE  i + 1 \in S
  <2>1. PICK f : LineageTo(f, i)
    BY <1>2
  <2> DEFINE more == [b \in 0 .. i + 1 |->
                        IF b <= i THEN f[b]
                        ELSE Append(f[ParentIndex(i + 1)], i + 1)]
  <2>2. \A b \in 0 .. i :
          f[b] = IF b = 0 THEN <<0>> ELSE Append(f[ParentIndex(b)], b)
    BY <2>1 DEF LineageTo
  <2>3. ASSUME NEW b \in 0 .. i + 1, b # 0
        PROVE  ParentIndex(b) \in 0 .. i /\ more[ParentIndex(b)] = f[ParentIndex(b)]
    <3>1. b \in Buckets
      BY <1>0
    <3>2. ParentIndex(b) \in 0 .. b - 1
      BY <2>3, <3>1, ParentBelow
    <3>3. ParentIndex(b) \in 0 .. i
      BY <3>2
    <3>4. QED
      BY <3>3
  <2>4. ASSUME NEW b \in 0 .. i + 1
        PROVE  more[b] = IF b = 0 THEN <<0>> ELSE Append(more[ParentIndex(b)], b)
    <3>1. CASE b <= i
      <4>1. more[b] = f[b] /\ b \in 0 .. i
        BY <3>1
      <4> HIDE DEF more
      <4>2. QED
        BY <2>2, <2>3, <4>1
    <3>2. CASE ~ (b <= i)
      <4>1. b = i + 1 /\ b # 0
        BY <3>2
      <4>2. more[b] = Append(f[ParentIndex(b)], b)
        BY <4>1
      <4> HIDE DEF more
      <4>3. QED
        BY <2>3, <4>1, <4>2
    <3>3. QED
      BY <3>1, <3>2
  <2>5. more = [b \in 0 .. i + 1 |-> more[b]]
    OBVIOUS
  <2> HIDE DEF more
  <2>6. LineageTo(more, i + 1)
    BY <2>4, <2>5 DEF LineageTo
  <2>7. QED
    BY <2>6
<1>3. m \in S
  <2> HIDE DEF S
  <2>1. 0 .. m \subseteq S
    BY <1>0, <1>1, <1>2, UpTo
  <2>2. QED
    BY <1>0, <2>1
<1>4. QED
  BY <1>3

LEMMA Lineages ==
  /\ Lineage[0] = <<0>>
  /\ \A b \in Buckets : b # 0 => Lineage[b] = Append(Lineage[ParentIndex(b)], b)
<1> DEFINE last == 2 ^ MaxSegment - 1
           Fits(f) == f = [b \in Buckets |-> IF b = 0 THEN <<0>>
                                        ELSE Append(f[ParentIndex(b)], b)]
<1>1. last \in Buckets /\ Buckets = 0 .. last
  BY BucketsAre
<1> HIDE DEF last
<1>2. \E f : Fits(f)
  BY <1>1, LineageExists DEF LineageTo
<1>3. Lineage = CHOOSE f : Fits(f)
  BY DEF Lineage
<1>4. Fits(Lineage)
  <2> HIDE DEF Fits
  <2>1. QED
    BY <1>2, <1>3
<1>5. QED
  BY <1>4, BucketsAre

\* A lineage goes down the list to its bucket.
Down(b) ==
  /\ Lineage[b] \in Seq(Buckets)
  /\ \A i \in DOMAIN Lineage[b] :
       /\ Lineage[b][i] <= b
       /\ Lineage[b][i] = b \/ Less(DummyHash(Lineage[b][i]), DummyHash(b))
  /\ \A i, j \in DOMAIN Lineage[b] :
       i < j => Less(DummyHash(Lineage[b][i]), DummyHash(Lineage[b][j]))

LEMMA AllDown ==
  ASSUME NEW b \in Buckets
  PROVE  Down(b)
<1> DEFINE T == {n \in Nat : n \in Buckets /\ ~ Down(n)}
<1> SUFFICES ASSUME T # {} PROVE FALSE
  BY BucketsAre
<1>1. PICK n \in T : \A y \in T : n <= y
  BY LeastNumber
<1>2. n \in Nat /\ n \in Buckets /\ ~ Down(n)
  BY <1>1
<1>3. CASE n = 0
  <2>1. Lineage[n] = <<0>> /\ 0 \in Buckets
    BY <1>3, Lineages, BucketsAre
  <2>2. QED
    BY <1>2, <1>3, <2>1 DEF Down
<1>4. CASE n # 0
  <2> DEFINE q == ParentIndex(n)
             l == Lineage[q]
  <2>1. q \in 0 .. n - 1 /\ q \in Buckets /\ Less(DummyHash(q), DummyHash(n))
    BY <1>2, <1>4, ParentBelow
  <2>2. Lineage[n] = Append(l, n)
    BY <1>2, <1>4, Lineages
  <2>3. Down(q)
    <3>1. q \notin T
      <4> HIDE DEF T
      <4>1. ~ (n <= q)
        BY <1>2, <2>1
      <4>2. QED
        BY <1>1, <4>1
    <3>2. QED
      BY <2>1, <3>1
  <2>4. /\ l \in Seq(Buckets)
        /\ \A i \in DOMAIN l :
             /\ l[i] <= q
             /\ l[i] = q \/ Less(DummyHash(l[i]), DummyHash(q))
        /\ \A i, j \in DOMAIN l : i < j => Less(DummyHash(l[i]), DummyHash(l[j]))
    BY <2>3 DEF Down
  <2> HIDE DEF l, q, T
  <2>5. \A i \in DOMAIN l : l[i] \in Buckets
    BY <2>4
  <2>6. ASSUME NEW i \in DOMAIN l
        PROVE  l[i] <= n /\ Less(DummyHash(l[i]), DummyHash(n))
    <3>1. l[i] \in Buckets /\ l[i] <= q
      BY <2>4, <2>5
    <3>2. l[i] \in Int
      BY <3>1 DEF Buckets
    <3>3. l[i] <= n
      BY <1>2, <2>1, <3>1, <3>2
    <3>4. /\ DummyHash(l[i]) \in SUBSET Bits /\ DummyHash(q) \in SUBSET Bits
          /\ DummyHash(n) \in SUBSET Bits
      BY <1>2, <2>1, <3>1, BucketsAre, HashBits
    <3>5. QED
      BY <2>1, <2>4, <3>3, <3>4, LessOrders
  <2>7. /\ Append(l, n) \in Seq(Buckets)
        /\ DOMAIN l = 1 .. Len(l) /\ Len(l) \in Nat
        /\ DOMAIN Append(l, n) = 1 .. Len(l) + 1
        /\ \A i \in DOMAIN l : Append(l, n)[i] = l[i]
        /\ Append(l, n)[Len(l) + 1] = n
    BY <1>2, <2>4
  <2>8. \A i \in DOMAIN Append(l, n) : i \in DOMAIN l \/ i = Len(l) + 1
    BY <2>7
  <2>9. n <= n
    BY <1>2
  <2>10. \A i, j \in DOMAIN Append(l, n) :
           i < j => /\ i \in DOMAIN l
                    /\ j \in DOMAIN l \/ j = Len(l) + 1
    BY <2>7
  <2>11. \A i \in DOMAIN Append(l, n) :
           /\ Append(l, n)[i] <= n
           /\ Append(l, n)[i] = n \/ Less(DummyHash(Append(l, n)[i]), DummyHash(n))
    BY <2>6, <2>7, <2>8, <2>9
  <2>12. \A i, j \in DOMAIN Append(l, n) : i < j =>
           Less(DummyHash(Append(l, n)[i]), DummyHash(Append(l, n)[j]))
    BY <2>4, <2>6, <2>7, <2>10
  <2>13. Down(n)
    BY <2>2, <2>7, <2>11, <2>12 DEF Down
  <2>14. QED
    BY <1>2, <2>13
<1>5. QED
  BY <1>3, <1>4

\* The index arithmetic: the parents of a bucket are buckets, and an index of a
\* table of 2^s buckets, and its parents' before it, are in the first s segments.
LEMMA IndexArithmetic ==
  /\ 0 \in Buckets
  /\ \A b \in Buckets : Lineage[b] \in Seq(Buckets)
  /\ \A k \in Keys, s \in 0 .. MaxSegment :
       LET b == GlobalIndex(k, s) IN
       /\ b \in Buckets
       /\ \A i \in DOMAIN Lineage[b] : SegmentOf[Lineage[b][i]] \in 0 .. s
<1>1. \A b \in Buckets : Lineage[b] \in Seq(Buckets)
  BY AllDown DEF Down
<1>2. ASSUME NEW k \in Keys, NEW s \in 0 .. MaxSegment
      PROVE  LET b == GlobalIndex(k, s) IN
             /\ b \in Buckets
             /\ \A i \in DOMAIN Lineage[b] : SegmentOf[Lineage[b][i]] \in 0 .. s
  <2> DEFINE b == k % 2 ^ s
  <2>1. k \in Indexes /\ s \in 0 .. 30 /\ MaxSegment \in s .. 30
    BY BucketsAre
  <2>2. b \in 0 .. 2 ^ s - 1 /\ 2 ^ s \in Nat /\ 2 ^ s <= 2 ^ MaxSegment
    BY <2>1, RestIs, Powers, PowerGrows
  <2> HIDE DEF b
  <2>3. b \in Buckets
    BY <2>2, BucketsAre
  <2>4. ASSUME NEW i \in DOMAIN Lineage[b]
        PROVE  SegmentOf[Lineage[b][i]] \in 0 .. s
    <3> DEFINE c == Lineage[b][i]
    <3>1. c \in Buckets /\ c <= b
      <4>1. Lineage[b] \in Seq(Buckets)
        BY <1>1, <2>3
      <4>2. c \in Buckets
        BY <4>1
      <4>3. QED
        BY <2>3, <4>2, AllDown DEF Down
    <3> HIDE DEF c
    <3>2. c \in Indexes /\ c \in Int
      BY <3>1, BucketsAre DEF Buckets
    <3>3. c < 2 ^ s
      BY <2>2, <3>1, <3>2
    <3>4. TableSegment(c) <= s /\ TableSegment(c) \in 0 .. 30
      BY <2>1, <3>2, <3>3, SegmentsOfTable, SegmentBounds
    <3>5. TableSegment(c) \in 0 .. s
      BY <2>1, <3>4
    <3>6. QED
      BY <3>1, <3>5 DEF SegmentOf, c
  <2>5. GlobalIndex(k, s) = b
    BY DEF GlobalIndex, GlobalSize, b
  <2>6. QED
    BY <2>3, <2>4, <2>5
<1>3. QED
  BY <1>1, <1>2, BucketsAre

\* The order: bucket 0 comes first, a bucket before its children and its keys;
\* a key comes right behind the place of a dummy with its bits.
LEMMA RankOrder ==
  /\ Ranks \subseteq Nat
  /\ LowRank[0] = 0
  /\ \A b, c \in Buckets : LowRank[b] = LowRank[c] => b = c
  /\ \A k, l \in Keys : HighRank[k] = HighRank[l] => k = l
  /\ \A k \in Keys, n \in Buckets \cup Keys : HighRank[k] # LowRank[n]
  /\ \A k \in Keys : LowRank[k] < HighRank[k]
  /\ \A k \in Keys, r \in Ranks : LowRank[k] < r => HighRank[k] <= r
  /\ \A k \in Keys, s \in 0 .. MaxSegment :
       LET lineage == Lineage[GlobalIndex(k, s)] IN
       \A i, j \in DOMAIN lineage : i <= j =>
         /\ LowRank[lineage[i]] <= LowRank[lineage[j]]
         /\ LowRank[lineage[j]] <= LowRank[k]
<1> DEFINE All == Buckets \cup Keys
<1>1. /\ \A n \in All : LowRank[n] = Rank(DummyHash(n)) /\ DummyHash(n) \in Hashes
      /\ \A k \in Keys : HighRank[k] = Rank(RHash(k)) /\ RHash(k) \in Hashes
  BY HashesAre DEF LowRank, HighRank
<1>2. All \subseteq Indexes /\ Keys \subseteq All /\ Buckets \subseteq All
  BY BucketsAre
<1> HIDE DEF All
<1>3. \A n \in All : LowRank[n] \in Nat
  BY <1>1, RankOrders
<1>4. \A k \in Keys : HighRank[k] \in Nat
  BY <1>1, RankOrders
<1>5. Ranks \subseteq Nat
  BY <1>3, <1>4 DEF Ranks, All
<1>6. LowRank[0] = 0
  <2>1. DummyHash(0) = {}
    <3>1. \A p \in Nat \ {0} : ~ ((0 \div p) % 2 = 1)
      OBVIOUS
    <3>2. \A b \in WordBits : ~ ((0 \div 2 ^ b) % 2 = 1)
      BY <3>1, Doubles
    <3>3. Word(0) = {}
      BY <3>2 DEF Word
    <3>4. {} \in SUBSET Bits /\ {63 - b : b \in {}} = {}
      OBVIOUS
    <3>5. QED
      BY <3>3, <3>4, Reversed DEF DummyHash
  <2>2. \A w \in Hashes : ~ Less(w, {})
    BY DEF Less
  <2>3. Rank({}) = Cardinality({})
    <3>1. {w \in Hashes : Less(w, {})} = {}
      BY <2>2
    <3>2. QED
      BY <3>1 DEF Rank
  <2>4. 0 \in All
    BY <1>2, BucketsAre
  <2>5. QED
    BY <1>1, <2>1, <2>3, <2>4, FS_EmptySet
<1>7. \A b, c \in Buckets : LowRank[b] = LowRank[c] => b = c
  BY <1>1, <1>2, RankOrders, DummiesDiffer
<1>8. \A k, l \in Keys : HighRank[k] = HighRank[l] => k = l
  BY <1>1, <1>2, RankOrders, KeysDiffer
<1>9. \A k \in Keys, n \in All : HighRank[k] # LowRank[n]
  BY <1>1, <1>2, RankOrders, KeyBehindDummy
<1>10. \A k \in Keys : LowRank[k] < HighRank[k]
  BY <1>1, <1>2, RankOrders, KeyBehindDummy
<1>11. ASSUME NEW k \in Keys, NEW r \in Ranks, LowRank[k] < r
       PROVE  HighRank[k] <= r
  <2>1. k \in All /\ LowRank[k] \in Nat /\ HighRank[k] \in Nat
    BY <1>2, <1>3, <1>4
  <2>2. CASE r = 0
    BY <1>11, <2>1, <2>2
  <2>3. ASSUME NEW n \in All, r = LowRank[n]
        PROVE  HighRank[k] < r
    <3>1. Less(DummyHash(k), DummyHash(n))
      BY <1>1, <1>11, <2>1, <2>3, RankOrders
    <3>2. Less(RHash(k), DummyHash(n))
      BY <1>2, <2>1, <3>1, KeyBehindDummy
    <3>3. QED
      BY <1>1, <2>3, <3>2, RankOrders
  <2>4. ASSUME NEW l \in Keys, r = HighRank[l]
        PROVE  k = l \/ HighRank[k] < r
    <3>1. Less(DummyHash(k), RHash(l))
      BY <1>1, <1>11, <2>1, <2>4, RankOrders
    <3>2. k = l \/ Less(RHash(k), RHash(l))
      BY <1>2, <2>1, <3>1, KeyBehindDummy
    <3>3. QED
      BY <1>1, <2>4, <3>2, RankOrders
  <2>5. CASE \E n \in All : r = LowRank[n]
    BY <1>3, <2>1, <2>3, <2>5
  <2>6. CASE \E l \in Keys : r = HighRank[l]
    BY <1>4, <2>1, <2>4, <2>6
  <2>7. QED
    BY <2>2, <2>5, <2>6 DEF Ranks, All
<1>12. ASSUME NEW k \in Keys, NEW s \in 0 .. MaxSegment,
              NEW i \in DOMAIN Lineage[GlobalIndex(k, s)],
              NEW j \in DOMAIN Lineage[GlobalIndex(k, s)], i <= j
       PROVE  /\ LowRank[Lineage[GlobalIndex(k, s)][i]]
                   <= LowRank[Lineage[GlobalIndex(k, s)][j]]
              /\ LowRank[Lineage[GlobalIndex(k, s)][j]] <= LowRank[k]
  <2> DEFINE b == GlobalIndex(k, s)
             c == Lineage[b][i]
             d == Lineage[b][j]
  <2>1. b \in Buckets /\ Lineage[b] \in Seq(Buckets)
    BY IndexArithmetic
  <2>2. k \in Indexes /\ s \in 0 .. 30 /\ b = k % 2 ^ s
    BY BucketsAre DEF GlobalIndex, GlobalSize
  <2>3. Down(b)
    BY <2>1, AllDown
  <2> HIDE DEF b
  <2>4. i \in Int /\ j \in Int /\ c \in Buckets /\ d \in Buckets
    BY <2>1 DEF b
  <2>5. c = d \/ Less(DummyHash(c), DummyHash(d))
    <3>1. CASE i = j
      BY <3>1
    <3>2. CASE i # j
      BY <1>12, <2>3, <2>4, <3>2 DEF Down, b
    <3>3. QED
      BY <3>1, <3>2
  <2>6. d = b \/ Less(DummyHash(d), DummyHash(b))
    BY <2>3 DEF Down, b
  <2>7. b = k \/ Less(DummyHash(b), DummyHash(k))
    BY <2>2, RestBefore
  <2> HIDE DEF c, d
  <2>8. c \in All /\ d \in All /\ b \in All /\ k \in All
    BY <1>2, <2>1, <2>4
  <2>9. /\ LowRank[c] \in Nat /\ LowRank[d] \in Nat
        /\ LowRank[b] \in Nat /\ LowRank[k] \in Nat
    BY <1>3, <2>8
  <2>10. LowRank[c] <= LowRank[d]
    BY <1>1, <2>5, <2>8, <2>9, RankOrders
  <2>11. LowRank[d] <= LowRank[b]
    BY <1>1, <2>6, <2>8, <2>9, RankOrders
  <2>12. LowRank[b] <= LowRank[k]
    BY <1>1, <2>7, <2>8, <2>9, RankOrders
  <2>13. QED
    BY <2>9, <2>10, <2>11, <2>12 DEF b, c, d
<1>13. QED
  BY <1>5, <1>6, <1>7, <1>8, <1>9, <1>10, <1>11, <1>12 DEF All

-----------------------------------------------------------------------------
\* What the proofs use of the constants and of the definitions over them.
LEMMA Constants ==
  /\ MaxNodes \in Nat /\ MaxNodes >= 3
  /\ Nodes = 0 .. MaxNodes - 1
  /\ NULL \notin Nodes
  /\ Keys \subseteq Nat
  /\ MaxSegment \in Nat
  /\ 0 \in Buckets
  /\ Buckets \subseteq Int
  /\ 0 \in Ranks
  /\ \A b \in Buckets : LowRank[b] \in Ranks
  /\ \A k \in Keys : LowRank[k] \in Ranks /\ HighRank[k] \in Ranks
  /\ \A b \in Buckets : Lineage[b] \in Seq(Buckets)
<1>1. /\ 0 \in Ranks
      /\ \A b \in Buckets : LowRank[b] \in Ranks
      /\ \A k \in Keys : LowRank[k] \in Ranks /\ HighRank[k] \in Ranks
  BY DEF Ranks
<1>2. /\ MaxNodes \in Nat /\ MaxNodes >= 3
      /\ Nodes = 0 .. MaxNodes - 1
      /\ NULL \notin Nodes
  BY ListAssumption DEF Nodes
<1>3. Buckets \subseteq Int
  BY DEF Buckets
<1>4. Keys \subseteq Nat /\ MaxSegment \in Nat
  <2>1. \A k \in Keys : k \in Nat
    BY BucketsAre, IndexesAre
  <2>2. \A s \in 0 .. 30 : s \in Nat
    OBVIOUS
  <2>3. QED
    BY <2>1, <2>2, BucketsAre
<1>5. QED
  BY <1>1, <1>2, <1>3, <1>4, IndexArithmetic

\* The values a thread starts from.
LEMMA Starts == NoLocal \in Locals /\ NoCall \in Calls /\ Nil \in Links
<1>1. NoLocal \in Locals /\ Nil \in Links
  BY Constants DEF NoLocal, Locals, Nil, Link, Links, Pointers
<1>2. <<>> \in Seq(Buckets)
  OBVIOUS
<1>3. NoCall \in Calls
  BY <1>2, Constants DEF NoCall, Calls, Pointers
<1>4. QED
  BY <1>1, <1>3

LEMMA InitIInv == Init => IInv
<1> SUFFICES ASSUME Init PROVE IInv
  OBVIOUS
<1>1. TypeOK
  <2>1. next \in [Nodes -> Links]
    BY Constants DEF Init, ListInit, First, Ghost, Link, Links, Nil
  <2>2. item \in [Nodes -> [rank : Ranks, key : Buckets \cup Keys, dummy : BOOLEAN]]
    BY Constants DEF Init, ListInit, Item
  <2>3. used \in 3 .. MaxNodes /\ pc \in [Threads -> Pcs]
    BY Constants DEF Init, ListInit, Pcs
  <2>4. local \in [Threads -> Locals] /\ call \in [Threads -> Calls]
    BY Starts DEF Init, ListInit
  <2>5. segs \subseteq 0 .. MaxSegment /\ current \in 0 .. MaxSegment
    BY Constants DEF Init
  <2>6. bhead \in [Buckets -> Pointers]
    BY Constants DEF Init, Pointers
  <2>7. QED
    BY <2>1, <2>2, <2>3, <2>4, <2>5, <2>6 DEF TypeOK
<1>2. Followed
  BY Constants DEF Init, ListInit, Followed, NoCall, SearchPcs
<1>3. Makers
  BY DEF Init, ListInit, Makers, NoCall
<1>4. Dummies
  <2> SUFFICES ASSUME NEW b \in Buckets, NEW n \in Nodes, IsDummy(n, b)
               PROVE  /\ bhead[b] # NULL
                      /\ \A m \in Nodes : IsDummy(m, b) => m = n
                      /\ b = 0
    BY DEF Dummies
  <2>1. \A m \in Nodes : IsDummy(m, b) => m = 2 /\ b = 0
    BY Constants DEF Init, ListInit, Item, IsDummy
  <2>2. QED
    BY <2>1, Constants DEF Init
<1>5. Segments
  BY Constants DEF Init, ListInit, Segments
<1>6. QED
  BY <1>1, <1>2, <1>3, <1>4, <1>5 DEF IInv

-----------------------------------------------------------------------------
\* Type correctness.  Links, locals and calls with one field replaced.
LEMMA LinkFields ==
  /\ \A l \in Links : l.to \in Pointers /\ l.marked \in BOOLEAN
  /\ \A l \in Links : [l EXCEPT !.marked = TRUE] \in Links
  /\ \A n \in Pointers : \A b \in BOOLEAN : Link(n, b) \in Links
  /\ Nil \in Links
  BY DEF Links, Link, Pointers, Nil

LEMMA LocalFields ==
  ASSUME NEW r \in Locals
  PROVE  /\ r.start \in Pointers /\ r.prev \in Pointers
         /\ r.curr \in Links /\ r.nxt \in Links
         /\ \A l \in Links : [r EXCEPT !.curr = l] \in Locals
         /\ \A l \in Links : [r EXCEPT !.nxt = l] \in Locals
         /\ \A n \in Pointers : [r EXCEPT !.prev = n] \in Locals
  BY DEF Locals

LEMMA CallFields ==
  ASSUME NEW r \in Calls
  PROVE  /\ r.bucket \in Buckets /\ r.making \in Buckets
         /\ r.parent \in Pointers /\ r.path \in Seq(Buckets)
         /\ r.old \in 0 .. MaxSegment /\ r.key \in Keys \cup {0}
         /\ \A n \in Pointers : [r EXCEPT !.parent = n] \in Calls
         /\ \A b \in Buckets : [r EXCEPT !.making = b] \in Calls
         /\ \A s \in 0 .. MaxSegment : [r EXCEPT !.old = s] \in Calls
         /\ \A s \in Seq(Buckets) : [r EXCEPT !.path = s] \in Calls
         /\ [r EXCEPT !.aim = "insert"] \in Calls
         /\ \A s \in Seq(Buckets), b \in Buckets :
              [r EXCEPT !.path = s, !.bucket = b, !.making = 0, !.parent = NULL]
                \in Calls
  BY Constants DEF Calls, Pointers

\* The steps of the search write to the links of existing nodes only, and
\* what they write has been read from one.
LEMMA SearchType ==
  ASSUME IInv, NEW p \in Threads, SearchStep(p)
  PROVE  TypeOK'
<1>1. /\ next \in [Nodes -> Links]
      /\ pc \in [Threads -> Pcs]
      /\ local \in [Threads -> Locals]
      /\ local[p] \in Locals
  BY DEF IInv, TypeOK
<1>2. UNCHANGED <<item, used, segs, current, bhead, call>>
  BY DEF SearchStep, Search, SearchLoad, SearchChanged, SearchProtect, Help,
         Unlink, SearchAgain, Recheck, Examine, listVars, tableVars
<1>3. pc' \in [Threads -> Pcs]
  BY <1>1 DEF SearchStep, Search, SearchLoad, SearchChanged, SearchProtect, Help,
         Unlink, SearchAgain, Recheck, Examine, Goto, Pcs, MakerPcs, SearchPcs
<1>4. SUFFICES next' \in [Nodes -> Links] /\ local' \in [Threads -> Locals]
  BY <1>2, <1>3 DEF IInv, TypeOK
<1>5. pc[p] \in SearchPcs => local[p].prev \in Nodes /\ local[p].start \in Nodes
  BY <1>1, LocalFields DEF IInv, Followed, Pointers
<1>6. CASE SearchLoad(p)
  <2>1. next[local[p].prev] \in Links
    BY <1>1, <1>5, <1>6 DEF SearchLoad, Goto, SearchPcs
  <2>2. [local[p] EXCEPT !.curr = next[local[p].prev]] \in Locals
    BY <1>1, <2>1, LocalFields
  <2>3. QED
    BY <1>1, <1>6, <2>2 DEF SearchLoad, listVars
<1>7. CASE SearchChanged(p)
  <2>1. [local[p] EXCEPT !.prev = First] \in Locals
    BY <1>1, LocalFields, Constants DEF First, Pointers
  <2>2. QED
    BY <1>1, <1>7, <2>1 DEF SearchChanged, listVars
<1>8. CASE SearchProtect(p) \/ Recheck(p)
  BY <1>1, <1>8 DEF SearchProtect, Recheck, listVars
<1>9. CASE Help(p)
  <2> DEFINE n == IF local[p].curr.to = NULL THEN Nil ELSE next[local[p].curr.to]
  <2>1. n \in Links
    BY <1>1, LinkFields, LocalFields DEF Pointers
  <2>2. [local[p] EXCEPT !.nxt = n] \in Locals
    BY <1>1, <2>1, LocalFields
  <2>3. QED
    BY <1>1, <1>9, <2>2 DEF Help, listVars
<1>10. CASE Unlink(p)
  <2>1. local[p].nxt \in Links
    BY <1>1, LocalFields
  <2>2. [local[p] EXCEPT !.curr = local[p].nxt] \in Locals
    BY <1>1, <2>1, LocalFields
  <2>3. QED
    BY <1>1, <1>10, <2>1, <2>2 DEF Unlink
<1>11. CASE SearchAgain(p)
  <2>1. [local[p] EXCEPT !.prev = local[p].start] \in Locals
    BY <1>1, LocalFields
  <2>2. QED
    BY <1>1, <1>11, <2>1 DEF SearchAgain, listVars
<1>12. CASE Examine(p)
  <2>1. [local[p] EXCEPT !.prev = local[p].curr.to] \in Locals
    BY <1>1, LocalFields, LinkFields
  <2>2. QED
    BY <1>1, <1>12, <2>1 DEF Examine, listVars
<1>13. QED
  BY <1>6, <1>7, <1>8, <1>9, <1>10, <1>11, <1>12 DEF SearchStep, Search

\* Insertion and removal: the CAS of an insertion makes a node of the types of
\* the call, and all that is linked is what was there or the new node.
LEMMA LinkType ==
  ASSUME IInv, NEW p \in Threads,
         LoadLink(p) \/ LinkNode(p) \/ LoadRemoved(p) \/ MarkRemoved(p)
  PROVE  TypeOK'
<1>1. /\ next \in [Nodes -> Links]
      /\ item \in [Nodes -> [rank : Ranks, key : Buckets \cup Keys, dummy : BOOLEAN]]
      /\ used \in 3 .. MaxNodes
      /\ pc \in [Threads -> Pcs]
      /\ local \in [Threads -> Locals]
      /\ local[p] \in Locals
      /\ call[p] \in Calls
  BY DEF IInv, TypeOK
<1>2. UNCHANGED <<segs, current, bhead, call>>
  BY DEF LoadLink, LinkNode, LoadRemoved, MarkRemoved, tableVars
<1>3. pc' \in [Threads -> Pcs]
  BY <1>1 DEF LoadLink, LinkNode, LoadRemoved, MarkRemoved, InsertLoad, InsertLink,
         RemoveLoad, RemoveMark, Goto, Pcs, MakerPcs
<1>4. SUFFICES /\ next' \in [Nodes -> Links]
               /\ local' \in [Threads -> Locals]
               /\ item' \in [Nodes -> [rank : Ranks, key : Buckets \cup Keys,
                                       dummy : BOOLEAN]]
               /\ used' \in 3 .. MaxNodes
  BY <1>2, <1>3 DEF IInv, TypeOK
<1>5. local[p].prev # NULL
  BY DEF IInv, Followed, LoadLink, LinkNode, LoadRemoved, MarkRemoved, InsertLoad,
         InsertLink, RemoveLoad, RemoveMark, Goto, SearchPcs
<1>6. local[p].prev \in Nodes
  BY <1>1, <1>5, LocalFields DEF Pointers
<1>7. CASE LoadLink(p) \/ LoadRemoved(p)
  <2>1. [local[p] EXCEPT !.nxt = next[local[p].prev]] \in Locals
    BY <1>1, <1>6, LocalFields
  <2>2. QED
    BY <1>1, <1>7, <2>1 DEF LoadLink, LoadRemoved, InsertLoad, RemoveLoad, listVars
<1>8. CASE LinkNode(p)
  <2>1. used \in Nodes /\ used' \in 3 .. MaxNodes
    BY <1>1, <1>8, Constants DEF LinkNode, InsertLink
  <2>2. Link(used, FALSE) \in Links
    BY <2>1, LinkFields DEF Pointers
  <2>3. [local[p] EXCEPT !.curr = Link(used, FALSE)] \in Locals
    BY <1>1, <2>2, LocalFields
  <2>4. call[p].making \in Buckets /\ (call[p].making # 0 \/ call[p].key \in Keys)
    BY <1>1, <1>8, CallFields DEF LinkNode, InsertLink, Goto, IInv, Followed
  <2> DEFINE new == IF call[p].making # 0
                    THEN Item(LowRank[call[p].making], call[p].making, TRUE)
                    ELSE Item(HighRank[call[p].key], call[p].key, FALSE)
  <2>5. new \in [rank : Ranks, key : Buckets \cup Keys, dummy : BOOLEAN]
    BY <2>4, Constants DEF Item
  <2>6. local[p].nxt \in Links
    BY <1>1, LocalFields
  <2>7. /\ item' = [item EXCEPT ![used] = new]
        /\ next' = [next EXCEPT ![used] = local[p].nxt,
                                ![local[p].prev] = Link(used, FALSE)]
        /\ local' = [local EXCEPT ![p].curr = Link(used, FALSE)]
    BY <1>8 DEF LinkNode, InsertLink
  <2> HIDE DEF new
  <2>8. QED
    BY <1>1, <2>1, <2>2, <2>3, <2>5, <2>6, <2>7
<1>9. CASE MarkRemoved(p)
  <2>1. [next[local[p].prev] EXCEPT !.marked = TRUE] \in Links
    BY <1>1, <1>6, LinkFields
  <2>2. QED
    BY <1>1, <1>9, <2>1 DEF MarkRemoved, RemoveMark
<1>10. QED
  BY <1>7, <1>8, <1>9

\* What begins a search: a node to start from.
LEMMA BeginType ==
  ASSUME NEW n \in Pointers, NEW goal \in Ranks, NEW strict \in BOOLEAN
  PROVE  [NoLocal EXCEPT !.start = n, !.prev = n, !.goal = goal,
                         !.strict = strict] \in Locals
  BY Starts DEF Locals

\* The way down from a bucket that exists: a part of a lineage.
LEMMA PathType ==
  ASSUME IInv, NEW p \in Threads, FindPath(p)
  PROVE  \E path \in Seq(Buckets) :
           call' = [call EXCEPT ![p].path = path]
<1> DEFINE lineage == Lineage[GlobalIndex(call[p].key, current)]
<1>1. call[p].key \in Keys
  BY DEF IInv, Followed, FindPath, Goto
<1>2. current \in 0 .. MaxSegment
  BY DEF IInv, TypeOK
<1>3. lineage \in Seq(Buckets)
  BY <1>1, <1>2, IndexArithmetic
<1>4. PICK from \in DOMAIN lineage :
        call' = [call EXCEPT ![p].path = SubSeq(lineage, from, Len(lineage))]
  BY DEF FindPath
<1> HIDE DEF lineage
<1>5. from \in 1 .. Len(lineage) /\ Len(lineage) \in Nat
  BY <1>3
<1>6. \A i \in from .. Len(lineage) : lineage[i] \in Buckets
  BY <1>3, <1>5
<1>7. SubSeq(lineage, from, Len(lineage)) \in Seq(Buckets)
  BY <1>3, <1>5, <1>6, SubSeqProperties
<1>8. QED
  BY <1>4, <1>7

\* The steps of the table link nothing: they go on with a call, and write to
\* the segments and the buckets.
TableStep(p) ==
  \/ Insert(p) \/ FindOrRemove(p) \/ Return(p)
  \/ LoadCurrent(p) \/ CheckFactor(p) \/ Grow(p) \/ Publish(p)
  \/ FindPath(p) \/ PassBucket(p) \/ MissBucket(p) \/ ClaimBucket(p)
  \/ SearchDummy(p) \/ StoreHead(p) \/ SearchKey(p)
  \/ FindEnds(p) \/ InsertRefused(p) \/ InsertGoesOn(p)
  \/ RemoveRefused(p) \/ RemoveClaims(p)
  \/ LinkFails(p) \/ CountDummy(p) \/ CountKey(p)
  \/ MarkFails(p) \/ CountRemoved(p)

LEMMA TableType ==
  ASSUME IInv, NEW p \in Threads, TableStep(p)
  PROVE  TypeOK'
<1> USE DEF listVars, tableVars
<1>1. /\ pc \in [Threads -> Pcs]
      /\ local \in [Threads -> Locals]
      /\ local[p] \in Locals
      /\ call \in [Threads -> Calls]
      /\ call[p] \in Calls
      /\ bhead \in [Buckets -> Pointers]
      /\ segs \subseteq 0 .. MaxSegment
      /\ current \in 0 .. MaxSegment
  BY DEF IInv, TypeOK
<1>2. UNCHANGED <<next, item, used>>
  BY DEF TableStep, Insert, FindOrRemove, Return, LoadCurrent, CheckFactor, Grow,
         Publish, FindPath, PassBucket, MissBucket, ClaimBucket, SearchDummy,
         StoreHead, SearchKey, BeginSearch, FindEnds, InsertRefused, InsertGoesOn,
         RemoveRefused, RemoveClaims, LinkFails, CountDummy, CountKey, Count,
         MarkFails, CountRemoved
<1>3. pc' \in [Threads -> Pcs]
  BY <1>1
     DEF TableStep, Insert, FindOrRemove, Return, LoadCurrent, CheckFactor, Grow,
         Publish, FindPath, PassBucket, MissBucket, ClaimBucket, SearchDummy,
         StoreHead, SearchKey, BeginSearch, FindEnds, InsertRefused, InsertGoesOn,
         RemoveRefused, RemoveClaims, LinkFails, CountDummy, CountKey, Count,
         MarkFails, CountRemoved, Finish, Goto, Pcs, MakerPcs, SearchPcs
<1>4. local' \in [Threads -> Locals]
  <2>1. CASE SearchDummy(p)
    <3>1. call[p].parent \in Pointers /\ LowRank[call[p].making] \in Ranks
      BY <1>1, CallFields, Constants
    <3>2. QED
      BY <1>1, <2>1, <3>1, BeginType DEF SearchDummy, BeginSearch
  <2>2. CASE SearchKey(p)
    <3>1. bhead[call[p].bucket] \in Pointers /\ call[p].key \in Keys
      BY <1>1, <2>2, CallFields DEF IInv, Followed, SearchKey, BeginSearch, Goto
    <3>2. LowRank[call[p].key] \in Ranks /\ HighRank[call[p].key] \in Ranks
      BY <3>1, Constants
    <3>3. QED
      BY <1>1, <2>2, <3>1, <3>2, BeginType DEF SearchKey, BeginSearch
  <2>3. CASE Return(p)
    BY <1>1, <2>3, Starts DEF Return
  <2>4. CASE ~ (SearchDummy(p) \/ SearchKey(p) \/ Return(p))
    <3>1. local' = local
      BY <2>4
         DEF TableStep, Insert, FindOrRemove, LoadCurrent, CheckFactor, Grow,
             Publish, FindPath, PassBucket, MissBucket, ClaimBucket, StoreHead,
             FindEnds, InsertRefused, InsertGoesOn, RemoveRefused, RemoveClaims,
             LinkFails, CountDummy, CountKey, Count, MarkFails, CountRemoved
    <3>2. QED
      BY <1>1, <3>1
  <2>5. QED
    BY <2>1, <2>2, <2>3, <2>4
<1>5. call' \in [Threads -> Calls]
  <2>1. CASE Insert(p)
    <3>1. PICK k \in Keys : call' = [call EXCEPT ![p] =
            [NoCall EXCEPT !.op = "insert", !.key = k, !.aim = "find"]]
      BY <2>1 DEF Insert
    <3>2. [NoCall EXCEPT !.op = "insert", !.key = k, !.aim = "find"] \in Calls
      BY Starts DEF Calls
    <3>3. QED
      BY <1>1, <3>1, <3>2
  <2>2. CASE FindOrRemove(p)
    <3>1. PICK o \in Does[p] \ {"insert"}, k \in Keys : call' = [call EXCEPT ![p] =
            [NoCall EXCEPT !.op = o, !.key = k, !.aim = o]]
      BY <2>2 DEF FindOrRemove
    <3>2. o \in {"find", "remove"}
      BY <3>1, TableAssumption
    <3>3. [NoCall EXCEPT !.op = o, !.key = k, !.aim = o] \in Calls
      BY <3>2, Starts DEF Calls
    <3>4. QED
      BY <1>1, <3>1, <3>3
  <2>3. CASE Return(p)
    BY <1>1, <2>3, Starts DEF Return
  <2>4. CASE LoadCurrent(p)
    <3>1. [call[p] EXCEPT !.old = current] \in Calls
      BY <1>1, CallFields
    <3>2. QED
      BY <1>1, <2>4, <3>1 DEF LoadCurrent
  <2>5. CASE FindPath(p)
    <3>1. PICK path \in Seq(Buckets) : call' = [call EXCEPT ![p].path = path]
      BY <2>5, PathType
    <3>2. [call[p] EXCEPT !.path = path] \in Calls
      BY <1>1, CallFields
    <3>3. QED
      BY <1>1, <3>1, <3>2
  <2>6. ASSUME NEW b \in Buckets, call[p].path # <<>>, Passed(p, b)
        PROVE  call' \in [Threads -> Calls]
    <3>1. Tail(call[p].path) \in Seq(Buckets)
      BY <1>1, <2>6, CallFields, HeadTailProperties
    <3>2. [call[p] EXCEPT !.path = Tail(call[p].path), !.bucket = b, !.making = 0,
                          !.parent = NULL] \in Calls
      BY <1>1, <3>1, CallFields
    <3>3. QED
      BY <1>1, <2>6, <3>2 DEF Passed
  <2>7. CASE PassBucket(p) \/ ClaimBucket(p)
    <3>1. call[p].path # <<>>
      BY <2>7 DEF PassBucket, ClaimBucket, IInv, Followed
    <3>2. Head(call[p].path) \in Buckets /\ call[p].bucket \in Buckets
      BY <1>1, <3>1, CallFields, HeadTailProperties
    <3>3. [call[p] EXCEPT !.making = Head(call[p].path)] \in Calls
      BY <1>1, <3>2, CallFields
    <3>4. QED
      BY <1>1, <2>6, <2>7, <3>1, <3>2, <3>3 DEF PassBucket, ClaimBucket
  <2>8. CASE MissBucket(p)
    <3>1. [call[p] EXCEPT !.parent = bhead[call[p].bucket]] \in Calls
      BY <1>1, CallFields
    <3>2. QED
      BY <1>1, <2>8, <3>1 DEF MissBucket
  <2>9. CASE StoreHead(p)
    <3>1. call[p].making # 0 /\ call[p].path # <<>> /\ call[p].making \in Buckets
      BY <1>1, <2>9, CallFields DEF StoreHead, Goto, IInv, Makers
    <3>2. QED
      BY <2>6, <2>9, <3>1 DEF StoreHead
  <2>10. CASE InsertGoesOn(p)
    <3>1. [call[p] EXCEPT !.aim = "insert"] \in Calls
      BY <1>1, CallFields
    <3>2. QED
      BY <1>1, <2>10, <3>1 DEF InsertGoesOn
  <2>11. CASE \/ CheckFactor(p) \/ Grow(p) \/ Publish(p) \/ SearchDummy(p)
              \/ SearchKey(p) \/ FindEnds(p) \/ InsertRefused(p)
              \/ RemoveRefused(p) \/ RemoveClaims(p) \/ LinkFails(p)
              \/ CountDummy(p) \/ CountKey(p) \/ MarkFails(p) \/ CountRemoved(p)
    BY <1>1, <2>11
       DEF CheckFactor, Grow, Publish, SearchDummy, SearchKey, FindEnds,
           InsertRefused, RemoveRefused, RemoveClaims, LinkFails, CountDummy,
           CountKey, MarkFails, CountRemoved
  <2>12. QED
    BY <2>1, <2>2, <2>3, <2>4, <2>5, <2>7, <2>8, <2>9, <2>10, <2>11 DEF TableStep
<1>6. bhead' \in [Buckets -> Pointers]
  <2>1. call[p].parent \in Pointers /\ local[p].curr.to \in Pointers
    BY <1>1, CallFields, LocalFields, LinkFields
  <2>2. QED
    BY <1>1, <2>1
       DEF TableStep, Insert, FindOrRemove, Return, LoadCurrent, CheckFactor, Grow,
           Publish, FindPath, PassBucket, MissBucket, ClaimBucket, SearchDummy,
           StoreHead, SearchKey, FindEnds, InsertRefused, InsertGoesOn,
           RemoveRefused, RemoveClaims, LinkFails, CountDummy, CountKey,
           MarkFails, CountRemoved
<1>7. segs' \subseteq 0 .. MaxSegment /\ current' \in 0 .. MaxSegment
  <2>1. CASE Grow(p) \/ Publish(p)
    <3>1. call[p].old \in 0 .. MaxSegment /\ call[p].old < MaxSegment
      BY <1>1, <2>1, CallFields DEF Grow, Publish, Goto, IInv, Segments
    <3>2. call[p].old + 1 \in 0 .. MaxSegment
      BY <3>1, Constants
    <3>3. QED
      BY <1>1, <2>1, <3>2 DEF Grow, Publish
  <2>2. CASE ~ (Grow(p) \/ Publish(p))
    <3>1. UNCHANGED <<segs, current>>
      BY <2>2
         DEF TableStep, Insert, FindOrRemove, Return, LoadCurrent, CheckFactor,
             FindPath, PassBucket, MissBucket, ClaimBucket, SearchDummy, StoreHead,
             SearchKey, FindEnds, InsertRefused, InsertGoesOn, RemoveRefused,
             RemoveClaims, LinkFails, CountDummy, CountKey, MarkFails, CountRemoved
    <3>2. QED
      BY <1>1, <3>1
  <2>3. QED
    BY <2>1, <2>2
<1>8. QED
  BY <1>2, <1>3, <1>4, <1>5, <1>6, <1>7 DEF IInv, TypeOK

-----------------------------------------------------------------------------
\* A step of one thread leaves the variables of the others alone, and takes no
\* bucket, segment or node away.
ListStep(p) ==
  \/ SearchStep(p) \/ LoadLink(p) \/ LinkNode(p)
  \/ LoadRemoved(p) \/ MarkRemoved(p)

LEMMA Steps ==
  ASSUME Next
  PROVE  \E p \in Threads : TableStep(p) \/ ListStep(p)
  BY DEF Next, Step, TableStep, ListStep

LEMMA Others ==
  ASSUME IInv, NEW p \in Threads, TableStep(p) \/ ListStep(p)
  PROVE  \A q \in Threads \ {p} :
           pc'[q] = pc[q] /\ call'[q] = call[q] /\ local'[q] = local[q]
<1>1. /\ pc \in [Threads -> Pcs]
      /\ local \in [Threads -> Locals]
      /\ call \in [Threads -> Calls]
  BY DEF IInv, TypeOK
<1> USE <1>1 DEF Goto, Finish, Passed, BeginSearch, Count, listVars, tableVars
<1>2. CASE ListStep(p)
  BY <1>2
     DEF ListStep, SearchStep, Search, SearchLoad, SearchChanged, SearchProtect,
         Help, Unlink, SearchAgain, Recheck, Examine, LoadLink, InsertLoad,
         LinkNode, InsertLink, LoadRemoved, RemoveLoad, MarkRemoved, RemoveMark
<1>3. CASE TableStep(p)
  BY <1>3
     DEF TableStep, Insert, FindOrRemove, Return, LoadCurrent, CheckFactor, Grow,
         Publish, FindPath, PassBucket, MissBucket, ClaimBucket, SearchDummy,
         StoreHead, SearchKey, FindEnds, InsertRefused, InsertGoesOn,
         RemoveRefused, RemoveClaims, LinkFails, CountDummy, CountKey,
         MarkFails, CountRemoved
<1>4. QED
  BY <1>2, <1>3

LEMMA Lasting ==
  ASSUME IInv, NEW p \in Threads, TableStep(p) \/ ListStep(p)
  PROVE  /\ \A b \in Buckets : bhead[b] # NULL => bhead'[b] # NULL
         /\ segs \subseteq segs'
<1>1. bhead \in [Buckets -> Pointers]
  BY DEF IInv, TypeOK
<1>2. CASE ListStep(p)
  BY <1>2
     DEF ListStep, SearchStep, LoadLink, LinkNode, LoadRemoved, MarkRemoved,
         tableVars
<1>3. CASE ClaimBucket(p)
  BY <1>1, <1>3 DEF ClaimBucket, ClaimWins
<1>4. CASE StoreHead(p)
  BY <1>1, <1>4 DEF StoreHead, Goto, IInv, Followed
<1>5. CASE TableStep(p) /\ ~ ClaimBucket(p) /\ ~ StoreHead(p)
  BY <1>5
     DEF TableStep, Insert, FindOrRemove, Return, LoadCurrent, CheckFactor, Grow,
         Publish, FindPath, PassBucket, MissBucket, SearchDummy, SearchKey,
         FindEnds, InsertRefused, InsertGoesOn, RemoveRefused, RemoveClaims,
         LinkFails, CountDummy, CountKey, MarkFails, CountRemoved, tableVars
<1>6. QED
  BY <1>2, <1>3, <1>4, <1>5

\* The segments: the one thread that puts a segment into the array publishes
\* it, and has seen the one before published.
LEMMA StepSegments ==
  ASSUME IInv, NEW p \in Threads, TableStep(p) \/ ListStep(p)
  PROVE  Segments'
<1> USE DEF tableVars
<1>1. /\ pc \in [Threads -> Pcs]
      /\ call \in [Threads -> Calls]
      /\ call[p] \in Calls
      /\ current \in 0 .. MaxSegment
      /\ call[p].old \in 0 .. MaxSegment
  BY CallFields DEF IInv, TypeOK
<1> DEFINE Safe(q) ==
      /\ pc[q] \in {"factor", "grow", "publish"} => 0 .. call[q].old \subseteq segs
      /\ pc[q] \in {"grow", "publish"} => call[q].old < MaxSegment
      /\ pc[q] = "publish" => call[q].old + 1 \in segs
<1>2. 0 .. current \subseteq segs /\ \A q \in Threads : Safe(q)
  BY DEF IInv, Segments
<1>3. \A q \in Threads \ {p} : Safe(q)'
  BY <1>2, Others, Lasting
<1>4. SUFFICES Safe(p)' /\ (0 .. current \subseteq segs)'
  BY <1>3 DEF Segments
<1>5. CASE LoadCurrent(p)
  <2>1. pc'[p] = "factor" /\ call'[p].old = current /\ segs' = segs /\ current' = current
    BY <1>1, <1>5 DEF LoadCurrent, Goto, Calls
  <2>2. QED
    BY <1>2, <2>1
<1>6. CASE CheckFactor(p)
  BY <1>1, <1>2, <1>6 DEF CheckFactor, Goto
<1>7. CASE Grow(p)
  <2>1. /\ pc[p] = "grow"
        /\ pc'[p] \in {"path", "publish"}
        /\ call'[p] = call[p]
        /\ segs' = segs \cup {call[p].old + 1}
        /\ current' = current
    BY <1>1, <1>7 DEF Grow, Goto
  <2>2. QED
    BY <1>2, <2>1
<1>8. CASE Publish(p)
  <2>1. /\ pc[p] = "publish"
        /\ pc'[p] = "path"
        /\ segs' = segs
        /\ current' = call[p].old + 1
    BY <1>1, <1>8 DEF Publish, Goto
  <2>2. 0 .. call[p].old + 1 = 0 .. call[p].old \cup {call[p].old + 1}
    BY <1>1, Constants
  <2>3. QED
    BY <1>2, <2>1, <2>2
<1>9. CASE \/ ListStep(p)
           \/ TableStep(p) /\ ~ (LoadCurrent(p) \/ CheckFactor(p) \/ Grow(p)
                                 \/ Publish(p))
  <2>1. pc'[p] \notin {"factor", "grow", "publish"}
    BY <1>1, <1>9
       DEF ListStep, SearchStep, Search, SearchLoad, SearchChanged, SearchProtect,
           Help, Unlink, SearchAgain, Recheck, Examine, LoadLink, InsertLoad,
           LinkNode, InsertLink, LoadRemoved, RemoveLoad, MarkRemoved, RemoveMark,
           TableStep, Insert, FindOrRemove, Return, FindPath, PassBucket,
           MissBucket, ClaimBucket, SearchDummy, StoreHead, SearchKey,
           BeginSearch, FindEnds, InsertRefused, InsertGoesOn, RemoveRefused,
           RemoveClaims, LinkFails, CountDummy, CountKey, Count, MarkFails,
           CountRemoved, Finish, Goto
  <2>2. UNCHANGED <<segs, current>>
    BY <1>9
       DEF ListStep, SearchStep, LoadLink, LinkNode, LoadRemoved, MarkRemoved,
           TableStep, Insert, FindOrRemove, Return, FindPath, PassBucket,
           MissBucket, ClaimBucket, SearchDummy, StoreHead, SearchKey, FindEnds,
           InsertRefused, InsertGoesOn, RemoveRefused, RemoveClaims, LinkFails,
           CountDummy, CountKey, MarkFails, CountRemoved
  <2>3. QED
    BY <1>2, <2>1, <2>2
<1>10. QED
  BY <1>5, <1>6, <1>7, <1>8, <1>9

-----------------------------------------------------------------------------
\* Who is making which bucket.  Begin: the steps after which a thread makes
\* none.
Begin(p) ==
  \/ Insert(p) \/ FindOrRemove(p) \/ Return(p) \/ PassBucket(p) \/ StoreHead(p)
  \/ ClaimBucket(p) /\ ~ ClaimWins(Head(call[p].path))

LEMMA MakesNone ==
  ASSUME IInv, NEW p \in Threads, Begin(p)
  PROVE  call'[p].making = 0 /\ pc'[p] \notin {"making", "store"}
<1>1. /\ pc \in [Threads -> Pcs]
      /\ call \in [Threads -> Calls]
      /\ call[p] \in Calls
  BY DEF IInv, TypeOK
<1>2. CASE Insert(p)
  BY <1>1, <1>2 DEF Insert, Goto, NoCall
<1>3. CASE FindOrRemove(p)
  BY <1>1, <1>3 DEF FindOrRemove, Goto, NoCall
<1>4. CASE Return(p)
  BY <1>1, <1>4 DEF Return, Goto, NoCall
<1>5. CASE PassBucket(p)
  BY <1>1, <1>5 DEF PassBucket, Passed, Calls
<1>6. CASE StoreHead(p)
  BY <1>1, <1>6 DEF StoreHead, Passed, Goto, Calls
<1>7. CASE ClaimBucket(p) /\ ~ ClaimWins(Head(call[p].path))
  BY <1>1, <1>7 DEF ClaimBucket, Passed, Goto, Calls
<1>8. QED
  BY <1>2, <1>3, <1>4, <1>5, <1>6, <1>7 DEF Begin

\* The winner of a slot: it makes a bucket nobody makes, and not bucket 0.
LEMMA Claims ==
  ASSUME IInv, NEW p \in Threads, ClaimBucket(p), ClaimWins(Head(call[p].path))
  PROVE  LET b == Head(call[p].path) IN
         /\ b \in Buckets /\ b # 0 /\ bhead[b] = NULL
         /\ bhead' = [bhead EXCEPT ![b] = call[p].parent]
         /\ bhead'[b] # NULL
         /\ call'[p] = [call[p] EXCEPT !.making = b]
         /\ call'[p].path = call[p].path /\ call'[p].parent = call[p].parent
         /\ call'[p].bucket = call[p].bucket /\ call'[p].making = b
         /\ call[p].path # <<>> /\ call[p].parent # NULL
         /\ pc'[p] = "making"
         /\ \A q \in Threads : call[q].making # b
<1> DEFINE b == Head(call[p].path)
<1>1. /\ pc \in [Threads -> Pcs]
      /\ call \in [Threads -> Calls]
      /\ call[p] \in Calls
      /\ bhead \in [Buckets -> Pointers]
  BY DEF IInv, TypeOK
<1>2. call[p].path # <<>> /\ call[p].parent # NULL
  BY DEF ClaimBucket, IInv, Followed
<1>3. b \in Buckets
  BY <1>1, <1>2, CallFields, HeadTailProperties
<1>4. bhead[b] = NULL
  BY DEF ClaimWins
<1>5. b # 0
  BY <1>4 DEF IInv, Followed
<1>6. /\ bhead' = [bhead EXCEPT ![b] = call[p].parent]
      /\ call' = [call EXCEPT ![p].making = b]
      /\ pc'[p] = "making"
  BY <1>1 DEF ClaimBucket, Goto
<1>7. \A q \in Threads : call[q].making # b
  BY <1>4, <1>5 DEF IInv, Makers
<1> HIDE DEF b
<1>8. call'[p] = [call[p] EXCEPT !.making = b]
  BY <1>1, <1>6
<1>9. /\ call'[p].path = call[p].path /\ call'[p].parent = call[p].parent
      /\ call'[p].bucket = call[p].bucket /\ call'[p].making = b
  BY <1>1, <1>8 DEF Calls
<1>10. bhead'[b] # NULL
  BY <1>1, <1>2, <1>3, <1>6
<1>11. QED
  BY <1>2, <1>3, <1>4, <1>5, <1>6, <1>7, <1>8, <1>9, <1>10 DEF b

\* In all other steps a thread goes on with the bucket it makes, or with none,
\* and what it makes is brought to an end before anything else.
Onward(p) ==
  \/ ListStep(p)
  \/ TableStep(p) /\ ~ Begin(p) /\ ~ ClaimBucket(p)

LEMMA GoesOn ==
  ASSUME IInv, NEW p \in Threads, Onward(p)
  PROVE  /\ call'[p].making = call[p].making
         /\ call'[p].bucket = call[p].bucket
         /\ call'[p].key = call[p].key
         /\ call[p].making # 0 =>
              /\ call'[p] = call[p]
              /\ pc'[p] \in MakerPcs
              /\ pc[p] \in {"count", "store"} => pc'[p] \in {"count", "store"}
         /\ pc'[p] \in {"making", "store"} => call[p].making # 0
<1>1. /\ pc \in [Threads -> Pcs]
      /\ call \in [Threads -> Calls]
      /\ call[p] \in Calls
  BY DEF IInv, TypeOK
<1>2. call[p].making # 0 => pc[p] \in MakerPcs
  BY DEF IInv, Makers
<1>3. CASE ListStep(p)
  <2>1. call' = call
    BY <1>3 DEF ListStep, SearchStep, LoadLink, LinkNode, LoadRemoved, MarkRemoved
  <2>2. CASE LoadRemoved(p) \/ MarkRemoved(p)
    BY <1>1, <1>2, <2>1, <2>2
       DEF LoadRemoved, RemoveLoad, MarkRemoved, RemoveMark, Goto, MakerPcs,
           SearchPcs
  <2>3. CASE SearchStep(p) \/ LoadLink(p) \/ LinkNode(p)
    <3>1. /\ pc'[p] \in SearchPcs \cup {"cas", "count"}
          /\ pc[p] \in SearchPcs \cup {"cas"}
      BY <1>1, <2>3
         DEF SearchStep, Search, SearchLoad, SearchChanged, SearchProtect, Help,
             Unlink, SearchAgain, Recheck, Examine, LoadLink, InsertLoad,
             LinkNode, InsertLink, Goto, SearchPcs
    <3>2. QED
      BY <2>1, <3>1 DEF SearchPcs, MakerPcs
  <2>4. QED
    BY <1>3, <2>2, <2>3 DEF ListStep
<1>4. CASE SearchDummy(p) \/ LinkFails(p) \/ CountDummy(p) \/ CountKey(p)
  <2>1. call' = call
    BY <1>4 DEF SearchDummy, LinkFails, CountDummy, CountKey
  <2>2. QED
    BY <1>1, <1>2, <1>4, <2>1
       DEF SearchDummy, BeginSearch, LinkFails, CountDummy, CountKey, Count,
           Finish, Goto, MakerPcs, SearchPcs, IInv, Makers
<1>5. CASE \/ FindEnds(p) \/ InsertRefused(p) \/ InsertGoesOn(p)
           \/ RemoveRefused(p) \/ RemoveClaims(p)
  <2>1. call[p].making = 0 /\ pc'[p] \in {"done", "path", "removing"}
    BY <1>1, <1>5
       DEF FindEnds, InsertRefused, InsertGoesOn, RemoveRefused, RemoveClaims,
           Looked, Finish
  <2>2. /\ call'[p].making = call[p].making
        /\ call'[p].bucket = call[p].bucket
        /\ call'[p].key = call[p].key
    BY <1>1, <1>5
       DEF FindEnds, InsertRefused, InsertGoesOn, RemoveRefused, RemoveClaims,
           Calls
  <2>3. QED
    BY <2>1, <2>2
<1>6. CASE FindPath(p)
  <2>1. PICK path \in Seq(Buckets) : call' = [call EXCEPT ![p].path = path]
    BY <1>6, PathType
  <2>2. /\ call'[p].making = call[p].making
        /\ call'[p].bucket = call[p].bucket
        /\ call'[p].key = call[p].key
    BY <1>1, <2>1 DEF Calls
  <2>3. call[p].making = 0 /\ pc'[p] = "bucket"
    BY <1>1, <1>2, <1>6 DEF FindPath, Goto, MakerPcs, SearchPcs
  <2>4. QED
    BY <2>2, <2>3
<1>7. CASE \/ LoadCurrent(p) \/ CheckFactor(p) \/ Grow(p) \/ Publish(p)
           \/ MissBucket(p) \/ SearchKey(p) \/ MarkFails(p) \/ CountRemoved(p)
  <2>1. /\ call[p].making = 0
        /\ pc'[p] \notin {"making", "store"}
    BY <1>1, <1>2, <1>7
       DEF LoadCurrent, CheckFactor, Grow, Publish, MissBucket, SearchKey,
           BeginSearch, MarkFails, CountRemoved, Count, Finish, Goto, MakerPcs,
           SearchPcs
  <2>2. /\ call'[p].making = call[p].making
        /\ call'[p].bucket = call[p].bucket
        /\ call'[p].key = call[p].key
    BY <1>1, <1>7
       DEF LoadCurrent, CheckFactor, Grow, Publish, MissBucket, SearchKey,
           MarkFails, CountRemoved, Calls
  <2>3. QED
    BY <2>1, <2>2
<1>8. QED
  BY <1>3, <1>4, <1>5, <1>6, <1>7 DEF Onward, TableStep, Begin

LEMMA Cases ==
  ASSUME NEW p \in Threads, TableStep(p) \/ ListStep(p)
  PROVE  \/ Begin(p)
         \/ ClaimBucket(p) /\ ClaimWins(Head(call[p].path))
         \/ Onward(p)
  BY DEF Begin, Onward

LEMMA StepMakers ==
  ASSUME IInv, NEW p \in Threads, TableStep(p) \/ ListStep(p)
  PROVE  Makers'
<1> DEFINE Sole(q) ==
      /\ call[q].making # 0 =>
           /\ pc[q] \in MakerPcs
           /\ call[q].path # <<>> /\ call[q].parent # NULL
           /\ bhead[call[q].making] # NULL
      /\ pc[q] \in {"making", "store"} => call[q].making # 0
<1>1. \A q \in Threads : Sole(q)
  BY DEF IInv, Makers
<1>2. \A q, r \in Threads : call[q].making # 0 /\ call[r].making = call[q].making
                              => r = q
  BY DEF IInv, Makers
<1>3. \A q \in Threads : call[q].making \in Buckets
  BY CallFields DEF IInv, TypeOK
<1>4. \A q \in Threads \ {p} : Sole(q)'
  BY <1>1, <1>3, Others, Lasting
<1>5. CASE Begin(p)
  BY <1>1, <1>2, <1>4, <1>5, MakesNone, Others DEF Makers
<1>6. CASE ClaimBucket(p) /\ ClaimWins(Head(call[p].path))
  <2>1. Sole(p)'
    BY <1>6, Claims DEF MakerPcs
  <2>2. \A q \in Threads \ {p} : call'[q].making # call'[p].making
    <3> DEFINE b == Head(call[p].path)
    <3>1. call'[p].making = b /\ \A q \in Threads : call[q].making # b
      BY <1>6, Claims
    <3> HIDE DEF b
    <3>2. QED
      BY <3>1, Others
  <2>3. QED
    BY <1>2, <1>4, <2>1, <2>2, Others DEF Makers
<1>7. CASE Onward(p)
  <2>1. Sole(p)'
    BY <1>1, <1>3, <1>7, GoesOn, Lasting
  <2>2. \A q \in Threads : call'[q].making = call[q].making
    BY <1>7, GoesOn, Others
  <2>3. QED
    BY <1>2, <1>4, <2>1, <2>2 DEF Makers
<1>8. QED
  BY <1>5, <1>6, <1>7, Cases

-----------------------------------------------------------------------------
\* The dummies.  Only LinkNode puts a node into the list.
LEMMA NoNewNode ==
  ASSUME IInv, NEW p \in Threads, TableStep(p) \/ ListStep(p), ~ LinkNode(p)
  PROVE  UNCHANGED <<item, used>>
  BY DEF ListStep, SearchStep, Search, SearchLoad, SearchChanged, SearchProtect,
         Help, Unlink, SearchAgain, Recheck, Examine, LoadLink, InsertLoad,
         LoadRemoved, RemoveLoad, MarkRemoved, RemoveMark, TableStep, Insert,
         FindOrRemove, Return, LoadCurrent, CheckFactor, Grow, Publish, FindPath,
         PassBucket, MissBucket, ClaimBucket, SearchDummy, StoreHead, SearchKey,
         BeginSearch, FindEnds, InsertRefused, InsertGoesOn, RemoveRefused,
         RemoveClaims, LinkFails, CountDummy, CountKey, Count, MarkFails,
         CountRemoved, listVars

\* It is a dummy if the thread makes a bucket, which has none yet.
LEMMA NewNode ==
  ASSUME IInv, NEW p \in Threads, LinkNode(p)
  PROVE  /\ pc[p] = "cas" /\ pc'[p] = "count"
         /\ call' = call /\ bhead' = bhead
         /\ used \in Nodes /\ used' = used + 1
         /\ \A n \in Nodes \ {used} : item'[n] = item[n]
         /\ item'[used].dummy => /\ call[p].making # 0
                                 /\ item'[used].key = call[p].making
<1>1. /\ pc \in [Threads -> Pcs]
      /\ item \in [Nodes -> [rank : Ranks, key : Buckets \cup Keys, dummy : BOOLEAN]]
      /\ used \in 3 .. MaxNodes
  BY DEF IInv, TypeOK
<1>2. used \in Nodes
  BY <1>1, Constants DEF LinkNode, InsertLink
<1>3. item'[used] = IF call[p].making # 0
                    THEN Item(LowRank[call[p].making], call[p].making, TRUE)
                    ELSE Item(HighRank[call[p].key], call[p].key, FALSE)
  BY <1>1, <1>2 DEF LinkNode, InsertLink
<1>4. QED
  BY <1>1, <1>2, <1>3 DEF LinkNode, InsertLink, Goto, Item, tableVars

LEMMA StepDummies ==
  ASSUME IInv, NEW p \in Threads, TableStep(p) \/ ListStep(p)
  PROVE  Dummies'
<1> DEFINE Held(n, b) ==
      /\ bhead[b] # NULL
      /\ \A q \in Threads : call[q].making = b /\ b # 0
                              => pc[q] \in {"count", "store"}
<1>1. \A b \in Buckets, n \in Nodes : IsDummy(n, b) => Held(n, b)
  BY DEF IInv, Dummies
<1>2. \A b \in Buckets : \A n, m \in Nodes : IsDummy(n, b) /\ IsDummy(m, b) => m = n
  BY DEF IInv, Dummies
<1>3. used \in 3 .. MaxNodes /\ Nodes \subseteq Int
  BY Constants DEF IInv, TypeOK
<1>4. CASE LinkNode(p)
  <2>1. /\ \A b \in Buckets, n \in Nodes \ {used} : IsDummy(n, b)' <=> IsDummy(n, b)
        /\ \A b \in Buckets : ~ IsDummy(used, b)
        /\ \A b \in Buckets, n \in Nodes : n = used =>
             (IsDummy(n, b)' => b = call[p].making /\ b # 0)
    BY <1>3, <1>4, NewNode DEF IsDummy
  <2>2. \A b \in Buckets : b = call[p].making /\ b # 0
                             => \A n \in Nodes : ~ IsDummy(n, b)
    BY <1>1, <1>4, NewNode
  <2>3. \A b \in Buckets, n \in Nodes : IsDummy(n, b)' => Held(n, b)'
    <3> SUFFICES ASSUME NEW b \in Buckets, NEW n \in Nodes, IsDummy(n, b)'
                 PROVE  Held(n, b)'
      OBVIOUS
    <3>1. \A q \in Threads \ {p} : pc'[q] = pc[q]
      BY <1>4, Others DEF ListStep
    <3>2. call' = call /\ bhead' = bhead /\ pc'[p] = "count"
      BY <1>4, NewNode
    <3>3. CASE n = used
      <4>1. b = call[p].making /\ b # 0
        BY <2>1, <3>3
      <4>2. /\ bhead[call[p].making] # NULL
            /\ \A q \in Threads : call[q].making = call[p].making => q = p
        BY <4>1 DEF IInv, Makers
      <4>3. QED
        BY <3>2, <4>1, <4>2
    <3>4. CASE n # used
      <4>1. Held(n, b)
        BY <1>1, <2>1, <3>4
      <4>2. QED
        BY <3>1, <3>2, <4>1
    <3>5. QED
      BY <3>3, <3>4
  <2>4. \A b \in Buckets : \A n, m \in Nodes :
          IsDummy(n, b)' /\ IsDummy(m, b)' => m = n
    <3> SUFFICES ASSUME NEW b \in Buckets, NEW n \in Nodes, NEW m \in Nodes,
                        IsDummy(n, b)', IsDummy(m, b)'
                 PROVE  m = n
      OBVIOUS
    <3> HIDE DEF IsDummy
    <3>1. CASE b = call[p].making /\ b # 0
      BY <2>1, <2>2, <3>1
    <3>2. CASE ~ (b = call[p].making /\ b # 0)
      <4>1. n # used /\ m # used
        BY <2>1, <3>2
      <4>2. IsDummy(n, b) /\ IsDummy(m, b)
        BY <2>1, <4>1
      <4>3. QED
        BY <1>2, <4>2
    <3>3. QED
      BY <3>1, <3>2
  <2>5. QED
    BY <2>3, <2>4 DEF Dummies
<1>5. CASE ~ LinkNode(p)
  <2>1. \A b \in Buckets, n \in Nodes : IsDummy(n, b)' <=> IsDummy(n, b)
    BY <1>5, NoNewNode DEF IsDummy
  <2>2. ASSUME NEW b \in Buckets, NEW n \in Nodes, IsDummy(n, b)
        PROVE  Held(n, b)'
    <3>1. Held(n, b)
      BY <1>1, <2>2
    <3>2. bhead'[b] # NULL
      BY <3>1, Lasting
    <3>3. \A q \in Threads \ {p} : call'[q].making = b /\ b # 0
                                     => pc'[q] \in {"count", "store"}
      BY <3>1, Others
    <3>4. call'[p].making = b /\ b # 0 => pc'[p] \in {"count", "store"}
      <4>1. CASE Begin(p)
        BY <4>1, MakesNone
      <4>2. CASE ClaimBucket(p) /\ ClaimWins(Head(call[p].path))
        <5> DEFINE c == Head(call[p].path)
        <5>1. call'[p].making = c /\ bhead[c] = NULL
          BY <4>2, Claims
        <5> HIDE DEF c
        <5>2. QED
          BY <3>1, <5>1
      <4>3. CASE Onward(p)
        BY <3>1, <4>3, GoesOn
      <4>4. QED
        BY <4>1, <4>2, <4>3, Cases
    <3>5. QED
      BY <3>2, <3>3, <3>4
  <2>3. QED
    BY <1>2, <2>1, <2>2 DEF Dummies
<1>6. QED
  BY <1>4, <1>5

-----------------------------------------------------------------------------
\* The pointers.  A thread's bucket in hand has a head, at whatever step.
LEMMA StepHand ==
  ASSUME IInv, NEW p \in Threads, TableStep(p) \/ ListStep(p)
  PROVE  bhead'[call'[p].bucket] # NULL
<1>1. /\ pc \in [Threads -> Pcs]
      /\ call \in [Threads -> Calls]
      /\ call[p] \in Calls
      /\ bhead \in [Buckets -> Pointers]
      /\ call[p].bucket \in Buckets /\ call[p].making \in Buckets
  BY CallFields DEF IInv, TypeOK
<1>2. bhead[0] # NULL /\ bhead[call[p].bucket] # NULL
  BY DEF IInv, Followed
<1>3. CASE Insert(p) \/ FindOrRemove(p) \/ Return(p)
  <2>1. call'[p].bucket = 0
    <3>1. CASE Insert(p)
      BY <1>1, <3>1 DEF Insert, NoCall
    <3>2. CASE FindOrRemove(p)
      BY <1>1, <3>2 DEF FindOrRemove, NoCall
    <3>3. CASE Return(p)
      BY <1>1, <3>3 DEF Return, NoCall
    <3>4. QED
      BY <1>3, <3>1, <3>2, <3>3
  <2>2. QED
    BY <1>2, <2>1, Lasting, Constants
<1>4. CASE PassBucket(p)
  <2> DEFINE b == Head(call[p].path)
  <2>1. bhead[b] # NULL /\ bhead' = bhead /\ Passed(p, b)
    BY <1>4 DEF PassBucket, tableVars
  <2> HIDE DEF b
  <2>2. call'[p].bucket = b
    BY <1>1, <2>1 DEF Passed, Calls
  <2>3. QED
    BY <2>1, <2>2
<1>5. CASE StoreHead(p)
  <2>1. call'[p].bucket = call[p].making /\ bhead[call[p].making] # NULL
    BY <1>1, <1>5 DEF StoreHead, Goto, Passed, Calls, IInv, Makers
  <2>2. QED
    BY <1>1, <2>1, Lasting
<1>6. CASE ClaimBucket(p)
  <2>1. call'[p].bucket = call[p].bucket
    BY <1>1, <1>6 DEF ClaimBucket, Passed, Calls
  <2>2. QED
    BY <1>1, <1>2, <2>1, Lasting
<1>7. CASE Onward(p)
  BY <1>1, <1>2, <1>7, GoesOn, Lasting
<1>8. QED
  BY <1>3, <1>4, <1>5, <1>6, <1>7, Cases DEF Begin

\* The key of a call is one of the keys until it returns.
LEMMA StepKey ==
  ASSUME IInv, NEW p \in Threads, TableStep(p) \/ ListStep(p)
  PROVE  pc'[p] # "idle" => call'[p].key \in Keys
<1>1. /\ pc \in [Threads -> Pcs]
      /\ call \in [Threads -> Calls]
      /\ call[p] \in Calls
      /\ pc[p] # "idle" => call[p].key \in Keys
  BY DEF IInv, TypeOK, Followed
<1>2. CASE Insert(p) \/ FindOrRemove(p)
  BY <1>1, <1>2 DEF Insert, FindOrRemove, NoCall
<1>3. CASE Return(p)
  BY <1>1, <1>3 DEF Return, Goto
<1>4. CASE PassBucket(p) \/ StoreHead(p) \/ ClaimBucket(p)
  <2>1. call'[p].key = call[p].key /\ pc[p] # "idle"
    BY <1>1, <1>4 DEF PassBucket, StoreHead, ClaimBucket, Passed, Goto, Calls
  <2>2. QED
    BY <1>1, <2>1
<1>5. CASE Onward(p)
  <2>1. pc[p] # "idle"
    BY <1>5
       DEF Onward, Begin, ListStep, SearchStep, Search, SearchLoad, SearchChanged,
           SearchProtect, Help, Unlink, SearchAgain, Recheck, Examine, LoadLink,
           InsertLoad, LinkNode, InsertLink, LoadRemoved, RemoveLoad, MarkRemoved,
           RemoveMark, TableStep, LoadCurrent, CheckFactor, Grow, Publish,
           FindPath, MissBucket, SearchDummy, SearchKey, BeginSearch, FindEnds,
           InsertRefused, InsertGoesOn, RemoveRefused, RemoveClaims, Looked,
           LinkFails, CountDummy, CountKey, Count, MarkFails, CountRemoved, Goto
  <2>2. QED
    BY <1>1, <1>5, <2>1, GoesOn
<1>6. QED
  BY <1>2, <1>3, <1>4, <1>5, Cases DEF Begin

\* Only a bucket that is missing is claimed, and its parent is in hand.
LEMMA StepClaim ==
  ASSUME IInv, NEW p \in Threads, TableStep(p) \/ ListStep(p), pc'[p] = "claim"
  PROVE  call'[p].path # <<>> /\ call'[p].parent # NULL
<1>1. /\ pc \in [Threads -> Pcs]
      /\ call \in [Threads -> Calls]
      /\ call[p] \in Calls
      /\ bhead[call[p].bucket] # NULL
  BY DEF IInv, TypeOK, Followed
<1>2. CASE MissBucket(p)
  BY <1>1, <1>2 DEF MissBucket, Calls
<1>3. CASE ListStep(p)
  BY <1>1, <1>3
     DEF ListStep, SearchStep, Search, SearchLoad, SearchChanged, SearchProtect,
         Help, Unlink, SearchAgain, Recheck, Examine, LoadLink, InsertLoad,
         LinkNode, InsertLink, LoadRemoved, RemoveLoad, MarkRemoved, RemoveMark,
         Goto
<1>4. CASE TableStep(p) /\ ~ MissBucket(p) /\ ~ PassBucket(p)
  BY <1>1, <1>4
     DEF TableStep, Insert, FindOrRemove, Return, LoadCurrent, CheckFactor, Grow,
         Publish, FindPath, ClaimBucket, SearchDummy, StoreHead, SearchKey,
         BeginSearch, FindEnds, InsertRefused, InsertGoesOn, RemoveRefused,
         RemoveClaims, LinkFails, CountDummy, CountKey, Count, MarkFails,
         CountRemoved, Finish, Goto
<1>5. CASE PassBucket(p)
  BY <1>1, <1>5 DEF PassBucket
<1>6. QED
  BY <1>2, <1>3, <1>4, <1>5

\* What a thread follows in the list is not null: a search goes on from nodes,
\* and looks at what is not the end.
Course(p) ==
  /\ pc[p] \in SearchPcs \cup {"cas", "removing", "mark"} =>
       local[p].start # NULL /\ local[p].prev # NULL
  /\ pc[p] = "protect" => local[p].curr # Nil
  /\ pc[p] \in {"examine", "stopped", "count", "store"} => local[p].curr.to # NULL

LEMMA StepCourse ==
  ASSUME IInv, NEW p \in Threads, TableStep(p) \/ ListStep(p)
  PROVE  Course(p)'
<1>1. /\ pc \in [Threads -> Pcs]
      /\ local \in [Threads -> Locals]
      /\ local[p] \in Locals
      /\ local[p].curr \in Links /\ local[p].nxt \in Links
  BY LocalFields DEF IInv, TypeOK
<1>2. Course(p)
  BY DEF IInv, Followed, Course
<1>3. CASE SearchStep(p)
  <2> USE <1>1, <1>2 DEF Course, Goto, SearchPcs, Locals
  <2>1. CASE SearchLoad(p)
    BY <2>1 DEF SearchLoad
  <2>2. CASE SearchChanged(p)
    BY <2>2, Constants DEF SearchChanged, First
  <2>3. CASE SearchProtect(p)
    BY <2>3 DEF SearchProtect, Links, Nil, Link
  <2>4. CASE Help(p) \/ Unlink(p)
    BY <2>4 DEF Help, Unlink
  <2>5. CASE SearchAgain(p)
    BY <2>5 DEF SearchAgain
  <2>6. CASE Recheck(p)
    BY <2>6 DEF Recheck
  <2>7. CASE Examine(p)
    BY <2>7 DEF Examine
  <2>8. QED
    BY <1>3, <2>1, <2>2, <2>3, <2>4, <2>5, <2>6, <2>7 DEF SearchStep, Search
<1>4. CASE LoadLink(p) \/ LoadRemoved(p) \/ MarkRemoved(p)
  BY <1>1, <1>2, <1>4
     DEF Course, Goto, SearchPcs, Locals, LoadLink, InsertLoad, LoadRemoved,
         RemoveLoad, MarkRemoved, RemoveMark
<1>5. CASE LinkNode(p)
  <2>1. used \in Nodes /\ pc'[p] = "count"
    BY <1>5, NewNode
  <2>2. local'[p].curr = Link(used, FALSE)
    BY <1>1, <1>5 DEF LinkNode, InsertLink, Locals
  <2>3. local'[p].curr.to # NULL
    BY <2>1, <2>2, Constants DEF Link
  <2>4. QED
    BY <2>1, <2>3 DEF Course, SearchPcs
<1>6. CASE SearchDummy(p)
  <2>1. call[p].parent # NULL
    BY <1>6 DEF SearchDummy, BeginSearch, Goto, IInv, Makers
  <2>2. QED
    BY <1>1, <1>6, <2>1 DEF SearchDummy, BeginSearch, Goto, Course, NoLocal
<1>7. CASE SearchKey(p)
  <2>1. bhead[call[p].bucket] # NULL
    BY DEF IInv, Followed
  <2>2. QED
    BY <1>1, <1>7, <2>1 DEF SearchKey, BeginSearch, Goto, Course, NoLocal
<1>8. CASE RemoveClaims(p)
  BY <1>1, <1>2, <1>8 DEF RemoveClaims, Looked, Course, SearchPcs
<1>9. CASE CountDummy(p)
  BY <1>1, <1>2, <1>9 DEF CountDummy, Count, Goto, Course, SearchPcs
<1>10. CASE TableStep(p) /\ ~ (SearchDummy(p) \/ SearchKey(p) \/ RemoveClaims(p)
                               \/ CountDummy(p))
  <2>1. pc'[p] \notin SearchPcs \cup {"cas", "removing", "mark", "count", "store"}
    BY <1>1, <1>10
       DEF TableStep, Insert, FindOrRemove, Return, LoadCurrent, CheckFactor, Grow,
           Publish, FindPath, PassBucket, MissBucket, ClaimBucket, StoreHead,
           FindEnds, InsertRefused, InsertGoesOn, RemoveRefused, LinkFails,
           CountKey, Count, MarkFails, CountRemoved, Finish, Goto, SearchPcs
  <2>2. QED
    BY <2>1 DEF Course, SearchPcs
<1>11. QED
  BY <1>3, <1>4, <1>5, <1>6, <1>7, <1>8, <1>9, <1>10 DEF ListStep

LEMMA StepFollowed ==
  ASSUME IInv, NEW p \in Threads, TableStep(p) \/ ListStep(p)
  PROVE  Followed'
<1>1. bhead'[0] # NULL
  BY Lasting, Constants DEF IInv, Followed
<1>2. Course(p)'
  BY StepCourse
<1>3. \A q \in Threads \ {p} :
        pc'[q] = pc[q] /\ call'[q] = call[q] /\ local'[q] = local[q]
  BY Others
<1>4. \A q \in Threads \ {p} : bhead'[call'[q].bucket] # NULL
  BY <1>3, Lasting, CallFields DEF IInv, TypeOK, Followed
<1>5. \A q \in Threads \ {p} :
        /\ Course(q)'
        /\ pc'[q] = "claim" => call'[q].path # <<>> /\ call'[q].parent # NULL
        /\ pc'[q] # "idle" => call'[q].key \in Keys
  BY <1>3 DEF IInv, Followed, Course
<1>6. QED
  BY <1>1, <1>2, <1>4, <1>5, StepHand, StepKey, StepClaim DEF Followed, Course

-----------------------------------------------------------------------------
\* IInv is inductive.
LEMMA Inductive == IInv /\ [Next]_vars => IInv'
<1> SUFFICES ASSUME IInv, [Next]_vars PROVE IInv'
  OBVIOUS
<1>1. CASE Next
  <2>1. PICK p \in Threads : TableStep(p) \/ ListStep(p)
    BY <1>1, Steps
  <2>2. TypeOK'
    BY <2>1, TableType, SearchType, LinkType DEF ListStep
  <2>3. Followed' /\ Makers' /\ Dummies' /\ Segments'
    BY <2>1, StepFollowed, StepMakers, StepDummies, StepSegments
  <2>4. QED
    BY <2>2, <2>3 DEF IInv
<1>2. CASE UNCHANGED vars
  BY <1>2
     DEF vars, listVars, tableVars, IInv, TypeOK, Followed, Makers, Dummies,
         IsDummy, Segments
<1>3. QED
  BY <1>1, <1>2

\* Any number of threads that insert, find and remove at the same time keep
\* the table in a state that IInv describes.
THEOREM Invariance == Spec => []IInv
<1>1. QED
  BY InitIInv, Inductive, PTL DEF Spec

\* A bucket gets one dummy, however many threads find its slot empty at once:
\* the loser of the CAS on the slot inserts none.
THEOREM DummiesUnique == Spec => []OneDummy
<1>1. IInv => OneDummy
  <2> SUFFICES ASSUME IInv, NEW b \in Buckets
               PROVE  Cardinality({n \in 2 .. used - 1 :
                                     item[n].dummy /\ item[n].key = b}) <= 1
    BY DEF OneDummy
  <2> DEFINE D == {n \in 2 .. used - 1 : item[n].dummy /\ item[n].key = b}
  <2>1. \A n \in D : n \in Nodes /\ IsDummy(n, b)
    BY Constants DEF IInv, TypeOK, IsDummy
  <2>2. \A n, m \in D : m = n
    BY <2>1 DEF IInv, Dummies
  <2> HIDE DEF D
  <2>3. CASE D = {}
    BY <2>3, FS_EmptySet DEF D
  <2>4. CASE D # {}
    <3>1. PICK n \in D : D = {n}
      BY <2>2, <2>4
    <3>2. Cardinality(D) = 1
      BY <3>1, FS_Singleton
    <3>3. QED
      BY <3>2 DEF D
  <2>5. QED
    BY <2>3, <2>4
<1>2. QED
  BY <1>1, Invariance, PTL

\* get_segment waits for nobody: the segments of a bucket and of its parents
\* are in the array before an index that needs them can be computed.
THEOREM WaitsForNone == Spec => []NeverWaits
<1>1. IInv => NeverWaits
  <2> SUFFICES ASSUME IInv, NEW p \in Threads, pc[p] = "path",
                      NEW i \in DOMAIN Lineage[GlobalIndex(call[p].key, current)]
               PROVE  SegmentOf[Lineage[GlobalIndex(call[p].key, current)][i]]
                        \in segs
    BY DEF NeverWaits
  <2>1. call[p].key \in Keys /\ current \in 0 .. MaxSegment
    BY DEF IInv, TypeOK, Followed
  <2>2. SegmentOf[Lineage[GlobalIndex(call[p].key, current)][i]] \in 0 .. current
    BY <2>1, IndexArithmetic
  <2>3. QED
    BY <2>2 DEF IInv, Segments
<1>2. QED
  BY <1>1, Invariance, PTL

-----------------------------------------------------------------------------
(***************************************************************************)
(* What the links lead to: the least set of nodes that holds head_ and,    *)
(* with a node, the next one.                                              *)
(***************************************************************************)

\* The nodes on the way from n, at most i, if `way` is right below i.
Way(links, way, i) ==
  [n \in Nodes \cup {NULL} |->
     IF n = NULL \/ i = 0 THEN {} ELSE {n} \cup way[i - 1][links[n].to]]

IsWay(links, way, m) ==
  way = [i \in 0 .. m |-> Way(links, way, i)]

LEMMA WayExists ==
  ASSUME NEW links, NEW m \in Nat
  PROVE  \E way : IsWay(links, way, m)
<1> DEFINE S == {i \in Nat : \E way : IsWay(links, way, i)}
<1>1. 0 \in S
  <2> DEFINE way == [i \in 0 .. 0 |-> [n \in Nodes \cup {NULL} |-> {}]]
  <2>1. IsWay(links, way, 0)
    BY DEF IsWay, Way
  <2>2. QED
    BY <2>1
<1>2. ASSUME NEW i \in 0 .. m - 1, i \in S
      PROVE  i + 1 \in S
  <2>1. PICK way : IsWay(links, way, i)
    BY <1>2
  <2> DEFINE more == [j \in 0 .. i + 1 |-> IF j <= i THEN way[j]
                                           ELSE Way(links, way, i + 1)]
  <2>2. \A j \in 0 .. i : way[j] = Way(links, way, j)
    BY <2>1 DEF IsWay
  <2>3. ASSUME NEW j \in 0 .. i + 1
        PROVE  Way(links, more, j) = Way(links, way, j)
    <3>1. j # 0 => more[j - 1] = way[j - 1]
      OBVIOUS
    <3> HIDE DEF more
    <3>2. CASE j = 0
      BY <3>2 DEF Way
    <3>3. CASE j # 0
      BY <3>1, <3>3 DEF Way
    <3>4. QED
      BY <3>2, <3>3
  <2>4. \A j \in 0 .. i + 1 : more[j] = Way(links, more, j)
    BY <2>2, <2>3
  <2>5. IsWay(links, more, i + 1)
    BY <2>4 DEF IsWay
  <2>6. QED
    BY <2>5
<1>3. m \in S
  <2> HIDE DEF S
  <2>1. 0 .. m \subseteq S
    BY <1>1, <1>2, UpTo
  <2>2. QED
    BY <2>1
<1>4. QED
  BY <1>3

\* The recursive function inside of ReachableBy.
WayOf(links) == CHOOSE way : IsWay(links, way, MaxNodes)

LEMMA ReachableByWay ==
  ASSUME NEW links
  PROVE  /\ ReachableBy(links) = WayOf(links)[MaxNodes][First]
         /\ \A n \in Nodes : WayOf(links)[0][n] = {}
         /\ \A i \in 0 .. MaxNodes : WayOf(links)[i][NULL] = {}
         /\ \A i \in 0 .. MaxNodes - 1, n \in Nodes :
              WayOf(links)[i + 1][n] = {n} \cup WayOf(links)[i][links[n].to]
<1>1. IsWay(links, WayOf(links), MaxNodes)
  BY ListAssumption, WayExists DEF WayOf
<1>2. ReachableBy(links) = WayOf(links)[MaxNodes][First]
  BY DEF ReachableBy, WayOf, IsWay, Way
<1> DEFINE way == WayOf(links)
<1>3. way = [i \in 0 .. MaxNodes |-> Way(links, way, i)]
  BY <1>1 DEF IsWay
<1> HIDE DEF way
<1>4. \A i \in 0 .. MaxNodes : way[i] = Way(links, way, i)
  BY <1>3
<1>5. MaxNodes \in Nat /\ NULL \notin Nodes
  BY ListAssumption DEF Nodes
<1>6. \A n \in Nodes : way[0][n] = {}
  <2>1. way[0] = Way(links, way, 0)
    BY <1>4, <1>5
  <2>2. \A n \in Nodes : Way(links, way, 0)[n] = {}
    BY DEF Way
  <2>3. QED
    BY <2>1, <2>2
<1>7. \A i \in 0 .. MaxNodes : way[i][NULL] = {}
  BY <1>4 DEF Way
<1>8. ASSUME NEW i \in 0 .. MaxNodes - 1, NEW n \in Nodes
      PROVE  way[i + 1][n] = {n} \cup way[i][links[n].to]
  <2>1. i + 1 \in 0 .. MaxNodes /\ i + 1 # 0 /\ (i + 1) - 1 = i /\ n # NULL
    BY <1>5
  <2>2. way[i + 1] = Way(links, way, i + 1)
    BY <1>4, <2>1
  <2>3. Way(links, way, i + 1)[n] = {n} \cup way[(i + 1) - 1][links[n].to]
    BY <2>1 DEF Way
  <2>4. QED
    BY <2>1, <2>2, <2>3
<1>9. QED
  BY <1>2, <1>6, <1>7, <1>8 DEF way

-----------------------------------------------------------------------------
\* A set of nodes that holds the next node of each of its nodes.
Closed(links, S) == \A n \in S \cap Nodes : links[n].to \in S \cup {NULL}

\* Nothing is reachable but what a closed set with head_ in it holds.
LEMMA ReachableLeast ==
  ASSUME NEW links \in [Nodes -> Links], NEW S, First \in S, Closed(links, S)
  PROVE  ReachableBy(links) \subseteq S
<1> DEFINE way == WayOf(links)
           T   == {i \in 0 .. MaxNodes : \A n \in S \cap Nodes : way[i][n] \subseteq S}
<1>1. /\ ReachableBy(links) = way[MaxNodes][First]
      /\ \A n \in Nodes : way[0][n] = {}
      /\ \A i \in 0 .. MaxNodes : way[i][NULL] = {}
      /\ \A i \in 0 .. MaxNodes - 1, n \in Nodes :
           way[i + 1][n] = {n} \cup way[i][links[n].to]
  BY ReachableByWay
<1> HIDE DEF way
<1>2. MaxNodes \in Nat /\ First \in Nodes /\ \A n \in Nodes : links[n].to \in Nodes \cup {NULL}
  BY ListAssumption DEF First, Nodes, Links
<1>3. 0 \in T
  BY <1>1, <1>2
<1>4. ASSUME NEW i \in 0 .. MaxNodes - 1, i \in T
      PROVE  i + 1 \in T
  <2> SUFFICES ASSUME NEW n \in S \cap Nodes
               PROVE  way[i + 1][n] \subseteq S
    BY <1>2
  <2>1. way[i + 1][n] = {n} \cup way[i][links[n].to]
    BY <1>1, <1>2
  <2>2. links[n].to = NULL => way[i][links[n].to] = {}
    BY <1>1, <1>2
  <2>3. links[n].to # NULL => links[n].to \in S \cap Nodes
    BY <1>2 DEF Closed
  <2>4. QED
    BY <1>4, <2>1, <2>2, <2>3
<1>5. MaxNodes \in T
  <2> HIDE DEF T
  <2>1. 0 .. MaxNodes \subseteq T
    BY <1>2, <1>3, <1>4, UpTo
  <2>2. QED
    BY <1>2, <2>1
<1>6. QED
  BY <1>1, <1>2, <1>5

\* What is reachable is closed: there are not enough nodes for a longer way.
LEMMA ReachableClosed ==
  ASSUME NEW links \in [Nodes -> Links]
  PROVE  /\ First \in ReachableBy(links)
         /\ ReachableBy(links) \subseteq Nodes
         /\ Closed(links, ReachableBy(links))
<1> DEFINE way  == WayOf(links)
           R(i) == way[i][First]
<1>1. /\ ReachableBy(links) = way[MaxNodes][First]
      /\ \A n \in Nodes : way[0][n] = {}
      /\ \A i \in 0 .. MaxNodes : way[i][NULL] = {}
      /\ \A i \in 0 .. MaxNodes - 1, n \in Nodes :
           way[i + 1][n] = {n} \cup way[i][links[n].to]
  BY ReachableByWay
<1> HIDE DEF way
<1>2. /\ MaxNodes \in Nat /\ MaxNodes >= 3
      /\ First \in Nodes /\ NULL \notin Nodes
      /\ \A n \in Nodes : links[n].to \in Nodes \cup {NULL}
  BY ListAssumption DEF First, Nodes, Links
<1> DEFINE Good(i) == \A n \in Nodes :
             /\ way[i][n] \subseteq way[i + 1][n]
             /\ way[i][n] \subseteq Nodes
             /\ \A m \in way[i][n] : links[m].to \in way[i + 1][n] \cup {NULL}
           T == {i \in 0 .. MaxNodes - 1 : Good(i)}
\* One node more leads to all the next ones.
<1>3. \A i \in 0 .. MaxNodes - 1 : Good(i)
  <2>1. 0 \in T
    BY <1>1, <1>2
  <2>2. ASSUME NEW i \in 0 .. (MaxNodes - 1) - 1, i \in T
        PROVE  i + 1 \in T
    <3> SUFFICES ASSUME NEW n \in Nodes
                 PROVE  /\ way[i + 1][n] \subseteq way[i + 2][n]
                        /\ way[i + 1][n] \subseteq Nodes
                        /\ \A m \in way[i + 1][n] :
                             links[m].to \in way[i + 2][n] \cup {NULL}
      BY <1>2
    <3> DEFINE o == links[n].to
    <3>1. way[i + 1][n] = {n} \cup way[i][o]
      <4>1. i \in 0 .. MaxNodes - 1
        BY <1>2
      <4>2. QED
        BY <1>1, <4>1
    <3>2. way[i + 2][n] = {n} \cup way[i + 1][o]
      <4>1. i + 1 \in 0 .. MaxNodes - 1 /\ (i + 1) + 1 = i + 2
        BY <1>2
      <4>2. QED
        BY <1>1, <4>1
    <3>3. CASE o = NULL
      BY <1>1, <1>2, <3>1, <3>2, <3>3
    <3>4. CASE o \in Nodes
      <4>1. i \in 0 .. MaxNodes - 1 /\ Good(i)
        BY <2>2
      <4>2. /\ way[i][o] \subseteq way[i + 1][o]
            /\ way[i][o] \subseteq Nodes
            /\ \A m \in way[i][o] : links[m].to \in way[i + 1][o] \cup {NULL}
        BY <3>4, <4>1
      <4>3. o \in way[i + 1][o]
        BY <1>1, <3>4, <4>1
      <4> HIDE DEF o
      <4>4. \A m \in way[i + 1][n] : links[m].to \in way[i + 2][n] \cup {NULL}
        <5>1. links[n].to \in way[i + 2][n]
          BY <3>2, <4>3 DEF o
        <5>2. \A m \in way[i][o] : links[m].to \in way[i + 2][n] \cup {NULL}
          BY <3>2, <4>2
        <5>3. QED
          BY <3>1, <5>1, <5>2
      <4>5. QED
        BY <3>1, <3>2, <4>2, <4>4
    <3>5. QED
      BY <1>2, <3>3, <3>4
  <2>3. MaxNodes - 1 \in Nat
    BY <1>2
  <2> HIDE DEF T
  <2>4. 0 .. MaxNodes - 1 \subseteq T
    BY <2>1, <2>2, <2>3, UpTo
  <2>5. QED
    BY <2>4 DEF T
<1>4. \A i \in 0 .. MaxNodes - 1 :
        /\ R(i) \subseteq R(i + 1) /\ R(i) \subseteq Nodes
        /\ \A m \in R(i) : links[m].to \in R(i + 1) \cup {NULL}
  BY <1>2, <1>3
<1>5. First \in R(MaxNodes) /\ \A i \in 1 .. MaxNodes : First \in R(i)
  <2>1. ASSUME NEW i \in 1 .. MaxNodes PROVE First \in R(i)
    <3>1. i - 1 \in 0 .. MaxNodes - 1 /\ (i - 1) + 1 = i
      BY <1>2
    <3>2. First \in way[(i - 1) + 1][First]
      BY <1>1, <1>2, <3>1
    <3>3. QED
      BY <3>1, <3>2
  <2>2. QED
    BY <1>2, <2>1
<1>6. R(MaxNodes) \subseteq Nodes
  <2> DEFINE o == links[First].to
  <2>1. MaxNodes - 1 \in 0 .. MaxNodes - 1 /\ (MaxNodes - 1) + 1 = MaxNodes
    BY <1>2
  <2>2. R(MaxNodes) = {First} \cup way[MaxNodes - 1][o]
    <3>1. way[(MaxNodes - 1) + 1][First] = {First} \cup way[MaxNodes - 1][o]
      BY <1>1, <1>2, <2>1
    <3>2. QED
      BY <2>1, <3>1
  <2>3. o = NULL => way[MaxNodes - 1][o] = {}
    BY <1>1, <2>1
  <2>4. o \in Nodes => way[MaxNodes - 1][o] \subseteq Nodes
    BY <1>3, <2>1
  <2>5. o \in Nodes \cup {NULL}
    BY <1>2
  <2> HIDE DEF o, R
  <2>6. QED
    BY <1>2, <2>2, <2>3, <2>4, <2>5 DEF R
<1>7. ASSUME NEW i \in 1 .. MaxNodes - 1, R(i + 1) \subseteq R(i)
      PROVE  Closed(links, R(MaxNodes))
  <2>1. First \in R(i) /\ Closed(links, R(i))
    <3>1. i \in 0 .. MaxNodes - 1 /\ i \in 1 .. MaxNodes
      BY <1>2
    <3>2. First \in R(i)
      BY <1>5, <3>1
    <3>3. \A m \in R(i) : links[m].to \in R(i + 1) \cup {NULL}
      BY <1>4, <3>1
    <3> HIDE DEF R
    <3>4. QED
      BY <1>7, <3>2, <3>3 DEF Closed
  <2>2. R(MaxNodes) \subseteq R(i)
    BY <1>1, <2>1, ReachableLeast
  <2>3. R(i) \subseteq R(MaxNodes)
    <3> DEFINE U == {j \in 0 .. MaxNodes - i : R(i) \subseteq R(i + j)}
    <3>1. 0 \in U
      BY <1>2
    <3>2. ASSUME NEW j \in 0 .. (MaxNodes - i) - 1, j \in U
          PROVE  j + 1 \in U
      <4>1. /\ i + j \in 0 .. MaxNodes - 1 /\ (i + j) + 1 = i + (j + 1)
            /\ j + 1 \in 0 .. MaxNodes - i
        BY <1>2
      <4>2. R(i + j) \subseteq R((i + j) + 1)
        BY <1>4, <4>1
      <4>3. QED
        BY <3>2, <4>1, <4>2
    <3>3. MaxNodes - i \in Nat /\ i + (MaxNodes - i) = MaxNodes
      BY <1>2
    <3> HIDE DEF U
    <3>4. 0 .. MaxNodes - i \subseteq U
      BY <3>1, <3>2, <3>3, UpTo
    <3>5. MaxNodes - i \in U
      BY <3>3, <3>4
    <3>6. QED
      BY <3>3, <3>5 DEF U
  <2> HIDE DEF R
  <2>4. R(MaxNodes) = R(i)
    BY <2>2, <2>3
  <2>5. QED
    BY <2>1, <2>4
<1>8. ASSUME \A i \in 1 .. MaxNodes - 1 : ~ (R(i + 1) \subseteq R(i))
      PROVE  R(MaxNodes) = Nodes
  <2>1. IsFiniteSet(Nodes) /\ Cardinality(Nodes) = MaxNodes
    BY <1>2, FS_Interval DEF Nodes
  <2>2. \A i \in 0 .. MaxNodes : R(i) \subseteq Nodes
    BY <1>2, <1>4, <1>6
  <2> HIDE DEF R
  <2>3. \A i \in 0 .. MaxNodes :
          IsFiniteSet(R(i)) /\ Cardinality(R(i)) \in Nat
    BY <2>1, <2>2, FS_Subset, FS_CardinalityType
  <2> DEFINE U == {j \in 0 .. MaxNodes : Cardinality(R(j)) >= j}
  <2>4. 0 \in U
    BY <1>2, <2>3
  <2>5. ASSUME NEW j \in 0 .. MaxNodes - 1, j \in U
        PROVE  j + 1 \in U
    <3>1. j + 1 \in 1 .. MaxNodes /\ j + 1 \in 0 .. MaxNodes /\ j \in 0 .. MaxNodes
      BY <1>2
    <3>2. R(j) \subseteq R(j + 1)
      BY <1>4 DEF R
    <3>3. R(j) # R(j + 1)
      <4>1. CASE j = 0
        <5>1. First \in R(j + 1) /\ First \notin R(0)
          BY <1>1, <1>2, <1>5, <3>1 DEF R
        <5>2. QED
          BY <4>1, <5>1
      <4>2. CASE j # 0
        <5>1. j \in 1 .. MaxNodes - 1
          BY <4>2
        <5>2. QED
          BY <1>8, <5>1
      <4>3. QED
        BY <4>1, <4>2
    <3>4. Cardinality(R(j)) <= Cardinality(R(j + 1)) /\ Cardinality(R(j)) # Cardinality(R(j + 1))
      BY <2>3, <3>1, <3>2, <3>3, FS_Subset
    <3>5. Cardinality(R(j + 1)) >= j + 1
      BY <2>3, <2>5, <3>1, <3>4
    <3>6. QED
      BY <3>1, <3>5
  <2> HIDE DEF U
  <2>6. 0 .. MaxNodes \subseteq U
    BY <1>2, <2>4, <2>5, UpTo
  <2>7. MaxNodes \in U /\ MaxNodes \in 0 .. MaxNodes
    BY <1>2, <2>6
  <2>8. Cardinality(R(MaxNodes)) >= MaxNodes
    BY <2>7 DEF U
  <2>9. Cardinality(R(MaxNodes)) <= Cardinality(Nodes)
    BY <2>1, <2>2, <2>7, FS_Subset
  <2>10. Cardinality(R(MaxNodes)) = Cardinality(Nodes)
    BY <1>2, <2>1, <2>3, <2>7, <2>8, <2>9
  <2>11. QED
    BY <2>1, <2>2, <2>7, <2>10, FS_Subset
<1>9. Closed(links, R(MaxNodes))
  BY <1>2, <1>7, <1>8 DEF Closed
<1>10. QED
  BY <1>1, <1>5, <1>6, <1>9

-----------------------------------------------------------------------------
\* Links that lead on as before lead to the same nodes.
LEMMA SameReach ==
  ASSUME NEW links \in [Nodes -> Links], NEW after \in [Nodes -> Links],
         \A n \in ReachableBy(links) : after[n].to = links[n].to
  PROVE  ReachableBy(after) = ReachableBy(links)
<1> DEFINE R == ReachableBy(links)
           Q == ReachableBy(after)
<1>1. First \in R /\ R \subseteq Nodes /\ Closed(links, R)
  BY ReachableClosed
<1>2. First \in Q /\ Q \subseteq Nodes /\ Closed(after, Q)
  BY ReachableClosed
<1>3. Closed(after, R)
  BY <1>1 DEF Closed
<1>4. Q \subseteq R
  BY <1>1, <1>3, ReachableLeast
<1> HIDE DEF Q
<1>5. Closed(links, Q)
  BY <1>2, <1>4 DEF Closed
<1>6. R \subseteq Q
  BY <1>2, <1>5, ReachableLeast
<1>7. QED
  BY <1>4, <1>6 DEF Q

\* A node linked in behind a reachable one, and before what was next of it,
\* is all that becomes reachable, and nothing is lost.
LEMMA InsertReach ==
  ASSUME NEW links \in [Nodes -> Links], NEW after \in [Nodes -> Links],
         NEW prev \in ReachableBy(links), NEW new \in Nodes \ ReachableBy(links),
         \A n \in ReachableBy(links) \ {prev} : after[n].to = links[n].to,
         after[prev].to = new, after[new].to = links[prev].to
  PROVE  ReachableBy(after) = ReachableBy(links) \cup {new}
<1> DEFINE R == ReachableBy(links)
           Q == ReachableBy(after)
<1>1. First \in R /\ R \subseteq Nodes /\ Closed(links, R)
  BY ReachableClosed
<1>2. First \in Q /\ Q \subseteq Nodes /\ Closed(after, Q)
  BY ReachableClosed
<1>3. new \in Nodes /\ NULL \notin Nodes
  BY ListAssumption DEF Nodes
<1>4. Closed(after, R \cup {new})
  BY <1>1, <1>3 DEF Closed
<1>5. Q \subseteq R \cup {new}
  BY <1>1, <1>4, ReachableLeast
<1> HIDE DEF Q
<1>6. Closed(links, Q \ {new})
  <2> SUFFICES ASSUME NEW n \in Q \ {new}
               PROVE  links[n].to \in (Q \ {new}) \cup {NULL}
    BY DEF Closed
  <2>1. n \in R /\ n \in Nodes /\ links[n].to \in R \cup {NULL}
    BY <1>1, <1>5 DEF Closed
  <2>2. new # NULL /\ new \notin R
    BY <1>3
  <2>3. CASE n = prev
    <3>1. new \in Q
      BY <1>2, <1>3, <2>1, <2>3 DEF Closed
    <3>2. links[prev].to \in Q \cup {NULL}
      BY <1>2, <1>3, <3>1 DEF Closed
    <3>3. QED
      BY <2>1, <2>2, <2>3, <3>2
  <2>4. CASE n # prev
    <3>1. after[n].to = links[n].to
      BY <2>1, <2>4
    <3>2. after[n].to \in Q \cup {NULL}
      BY <1>2, <2>1 DEF Closed
    <3>3. QED
      BY <2>1, <2>2, <3>1, <3>2
  <2>5. QED
    BY <2>3, <2>4
<1>7. R \subseteq Q \ {new}
  BY <1>1, <1>2, <1>6, ReachableLeast
<1>8. new \in Q
  BY <1>1, <1>2, <1>3, <1>7 DEF Closed
<1>9. QED
  BY <1>5, <1>7, <1>8 DEF Q

\* A node that only one reachable node leads to is passed over: it alone is
\* no longer reachable.
LEMMA UnlinkReach ==
  ASSUME NEW links \in [Nodes -> Links], NEW after \in [Nodes -> Links],
         NEW prev \in ReachableBy(links), NEW node \in Nodes,
         node # First, node # prev,
         \A n \in ReachableBy(links) : links[n].to = node <=> n = prev,
         \A n \in ReachableBy(links) \ {prev} : after[n].to = links[n].to,
         after[prev].to = links[node].to
  PROVE  ReachableBy(after) = ReachableBy(links) \ {node}
<1> DEFINE R == ReachableBy(links)
           Q == ReachableBy(after)
<1>1. First \in R /\ R \subseteq Nodes /\ Closed(links, R)
  BY ReachableClosed
<1>2. First \in Q /\ Q \subseteq Nodes /\ Closed(after, Q)
  BY ReachableClosed
<1>3. NULL \notin Nodes /\ node \in R
  BY <1>1, ListAssumption DEF Nodes, Closed
<1>4. Closed(after, R \ {node})
  <2> SUFFICES ASSUME NEW n \in R \ {node}
               PROVE  after[n].to \in (R \ {node}) \cup {NULL}
    BY DEF Closed
  <2>1. n \in Nodes /\ links[n].to \in R \cup {NULL} /\ links[node].to \in R \cup {NULL}
    BY <1>1, <1>3 DEF Closed
  <2>2. QED
    BY <2>1
<1>5. Q \subseteq R \ {node}
  <2>1. First \in R \ {node}
    BY <1>1
  <2>2. QED
    BY <1>4, <2>1, ReachableLeast
<1> HIDE DEF Q
<1>6. prev \in Q
  <2> SUFFICES ASSUME prev \notin Q PROVE FALSE
    OBVIOUS
  <2>1. Closed(links, Q)
    BY <1>2, <1>5 DEF Closed
  <2>2. QED
    BY <1>2, <2>1, ReachableLeast
<1>7. R \subseteq Q \cup {node}
  <2>1. \A n \in Q : links[n].to \in Q \cup {node} \cup {NULL}
    BY <1>2, <1>5 DEF Closed
  <2>2. links[node].to \in Q \cup {NULL}
    BY <1>2, <1>6 DEF Closed
  <2>3. Closed(links, Q \cup {node})
    BY <2>1, <2>2 DEF Closed
  <2>4. QED
    BY <1>2, <2>3, ReachableLeast
<1>8. QED
  BY <1>5, <1>7 DEF Q

-----------------------------------------------------------------------------
(***************************************************************************)
(* The list that the threads share, for any number of them: a bucket is    *)
(* always found from its head, and no insertion undoes another.            *)
(***************************************************************************)

LEMMA Ranked ==
  /\ Ranks \subseteq Int
  /\ \A b \in Buckets : LowRank[b] \in Int
  /\ \A k \in Keys : LowRank[k] \in Int /\ HighRank[k] \in Int
<1>1. Ranks \subseteq Nat
  BY RankOrder
<1>2. \A r \in Ranks : r \in Int
  BY <1>1
<1>3. /\ \A b \in Buckets : LowRank[b] \in Ranks
      /\ \A k \in Keys : LowRank[k] \in Ranks /\ HighRank[k] \in Ranks
  BY Constants
<1>4. QED
  BY <1>2, <1>3

\* The types, taken apart.
LEMMA Typed ==
  ASSUME IInv
  PROVE  /\ next \in [Nodes -> Links]
         /\ item \in [Nodes -> [rank : Ranks, key : Buckets \cup Keys,
                                dummy : BOOLEAN]]
         /\ used \in 3 .. MaxNodes
         /\ pc \in [Threads -> Pcs]
         /\ local \in [Threads -> Locals]
         /\ call \in [Threads -> Calls]
         /\ bhead \in [Buckets -> Pointers]
         /\ 0 .. used - 1 \subseteq Nodes
         /\ NULL \notin Nodes
         /\ NULL \notin 0 .. used
         /\ \A p \in Threads :
              /\ local[p] \in Locals
              /\ local[p].start \in Pointers /\ local[p].prev \in Pointers
              /\ local[p].curr \in Links /\ local[p].nxt \in Links
              /\ call[p] \in Calls
              /\ call[p].bucket \in Buckets /\ call[p].making \in Buckets
              /\ call[p].path \in Seq(Buckets)
              /\ call[p].parent \in Pointers
<1>1. /\ next \in [Nodes -> Links]
      /\ item \in [Nodes -> [rank : Ranks, key : Buckets \cup Keys,
                             dummy : BOOLEAN]]
      /\ used \in 3 .. MaxNodes
      /\ pc \in [Threads -> Pcs]
      /\ local \in [Threads -> Locals]
      /\ call \in [Threads -> Calls]
      /\ bhead \in [Buckets -> Pointers]
  BY DEF IInv, TypeOK
<1>2. 0 .. used - 1 \subseteq Nodes
  BY <1>1, Constants
<1>3. NULL \notin 0 .. used
  BY <1>1, ListAssumption
<1>4. ASSUME NEW p \in Threads
      PROVE  /\ local[p] \in Locals
             /\ local[p].start \in Pointers /\ local[p].prev \in Pointers
             /\ local[p].curr \in Links /\ local[p].nxt \in Links
             /\ call[p] \in Calls
             /\ call[p].bucket \in Buckets /\ call[p].making \in Buckets
             /\ call[p].path \in Seq(Buckets)
             /\ call[p].parent \in Pointers
  <2>1. local[p] \in Locals /\ call[p] \in Calls
    BY <1>1
  <2>2. QED
    BY <2>1, LocalFields, CallFields
<1>5. QED
  BY <1>1, <1>2, <1>3, <1>4, Constants

\* Nodes stay what they are.
LEMMA NodesStay ==
  ASSUME IInv, NEW p \in Threads, TableStep(p) \/ ListStep(p)
  PROVE  /\ used \in Int /\ used' \in Int /\ used <= used'
         /\ \A n \in 0 .. used - 1 : item'[n] = item[n]
         /\ \A n \in 2 .. used - 1 : n \in 2 .. used' - 1 /\ item'[n] = item[n]
         /\ \A n : Linked(n) => Linked(n)'
         /\ \A n, b : Serves(n, b) => Serves(n, b)'
<1>1. used \in 3 .. MaxNodes
  BY Typed
<1>2. CASE LinkNode(p)
  <2>1. used' = used + 1 /\ \A n \in Nodes \ {used} : item'[n] = item[n]
    BY <1>2, NewNode
  <2>2. /\ \A n \in 0 .. used - 1 : n \in Nodes \ {used}
        /\ \A n \in 2 .. used - 1 : n \in Nodes \ {used} /\ n \in 2 .. used
    BY <1>1, Typed, Constants
  <2>3. QED
    BY <1>1, <2>1, <2>2 DEF Linked, Serves
<1>3. CASE ~ LinkNode(p)
  BY <1>1, <1>3, NoNewNode DEF Linked, Serves
<1>4. QED
  BY <1>2, <1>3

-----------------------------------------------------------------------------
\* What a thread knows of the list are nodes that have been made.
Knows(p) ==
  /\ Linked(local[p].start) /\ Linked(local[p].curr.to)
  /\ Linked(local[p].nxt.to)
  /\ local[p].prev # NULL => local[p].prev \in 0 .. used - 1

LEMMA StepKnown ==
  ASSUME IInv, Known, Heads, NEW p \in Threads, TableStep(p) \/ ListStep(p)
  PROVE  Known'
<1>1. /\ next \in [Nodes -> Links]
      /\ local \in [Threads -> Locals]
      /\ call[p] \in Calls
      /\ local[p] \in Locals
      /\ used \in 3 .. MaxNodes
      /\ 0 .. used - 1 \subseteq Nodes
      /\ NULL \notin 0 .. used
  BY Typed
<1>2. \A n \in 0 .. used - 1 : Linked(next[n].to)
  BY DEF Known
<1>3. Knows(p)
  BY DEF Known, Knows
<1>4. \A q \in Threads \ {p} : Knows(q)'
  <2> SUFFICES ASSUME NEW q \in Threads \ {p} PROVE Knows(q)'
    OBVIOUS
  <2>1. local'[q] = local[q]
    BY Others
  <2>2. Knows(q)
    BY DEF Known, Knows
  <2>3. QED
    BY <2>1, <2>2, NodesStay DEF Knows
<1> DEFINE Now(n) == n \in 1 .. used' - 1 \cup {NULL}
<1>5. SUFFICES Knows(p)' /\ \A n \in 0 .. used' - 1 : Now(next'[n].to)
  BY <1>4 DEF Known, Knows, Linked
<1>6. Linked(NULL) /\ 0 \in 0 .. used - 1
  BY <1>1 DEF Linked
<1>7. CASE SearchStep(p)
  <2>1. local[p].start # NULL /\ local[p].prev # NULL /\ pc[p] \in SearchPcs
    BY <1>7 DEF SearchStep, Search, SearchLoad, SearchChanged, SearchProtect, Help,
       Unlink, SearchAgain, Recheck, Examine, Goto, SearchPcs, IInv, Followed
  <2>2. /\ local[p].prev \in 0 .. used - 1 /\ local[p].start \in 0 .. used - 1
        /\ Linked(next[local[p].prev].to)
    BY <1>1, <1>2, <1>3, <2>1 DEF Knows, Linked
  <2>3. UNCHANGED used
    BY <1>7 DEF SearchStep, Search, SearchLoad, SearchChanged, SearchProtect, Help,
       Unlink, SearchAgain, Recheck, Examine, listVars
  <2> USE DEF Linked, Locals
  <2>4. CASE SearchLoad(p)
    BY <1>1, <1>2, <1>3, <2>2, <2>3, <2>4 DEF SearchLoad, listVars, Knows
  <2>5. CASE SearchChanged(p) \/ SearchAgain(p)
    BY <1>1, <1>2, <1>3, <1>6, <2>2, <2>3, <2>5
       DEF SearchChanged, SearchAgain, listVars, Knows, First
  <2>6. CASE SearchProtect(p) \/ Recheck(p)
    BY <1>1, <1>2, <1>3, <2>3, <2>6 DEF SearchProtect, Recheck, listVars, Knows
  <2>7. CASE Help(p)
    <3> DEFINE n == IF local[p].curr.to = NULL THEN Nil ELSE next[local[p].curr.to]
    <3>1. Linked(n.to)
      BY <1>1, <1>2, <1>3, <1>6 DEF Knows, Nil, Link
    <3>2. local' = [local EXCEPT ![p].nxt = n] /\ UNCHANGED next
      BY <2>7 DEF Help, listVars
    <3> HIDE DEF n
    <3>3. QED
      BY <1>1, <1>2, <1>3, <2>3, <3>1, <3>2 DEF Knows
  <2>8. CASE Unlink(p)
    <3>1. next' = [next EXCEPT ![local[p].prev] = local[p].nxt]
      BY <2>8 DEF Unlink
    <3>2. \A n \in 0 .. used - 1 : Linked(next'[n].to)
      BY <1>1, <1>2, <1>3, <3>1 DEF Knows
    <3>3. QED
      BY <1>1, <1>3, <2>3, <2>8, <3>2 DEF Unlink, Knows
  <2>9. CASE Examine(p)
    <3>1. local[p].curr.to # NULL
      BY <2>9 DEF Examine, Goto, IInv, Followed
    <3>2. QED
      BY <1>1, <1>2, <1>3, <2>3, <2>9, <3>1 DEF Examine, listVars, Knows
  <2>10. QED
    BY <1>7, <2>4, <2>5, <2>6, <2>7, <2>8, <2>9 DEF SearchStep, Search
<1>8. CASE LoadLink(p) \/ LoadRemoved(p)
  <2>1. local[p].prev # NULL
    BY <1>8 DEF LoadLink, LoadRemoved, InsertLoad, RemoveLoad, Goto, SearchPcs,
       IInv, Followed
  <2>2. QED
    BY <1>1, <1>2, <1>3, <1>8, <2>1
       DEF LoadLink, LoadRemoved, InsertLoad, RemoveLoad, listVars, Knows, Linked,
           Locals
<1>9. CASE LinkNode(p)
  <2>1. /\ used' = used + 1 /\ used \in Nodes
        /\ next' = [next EXCEPT ![used] = local[p].nxt,
                                ![local[p].prev] = Link(used, FALSE)]
        /\ local' = [local EXCEPT ![p].curr = Link(used, FALSE)]
    BY <1>9, NewNode DEF LinkNode, InsertLink
  <2>2. Now(used) /\ Now(local[p].nxt.to)
    BY <1>1, <1>3, <2>1 DEF Knows, Linked
  <2>3. \A n \in 0 .. used - 1 : Now(next[n].to)
    BY <1>1, <1>2, <2>1 DEF Linked
  <2>4. \A n \in 0 .. used : next'[n].to \in {used, local[p].nxt.to, next[n].to}
    BY <1>1, <2>1 DEF Link
  <2>5. \A n \in 0 .. used : n # used => n \in 0 .. used - 1
    BY <1>1
  <2>6. next'[used].to \in {used, local[p].nxt.to}
    BY <1>1, <2>1 DEF Link
  <2>7. \A n \in 0 .. used : Now(next'[n].to)
    BY <1>1, <2>2, <2>3, <2>4, <2>5, <2>6
  <2>8. 0 .. used' - 1 = 0 .. used
    BY <1>1, <2>1
  <2>9. Knows(p)'
    BY <1>1, <1>3, <2>1, <2>2 DEF Knows, Linked, Locals, Link
  <2>10. QED
    BY <2>7, <2>8, <2>9
<1>10. CASE MarkRemoved(p)
  <2>1. next' = [next EXCEPT ![local[p].prev].marked = TRUE] /\ UNCHANGED <<used, local>>
    BY <1>10 DEF MarkRemoved, RemoveMark
  <2>2. \A n \in Nodes : next'[n].to = next[n].to
    BY <1>1, <2>1 DEF Links
  <2>3. QED
    BY <1>1, <1>2, <1>3, <2>1, <2>2 DEF Knows, Linked
<1>11. CASE TableStep(p)
  <2>1. UNCHANGED <<next, used>>
    BY <1>11
       DEF TableStep, Insert, FindOrRemove, Return, LoadCurrent, CheckFactor, Grow,
         Publish, FindPath, PassBucket, MissBucket, ClaimBucket, SearchDummy,
         StoreHead, SearchKey, BeginSearch, FindEnds, InsertRefused, InsertGoesOn,
         RemoveRefused, RemoveClaims, LinkFails, CountDummy, CountKey, Count,
         MarkFails, CountRemoved, listVars
  <2>2. Knows(p)'
    <3>1. ASSUME NEW n \in 2 .. used - 1, NEW goal, NEW strict,
                 local' = [local EXCEPT ![p] = [NoLocal EXCEPT
                   !.start = n, !.prev = n, !.goal = goal, !.strict = strict]]
          PROVE  Knows(p)'
      <4>1. /\ local'[p].start = n /\ local'[p].prev = n
            /\ local'[p].curr = Nil /\ local'[p].nxt = Nil
        BY <1>1, <3>1 DEF NoLocal
      <4>2. QED
        BY <1>1, <2>1, <4>1 DEF Knows, Linked, Nil, Link
    <3>2. CASE SearchDummy(p)
      <4>1. call[p].parent \in 2 .. used - 1
        BY <3>2 DEF SearchDummy, BeginSearch, Goto, IInv, Makers, Heads, Serves
      <4>2. QED
        BY <3>1, <3>2, <4>1 DEF SearchDummy, BeginSearch
    <3>3. CASE SearchKey(p)
      <4>1. bhead[call[p].bucket] \in 2 .. used - 1
        BY Typed DEF IInv, Followed, Heads, Serves
      <4>2. QED
        BY <3>1, <3>3, <4>1 DEF SearchKey, BeginSearch
    <3>4. CASE Return(p)
      <4>1. local'[p] = NoLocal
        BY <1>1, <3>4 DEF Return
      <4>2. QED
        BY <1>6, <2>1, <4>1 DEF Knows, NoLocal, Nil, Link, Linked
    <3>5. CASE ~ (SearchDummy(p) \/ SearchKey(p) \/ Return(p))
      <4>1. local' = local
        BY <1>11, <3>5
           DEF TableStep, Insert, FindOrRemove, LoadCurrent, CheckFactor, Grow,
               Publish, FindPath, PassBucket, MissBucket, ClaimBucket, StoreHead,
               FindEnds, InsertRefused, InsertGoesOn, RemoveRefused, RemoveClaims,
               LinkFails, CountDummy, CountKey, Count, MarkFails, CountRemoved
      <4>2. QED
        BY <1>3, <2>1, <4>1 DEF Knows, Linked
    <3>6. QED
      BY <3>2, <3>3, <3>4, <3>5
  <2>3. QED
    BY <1>2, <2>1, <2>2 DEF Linked
<1>12. QED
  BY <1>7, <1>8, <1>9, <1>10, <1>11 DEF ListStep

-----------------------------------------------------------------------------
\* The way down.  Goes: the buckets in the order of the list, none behind k;
\* Stands: b comes before the rest of the way.
Goes(path, k) ==
  \A i, j \in DOMAIN path : i <= j =>
    /\ LowRank[path[i]] <= LowRank[path[j]]
    /\ LowRank[path[j]] <= LowRank[k]

Stands(b, path, k) ==
  IF path = <<>> THEN LowRank[b] <= LowRank[k]
  ELSE LowRank[b] <= LowRank[Head(path)]

\* One bucket further.
LEMMA PathTail ==
  ASSUME NEW path \in Seq(Buckets), path # <<>>, NEW k, Goes(path, k)
  PROVE  /\ Goes(Tail(path), k)
         /\ Stands(Head(path), Tail(path), k)
         /\ LowRank[Head(path)] <= LowRank[k]
<1>1. /\ Len(path) \in Nat /\ Len(path) >= 1 /\ DOMAIN path = 1 .. Len(path)
      /\ Head(path) = path[1]
  BY HeadTailProperties
<1>2. /\ Tail(path) \in Seq(Buckets) /\ Len(Tail(path)) = Len(path) - 1
      /\ \A i \in 1 .. Len(Tail(path)) : Tail(path)[i] = path[i + 1]
  BY HeadTailProperties
<1>3. Goes(Tail(path), k)
  <2> SUFFICES ASSUME NEW i \in DOMAIN Tail(path), NEW j \in DOMAIN Tail(path),
                      i <= j
               PROVE  /\ LowRank[Tail(path)[i]] <= LowRank[Tail(path)[j]]
                      /\ LowRank[Tail(path)[j]] <= LowRank[k]
    BY DEF Goes
  <2>1. /\ i + 1 \in DOMAIN path /\ j + 1 \in DOMAIN path /\ i + 1 <= j + 1
        /\ Tail(path)[i] = path[i + 1] /\ Tail(path)[j] = path[j + 1]
    BY <1>1, <1>2
  <2>2. QED
    BY <2>1 DEF Goes
<1>4. LowRank[Head(path)] <= LowRank[k]
  BY <1>1 DEF Goes
<1>5. ASSUME Tail(path) # <<>>
      PROVE  LowRank[Head(path)] <= LowRank[Head(Tail(path))]
  <2>1. Len(Tail(path)) >= 1 /\ Head(Tail(path)) = Tail(path)[1]
    BY <1>2, <1>5, HeadTailProperties
  <2>2. Head(Tail(path)) = path[2] /\ 1 \in DOMAIN path /\ 2 \in DOMAIN path
    BY <1>1, <1>2, <2>1
  <2>3. LowRank[path[1]] <= LowRank[path[2]]
    BY <2>2 DEF Goes
  <2>4. QED
    BY <1>1, <2>2, <2>3
<1>6. QED
  BY <1>3, <1>4, <1>5 DEF Stands

\* The last part of a lineage is a way down.
LEMMA LineageGoes ==
  ASSUME IInv, NEW p \in Threads, FindPath(p)
  PROVE  \E path \in Seq(Buckets) :
           /\ call' = [call EXCEPT ![p].path = path]
           /\ Goes(path, call[p].key)
           /\ path # <<>> /\ bhead[Head(path)] # NULL
<1> DEFINE lineage == Lineage[GlobalIndex(call[p].key, current)]
<1>1. call[p].key \in Keys /\ current \in 0 .. MaxSegment
  BY DEF IInv, TypeOK, Followed, FindPath, Goto
<1>2. lineage \in Seq(Buckets)
  BY <1>1, IndexArithmetic
<1>3. \A i, j \in DOMAIN lineage : i <= j =>
        /\ LowRank[lineage[i]] <= LowRank[lineage[j]]
        /\ LowRank[lineage[j]] <= LowRank[call[p].key]
  BY <1>1, RankOrder
<1>4. PICK from \in DOMAIN lineage :
        /\ bhead[lineage[from]] # NULL
        /\ call' = [call EXCEPT ![p].path = SubSeq(lineage, from, Len(lineage))]
  BY DEF FindPath
<1> DEFINE path == SubSeq(lineage, from, Len(lineage))
<1> HIDE DEF lineage
<1>5. from \in 1 .. Len(lineage) /\ Len(lineage) \in Nat
  BY <1>2
<1>6. \A i \in from .. Len(lineage) : lineage[i] \in Buckets
  BY <1>2, <1>5
<1>7. /\ path \in Seq(Buckets)
      /\ Len(path) = Len(lineage) - from + 1
      /\ \A i \in 1 .. Len(path) : path[i] = lineage[from + i - 1]
  BY <1>2, <1>5, <1>6, SubSeqProperties
<1> HIDE DEF path
<1>8. path # <<>> /\ Head(path) = path[1] /\ path[1] = lineage[from]
  BY <1>5, <1>7, HeadTailProperties
<1>9. Goes(path, call[p].key)
  <2> SUFFICES ASSUME NEW i \in DOMAIN path, NEW j \in DOMAIN path, i <= j
               PROVE  /\ LowRank[path[i]] <= LowRank[path[j]]
                      /\ LowRank[path[j]] <= LowRank[call[p].key]
    BY DEF Goes
  <2>1. i \in 1 .. Len(path) /\ j \in 1 .. Len(path)
    BY <1>7
  <2>2. /\ from + i - 1 \in DOMAIN lineage /\ from + j - 1 \in DOMAIN lineage
        /\ from + i - 1 <= from + j - 1
    BY <1>2, <1>5, <1>7, <2>1
  <2>3. QED
    BY <1>3, <1>7, <2>1, <2>2
<1>10. QED
  BY <1>4, <1>7, <1>8, <1>9 DEF path

\* What Descent says of one thread.
Descends(p) ==
  /\ Goes(call[p].path, call[p].key)
  /\ pc[p] \in {"bucket", "claim"} =>
       \/ /\ pc[p] = "bucket" /\ call[p].path # <<>>
          /\ bhead[Head(call[p].path)] # NULL
       \/ Stands(call[p].bucket, call[p].path, call[p].key)

LEMMA DescentIs == Descent <=> \A p \in Threads : Descends(p)
  BY DEF Descent, Descends, Goes, Stands

LEMMA StepDescent ==
  ASSUME IInv, Descent, Heads, NEW p \in Threads, TableStep(p) \/ ListStep(p)
  PROVE  Descent'
<1>1. /\ pc \in [Threads -> Pcs]
      /\ call \in [Threads -> Calls]
      /\ call[p] \in Calls
      /\ call[p].path \in Seq(Buckets)
      /\ call[p].bucket \in Buckets
  BY Typed
<1>2. Descends(p)
  BY DescentIs
<1>3. \A q \in Threads \ {p} : Descends(q)'
  <2> SUFFICES ASSUME NEW q \in Threads \ {p} PROVE Descends(q)'
    OBVIOUS
  <2>1. pc'[q] = pc[q] /\ call'[q] = call[q]
    BY Others
  <2>2. Descends(q) /\ call[q].path \in Seq(Buckets)
    BY DescentIs, Typed
  <2>3. call[q].path # <<>> => Head(call[q].path) \in Buckets
    BY <2>2, HeadTailProperties
  <2>4. QED
    BY <2>1, <2>2, <2>3, Lasting DEF Descends
<1>4. SUFFICES Descends(p)'
  BY <1>3, DescentIs DEF Descent, Descends, Goes, Stands
<1>5. ASSUME NEW b, call[p].path # <<>>, Passed(p, b),
             Stands(b, Tail(call[p].path), call[p].key)
      PROVE  Descends(p)'
  <2>1. /\ call'[p].path = Tail(call[p].path) /\ call'[p].bucket = b
        /\ call'[p].key = call[p].key
    BY <1>1, <1>5 DEF Passed, Calls
  <2>2. Goes(Tail(call[p].path), call[p].key)
    BY <1>1, <1>2, <1>5, PathTail DEF Descends
  <2>3. QED
    BY <1>5, <2>1, <2>2 DEF Descends, Goes, Stands
<1>6. CASE Insert(p) \/ FindOrRemove(p) \/ Return(p)
  <2>1. call'[p].path = <<>> /\ pc'[p] \notin {"bucket", "claim"}
    <3>1. CASE Insert(p)
      BY <1>1, <3>1 DEF Insert, Goto, NoCall
    <3>2. CASE FindOrRemove(p)
      BY <1>1, <3>2 DEF FindOrRemove, Goto, NoCall
    <3>3. CASE Return(p)
      BY <1>1, <3>3 DEF Return, Goto, NoCall
    <3>4. QED
      BY <1>6, <3>1, <3>2, <3>3
  <2>2. QED
    BY <2>1 DEF Descends, Goes
<1>7. CASE PassBucket(p)
  BY <1>1, <1>2, <1>5, <1>7, PathTail DEF PassBucket, Descends
<1>8. CASE StoreHead(p)
  <2>1. /\ call[p].path # <<>> /\ call[p].making = Head(call[p].path)
        /\ Passed(p, call[p].making)
    BY <1>8 DEF StoreHead, Goto, IInv, Makers, Heads
  <2>2. QED
    BY <1>1, <1>2, <1>5, <2>1, PathTail DEF Descends
<1>9. CASE ClaimBucket(p) /\ ~ ClaimWins(Head(call[p].path))
  <2>1. call[p].path # <<>> /\ Passed(p, call[p].bucket) /\ pc[p] = "claim"
    BY <1>9 DEF ClaimBucket, IInv, Followed
  <2>2. LowRank[call[p].bucket] <= LowRank[Head(call[p].path)]
    BY <1>2, <2>1 DEF Descends, Stands
  <2>3. /\ Stands(Head(call[p].path), Tail(call[p].path), call[p].key)
        /\ Goes(call[p].path, call[p].key)
        /\ Tail(call[p].path) \in Seq(Buckets)
        /\ Head(call[p].path) \in Buckets
    BY <1>1, <1>2, <2>1, PathTail, HeadTailProperties DEF Descends
  <2>4. Tail(call[p].path) # <<>> => Head(Tail(call[p].path)) \in Buckets
    BY <2>3, HeadTailProperties
  <2>5. LowRank[call[p].key] \in Int
    <3>1. call[p].key \in Keys \cup {0}
      BY <1>1, CallFields
    <3>2. QED
      BY <3>1, Ranked, Constants
  <2>6. Stands(call[p].bucket, Tail(call[p].path), call[p].key)
    BY <1>1, <2>2, <2>3, <2>4, <2>5, Ranked DEF Stands
  <2>7. QED
    BY <1>5, <2>1, <2>6
<1>10. CASE ClaimBucket(p) /\ ClaimWins(Head(call[p].path))
  <2>1. call'[p].path = call[p].path /\ pc'[p] = "making"
    BY <1>10, Claims
  <2>2. call'[p].key = call[p].key
    BY <1>1, <1>10 DEF ClaimBucket, Calls
  <2>3. QED
    BY <1>2, <2>1, <2>2 DEF Descends
<1>11. CASE FindPath(p)
  <2>1. PICK path \in Seq(Buckets) :
           /\ call' = [call EXCEPT ![p].path = path]
           /\ Goes(path, call[p].key)
           /\ path # <<>> /\ bhead[Head(path)] # NULL
    BY <1>11, LineageGoes
  <2>2. call'[p].path = path /\ call'[p].key = call[p].key
    BY <1>1, <2>1 DEF Calls
  <2>3. pc'[p] = "bucket" /\ bhead' = bhead
    BY <1>1, <1>11 DEF FindPath, Goto, tableVars
  <2>4. QED
    BY <2>1, <2>2, <2>3 DEF Descends
<1>12. CASE MissBucket(p)
  <2>1. /\ call'[p].path = call[p].path /\ call'[p].key = call[p].key
        /\ call'[p].bucket = call[p].bucket
    BY <1>1, <1>12 DEF MissBucket, Calls
  <2>2. Stands(call[p].bucket, call[p].path, call[p].key)
    BY <1>2, <1>12 DEF MissBucket, Goto, Descends
  <2>3. QED
    BY <1>2, <2>1, <2>2 DEF Descends
<1>13. CASE ListStep(p)
  <2>1. call' = call
    BY <1>13 DEF ListStep, SearchStep, LoadLink, LinkNode, LoadRemoved, MarkRemoved
  <2>2. pc'[p] \notin {"bucket", "claim"}
    BY <1>1, <1>13
       DEF ListStep, SearchStep, Search, SearchLoad, SearchChanged, SearchProtect,
           Help, Unlink, SearchAgain, Recheck, Examine, LoadLink, InsertLoad,
           LinkNode, InsertLink, LoadRemoved, RemoveLoad, MarkRemoved, RemoveMark,
           Goto
  <2>3. QED
    BY <1>2, <2>1, <2>2 DEF Descends
<1>14. CASE TableStep(p) /\ ~ (Insert(p) \/ FindOrRemove(p) \/ Return(p)
                \/ PassBucket(p) \/ StoreHead(p) \/ ClaimBucket(p) \/ FindPath(p)
                \/ MissBucket(p))
  <2>1. call'[p].path = call[p].path /\ call'[p].key = call[p].key
    <3>1. CASE LoadCurrent(p) \/ InsertGoesOn(p)
      BY <1>1, <3>1 DEF LoadCurrent, InsertGoesOn, Calls
    <3>2. CASE ~ (LoadCurrent(p) \/ InsertGoesOn(p))
      BY <1>14, <3>2
         DEF TableStep, CheckFactor, Grow, Publish, SearchDummy, SearchKey,
             FindEnds, InsertRefused, RemoveRefused, RemoveClaims, LinkFails,
             CountDummy, CountKey, MarkFails, CountRemoved
    <3>3. QED
      BY <3>1, <3>2
  <2>2. pc'[p] \notin {"bucket", "claim"}
    BY <1>1, <1>14
       DEF TableStep, LoadCurrent, CheckFactor, Grow, Publish, SearchDummy,
           SearchKey, BeginSearch, FindEnds, InsertRefused, InsertGoesOn,
           RemoveRefused, RemoveClaims, LinkFails, CountDummy, CountKey, Count,
           MarkFails, CountRemoved, Finish, Goto
  <2>3. QED
    BY <1>2, <2>1, <2>2 DEF Descends
<1>15. QED
  BY <1>6, <1>7, <1>8, <1>9, <1>10, <1>11, <1>12, <1>13, <1>14

-----------------------------------------------------------------------------
\* Heads.  A node that serves a bucket serves the ones behind it.
LEMMA ServesOn ==
  ASSUME IInv, NEW n, NEW b \in Buckets, NEW c \in Buckets,
         Serves(n, b), LowRank[b] <= LowRank[c]
  PROVE  Serves(n, c)
<1>1. n \in Nodes
  BY Typed DEF Serves
<1>2. item[n].rank \in Int /\ LowRank[b] \in Int /\ LowRank[c] \in Int
  BY <1>1, Typed, Ranked
<1>3. QED
  BY <1>2 DEF Serves

\* Who makes a bucket goes on making it until its head is stored.
LEMMA MakersStay ==
  ASSUME IInv, NEW p \in Threads, TableStep(p) \/ ListStep(p),
         NEW q \in Threads, call[q].making # 0, ~ (q = p /\ StoreHead(p))
  PROVE  call'[q].making = call[q].making
<1>1. CASE q # p
  BY <1>1, Others
<1>2. CASE q = p
  <2>1. pc[p] \in MakerPcs
    BY <1>2 DEF IInv, Makers
  <2>2. ~ Begin(p) /\ ~ ClaimBucket(p)
    BY <1>2, <2>1 DEF Begin, Insert, FindOrRemove, Return, PassBucket, ClaimBucket,
       Goto, MakerPcs, SearchPcs
  <2>3. Onward(p)
    BY <2>2 DEF Onward
  <2>4. QED
    BY <1>2, <2>3, GoesOn
<1>3. QED
  BY <1>1, <1>2

\* What Heads says of one thread.
Makes(p) ==
  /\ pc[p] = "claim" => Serves(call[p].parent, Head(call[p].path))
  /\ call[p].making # 0 =>
       /\ call[p].making = Head(call[p].path)
       /\ Serves(call[p].parent, call[p].making)
       /\ pc[p] \in {"count", "store"} =>
            /\ local[p].curr.to \in 2 .. used - 1
            /\ item[local[p].curr.to]
                 = Item(LowRank[call[p].making], call[p].making, TRUE)

LEMMA StepMakes ==
  ASSUME IInv, Descent, Heads, NEW p \in Threads, TableStep(p) \/ ListStep(p)
  PROVE  Makes(p)'
<1>1. /\ pc \in [Threads -> Pcs]
      /\ call \in [Threads -> Calls]
      /\ local \in [Threads -> Locals]
      /\ call[p] \in Calls
      /\ local[p] \in Locals
      /\ item \in [Nodes -> [rank : Ranks, key : Buckets \cup Keys,
                             dummy : BOOLEAN]]
      /\ used \in 3 .. MaxNodes
      /\ call[p].path \in Seq(Buckets)
      /\ call[p].bucket \in Buckets
      /\ call[p].making \in Buckets
      /\ used \in Int /\ used' \in Int /\ used <= used'
      /\ \A n \in 2 .. used - 1 : n \in 2 .. used' - 1 /\ item'[n] = item[n]
  BY Typed, NodesStay
<1>2. Makes(p)
  BY DEF Heads, Makes
<1>3. CASE Begin(p)
  <2>1. call'[p].making = 0
    BY <1>3, MakesNone
  <2>2. pc'[p] # "claim"
    BY <1>1, <1>3 DEF Begin, Insert, FindOrRemove, Return, PassBucket, StoreHead,
       ClaimBucket, Goto
  <2>3. QED
    BY <2>1, <2>2 DEF Makes
<1>4. CASE ClaimBucket(p) /\ ClaimWins(Head(call[p].path))
  <2>1. /\ call'[p].making = Head(call[p].path) /\ call'[p].path = call[p].path
        /\ call'[p].parent = call[p].parent /\ pc'[p] = "making"
    BY <1>4, Claims
  <2>2. Serves(call[p].parent, Head(call[p].path))
    BY <1>2, <1>4 DEF ClaimBucket, Makes
  <2>3. UNCHANGED <<item, used>>
    BY <1>4 DEF ClaimBucket, listVars
  <2>4. QED
    BY <2>1, <2>2, <2>3 DEF Makes, Serves
<1>5. CASE Onward(p)
  <2>1. CASE MissBucket(p)
    <3>1. /\ call'[p].path = call[p].path /\ call'[p].making = call[p].making
          /\ call'[p].parent = bhead[call[p].bucket]
          /\ call[p].path # <<>> /\ pc[p] = "bucket" /\ pc'[p] = "claim"
          /\ bhead[Head(call[p].path)] = NULL
          /\ UNCHANGED <<item, used>>
      BY <1>1, <2>1 DEF MissBucket, Goto, Calls, listVars
    <3>2. LowRank[call[p].bucket] <= LowRank[Head(call[p].path)]
      BY <3>1 DEF Descent
    <3>3. Serves(bhead[call[p].bucket], call[p].bucket)
      BY <1>1 DEF Heads, IInv, Followed
    <3>4. Head(call[p].path) \in Buckets
      BY <1>1, <3>1, HeadTailProperties
    <3>5. Serves(bhead[call[p].bucket], Head(call[p].path))
      BY <1>1, <3>2, <3>3, <3>4, ServesOn
    <3>6. call[p].making = 0
      BY <3>1 DEF IInv, Makers, MakerPcs, SearchPcs
    <3>7. QED
      BY <3>1, <3>5, <3>6 DEF Makes, Serves
  <2>2. CASE ~ MissBucket(p)
    <3>1. pc'[p] # "claim"
      BY <1>1, <1>5, <2>2
         DEF Onward, Begin, ListStep, SearchStep, Search, SearchLoad, SearchChanged,
             SearchProtect, Help, Unlink, SearchAgain, Recheck, Examine, LoadLink,
             InsertLoad, LinkNode, InsertLink, LoadRemoved, RemoveLoad,
             MarkRemoved, RemoveMark, TableStep, LoadCurrent, CheckFactor, Grow,
             Publish, FindPath, SearchDummy, SearchKey, BeginSearch, FindEnds,
             InsertRefused, InsertGoesOn, RemoveRefused, RemoveClaims, LinkFails,
             CountDummy, CountKey, Count, MarkFails, CountRemoved, Finish, Goto
    <3>2. call'[p].making = call[p].making
      BY <1>5, GoesOn
    <3>3. CASE call[p].making = 0
      BY <3>1, <3>2, <3>3 DEF Makes
    <3>4. CASE call[p].making # 0
      <4>1. call'[p] = call[p]
        BY <1>5, <3>4, GoesOn
      <4>2. /\ call[p].making = Head(call[p].path)
            /\ Serves(call[p].parent, call[p].making)
        BY <1>2, <3>4 DEF Makes
      <4>3. Serves(call[p].parent, call[p].making)'
        <5> DEFINE n == call[p].parent
        <5>1. n \in 2 .. used - 1 /\ item[n].dummy
              /\ item[n].rank <= LowRank[call[p].making]
          BY <4>2 DEF Serves
        <5> HIDE DEF n
        <5>2. n \in 2 .. used' - 1 /\ item'[n] = item[n]
          BY <1>1, <5>1
        <5>3. Serves(n, call[p].making)' <=>
                /\ n' \in 2 .. used' - 1 /\ item'[n'].dummy
                /\ item'[n'].rank <= LowRank[call'[p].making]
          BY DEF Serves
        <5>4. n' = n /\ call'[p].making = call[p].making
          BY <4>1 DEF n
        <5>5. QED
          BY <5>1, <5>2, <5>3, <5>4 DEF n
      <4> DEFINE Made == /\ local'[p].curr.to \in 2 .. used' - 1
                         /\ item'[local'[p].curr.to]
                              = Item(LowRank[call[p].making], call[p].making, TRUE)
      <4>4. ASSUME pc'[p] \in {"count", "store"} PROVE Made
        <5>1. CASE LinkNode(p)
          <6>1. /\ used' = used + 1 /\ used \in Nodes
                /\ item' = [item EXCEPT ![used] =
                     Item(LowRank[call[p].making], call[p].making, TRUE)]
                /\ local' = [local EXCEPT ![p].curr = Link(used, FALSE)]
            BY <3>4, <5>1, NewNode DEF LinkNode, InsertLink
          <6>2. local'[p].curr.to = used
            BY <1>1, <6>1 DEF Locals, Link
          <6>3. used \in 2 .. used' - 1
            BY <1>1, <6>1
          <6>4. item'[used] = Item(LowRank[call[p].making], call[p].making, TRUE)
            BY <1>1, <6>1
          <6>5. QED
            BY <6>2, <6>3, <6>4
        <5>2. CASE ~ LinkNode(p)
          <6>1. pc[p] = "count" /\ local' = local /\ UNCHANGED <<item, used>>
            BY <1>1, <1>5, <2>2, <3>4, <4>4, <5>2
               DEF Onward, Begin, ListStep, SearchStep, Search, SearchLoad,
                   SearchChanged, SearchProtect, Help, Unlink, SearchAgain,
                   Recheck, Examine, LoadLink, InsertLoad, LoadRemoved,
                   RemoveLoad, MarkRemoved, RemoveMark, TableStep, LoadCurrent,
                   CheckFactor, Grow, Publish, FindPath, SearchDummy, SearchKey,
                   BeginSearch, FindEnds, InsertRefused, InsertGoesOn,
                   RemoveRefused, RemoveClaims, LinkFails, CountDummy, CountKey,
                   Count, MarkFails, CountRemoved, Finish, Goto
          <6>2. QED
            BY <1>2, <3>4, <6>1 DEF Makes
        <5>3. QED
          BY <5>1, <5>2
      <4> HIDE DEF Made
      <4>5. Makes(p)' <=>
              ( /\ call[p].making = Head(call[p].path)
                /\ Serves(call[p].parent, call[p].making)'
                /\ pc'[p] \in {"count", "store"} => Made )
        BY <3>1, <3>4, <4>1 DEF Makes, Made
      <4>6. QED
        BY <4>2, <4>3, <4>4, <4>5
    <3>5. QED
      BY <3>3, <3>4
  <2>3. QED
    BY <2>1, <2>2
<1>6. QED
  BY <1>3, <1>4, <1>5, Cases

\* The head of a bucket is replaced by the thread that makes it only.
LEMMA StepHead ==
  ASSUME IInv, Heads, NEW p \in Threads, TableStep(p) \/ ListStep(p),
         NEW b \in Buckets, bhead'[b] # NULL
  PROVE  /\ Serves(bhead[b], b)'
         /\ item'[bhead'[b]].key # b =>
              b # 0 /\ \E q \in Threads : call'[q].making = b
<1>1. /\ bhead \in [Buckets -> Pointers]
      /\ used \in Int /\ used' \in Int /\ used <= used'
      /\ \A n \in 2 .. used - 1 : n \in 2 .. used' - 1 /\ item'[n] = item[n]
      /\ LowRank[b] \in Int
      /\ call[p].making \in Buckets
  BY Typed, NodesStay, Ranked
<1>2. ASSUME NEW n, Serves(n, b)
      PROVE  /\ n \in 2 .. used' - 1 /\ item'[n] = item[n]
             /\ item'[n].dummy /\ item'[n].rank <= LowRank[b]
  BY <1>1, <1>2 DEF Serves
<1>3. CASE bhead'[b] = bhead[b]
  <2>1. Serves(bhead[b], b) /\ (item[bhead[b]].key # b =>
                              b # 0 /\ \E q \in Threads : call[q].making = b)
    BY <1>3 DEF Heads
  <2>2. item'[bhead[b]] = item[bhead[b]]
    BY <1>2, <2>1
  <2>3. Serves(bhead[b], b)'
    BY <1>2, <1>3, <2>1 DEF Serves
  <2>4. ASSUME item'[bhead'[b]].key # b
        PROVE  b # 0 /\ \E q \in Threads : call'[q].making = b
    <3>1. PICK q \in Threads : b # 0 /\ call[q].making = b
      BY <1>3, <2>1, <2>2, <2>4
    <3>2. CASE q = p /\ StoreHead(p)
      <4>1. bhead'[b] = local[p].curr.to /\ pc[p] = "store"
        BY <1>1, <3>1, <3>2 DEF StoreHead, Goto
      <4>2. item[bhead'[b]] = Item(LowRank[b], b, TRUE)
        BY <2>4, <3>1, <3>2, <4>1 DEF Heads
      <4>3. QED
        BY <1>3, <2>2, <2>4, <4>2 DEF Item
    <3>3. CASE ~ (q = p /\ StoreHead(p))
      BY <2>4, <3>1, <3>3, MakersStay
    <3>4. QED
      BY <3>2, <3>3
  <2>5. QED
    BY <2>3, <2>4
<1>4. CASE StoreHead(p) /\ b = call[p].making
  <2>1. pc[p] = "store" /\ bhead'[b] = local[p].curr.to /\ b # 0
    BY <1>1, <1>4 DEF StoreHead, Goto, IInv, Makers
  <2>2. bhead'[b] \in 2 .. used - 1 /\ item[bhead'[b]] = Item(LowRank[b], b, TRUE)
    BY <1>4, <2>1 DEF Heads
  <2>3. item'[bhead'[b]] = Item(LowRank[b], b, TRUE) /\ bhead'[b] \in 2 .. used' - 1
    BY <1>1, <2>2
  <2>4. QED
    BY <1>1, <2>3 DEF Serves, Item
<1>5. CASE ClaimBucket(p) /\ ClaimWins(b) /\ b = Head(call[p].path)
  <2>1. call'[p].making = b /\ b # 0
        /\ bhead' = [bhead EXCEPT ![b] = call[p].parent]
    BY <1>5, Claims
  <2>2. Serves(call[p].parent, b)
    BY <1>5 DEF ClaimBucket, Heads
  <2>3. bhead'[b] = call[p].parent
    BY <1>1, <2>1
  <2>4. QED
    BY <1>2, <2>1, <2>2, <2>3 DEF Serves
<1>6. CASE ~ StoreHead(p) /\ ~ ClaimBucket(p)
  <2>1. bhead' = bhead
    BY <1>6
       DEF ListStep, SearchStep, LoadLink, LinkNode, LoadRemoved, MarkRemoved,
           TableStep, Insert, FindOrRemove, Return, LoadCurrent, CheckFactor, Grow,
           Publish, FindPath, PassBucket, MissBucket, SearchDummy, SearchKey,
           FindEnds, InsertRefused, InsertGoesOn, RemoveRefused, RemoveClaims,
           LinkFails, CountDummy, CountKey, MarkFails, CountRemoved, tableVars
  <2>2. QED
    BY <1>3, <2>1
<1>7. CASE StoreHead(p) /\ b # call[p].making
  BY <1>1, <1>3, <1>7 DEF StoreHead
<1>8. CASE ClaimBucket(p) /\ ~ (ClaimWins(b) /\ b = Head(call[p].path))
  BY <1>1, <1>3, <1>8 DEF ClaimBucket
<1>9. QED
  BY <1>4, <1>5, <1>6, <1>7, <1>8

LEMMA StepHeads ==
  ASSUME IInv, Descent, Heads, NEW p \in Threads, TableStep(p) \/ ListStep(p)
  PROVE  Heads'
<1>1. Makes(p)'
  BY StepMakes
<1>2. ASSUME NEW q \in Threads \ {p} PROVE Makes(q)'
  <2>1. /\ pc'[q] = pc[q] /\ call'[q] = call[q] /\ local'[q] = local[q]
    BY Others
  <2>2. Makes(q)
    BY DEF Heads, Makes
  <2>3. \A n, b : Serves(n, b) => /\ n \in 2 .. used' - 1 /\ item'[n].dummy
                                  /\ item'[n].rank <= LowRank[b]
    <3> SUFFICES ASSUME NEW n, NEW b, Serves(n, b)
                 PROVE  /\ n \in 2 .. used' - 1 /\ item'[n].dummy
                        /\ item'[n].rank <= LowRank[b]
      OBVIOUS
    <3>1. n \in 2 .. used' - 1 /\ item'[n] = item[n]
      BY NodesStay DEF Serves
    <3>2. QED
      BY <3>1 DEF Serves
  <2>4. \A n \in 2 .. used - 1 : n \in 2 .. used' - 1 /\ item'[n] = item[n]
    BY NodesStay
  <2>5. Makes(q)' <=>
          /\ pc[q] = "claim" =>
               /\ call[q].parent \in 2 .. used' - 1 /\ item'[call[q].parent].dummy
               /\ item'[call[q].parent].rank <= LowRank[Head(call[q].path)]
          /\ call[q].making # 0 =>
               /\ call[q].making = Head(call[q].path)
               /\ call[q].parent \in 2 .. used' - 1 /\ item'[call[q].parent].dummy
               /\ item'[call[q].parent].rank <= LowRank[call[q].making]
               /\ pc[q] \in {"count", "store"} =>
                    /\ local[q].curr.to \in 2 .. used' - 1
                    /\ item'[local[q].curr.to]
                         = Item(LowRank[call[q].making], call[q].making, TRUE)
    BY <2>1 DEF Makes, Serves
  <2>6. QED
    BY <2>2, <2>3, <2>4, <2>5 DEF Makes
<1>3. QED
  BY <1>1, <1>2, StepHead DEF Heads, Makes

-----------------------------------------------------------------------------
\* Before the first removal.  A step that links nothing, and no mark set.
LEMMA StepCalm ==
  ASSUME IInv, Known, Heads, Calm, NEW p \in Threads, TableStep(p) \/ ListStep(p)
  PROVE  Calm'
<1> SUFFICES ASSUME removed' = {}
             PROVE  /\ Reachable' = 0 .. used' - 1
                    /\ \A n \in 0 .. used' - 1 : ~ next'[n].marked
                    /\ \A q \in Threads :
                         /\ pc'[q] \notin {"help", "unlink", "recheck", "removing",
                                           "mark", "uncount"}
                         /\ ~ local'[q].curr.marked /\ ~ local'[q].nxt.marked
  BY DEF Calm
<1>1. /\ next \in [Nodes -> Links]
      /\ pc \in [Threads -> Pcs]
      /\ local \in [Threads -> Locals]
      /\ local[p] \in Locals
      /\ used \in 3 .. MaxNodes
      /\ 0 .. used - 1 \subseteq Nodes
      /\ NULL \notin 0 .. used
      /\ MaxNodes \in Nat
      /\ local[p].curr \in Links /\ local[p].nxt \in Links
  BY Typed, Constants
<1>2. removed = {} /\ ~ RemoveClaims(p)
  <2>1. CASE RemoveClaims(p)
    BY <2>1 DEF RemoveClaims
  <2>2. CASE ~ RemoveClaims(p)
    <3>1. removed' = removed
      BY <2>2
         DEF ListStep, SearchStep, LoadLink, LinkNode, LoadRemoved, MarkRemoved,
           TableStep, Insert, FindOrRemove, Return, LoadCurrent, CheckFactor, Grow,
           Publish, FindPath, PassBucket, MissBucket, ClaimBucket, SearchDummy,
           StoreHead, SearchKey, FindEnds, InsertRefused, InsertGoesOn,
           RemoveRefused, LinkFails, CountDummy, CountKey, MarkFails,
           CountRemoved, tableVars
    <3>2. QED
      BY <2>2, <3>1
  <2>3. QED
    BY <2>1, <2>2
<1>3. /\ Reachable = 0 .. used - 1
      /\ \A n \in 0 .. used - 1 : ~ next[n].marked
      /\ \A q \in Threads :
           /\ pc[q] \notin {"help", "unlink", "recheck", "removing", "mark",
                            "uncount"}
           /\ ~ local[q].curr.marked /\ ~ local[q].nxt.marked
  BY <1>2 DEF Calm
<1>4. \A q \in Threads \ {p} :
        /\ pc'[q] \notin {"help", "unlink", "recheck", "removing", "mark",
                          "uncount"}
        /\ ~ local'[q].curr.marked /\ ~ local'[q].nxt.marked
  BY <1>3, Others
<1>5. /\ ~ Help(p) /\ ~ Unlink(p) /\ ~ Recheck(p)
      /\ ~ LoadRemoved(p) /\ ~ MarkRemoved(p) /\ ~ CountRemoved(p)
  BY <1>3 DEF Help, Unlink, Recheck, LoadRemoved, RemoveLoad, MarkRemoved,
     RemoveMark, CountRemoved, Count, Goto
<1>6. pc'[p] \notin {"help", "unlink", "recheck", "removing", "mark", "uncount"}
  <2>1. CASE SearchProtect(p)
    BY <1>1, <1>3, <2>1 DEF SearchProtect, Goto
  <2>2. CASE ~ SearchProtect(p)
    BY <1>1, <1>2, <1>5, <2>2
       DEF ListStep, SearchStep, Search, SearchLoad, SearchChanged, SearchAgain,
           Examine, LoadLink, InsertLoad, LinkNode, InsertLink, TableStep, Insert,
           FindOrRemove, Return, LoadCurrent, CheckFactor, Grow, Publish, FindPath,
           PassBucket, MissBucket, ClaimBucket, SearchDummy, StoreHead, SearchKey,
           BeginSearch, FindEnds, InsertRefused, InsertGoesOn, RemoveRefused,
           LinkFails, CountDummy, CountKey, Count, MarkFails, Finish, Goto
  <2>3. QED
    BY <2>1, <2>2
<1>7. CASE LinkNode(p)
  <2>1. /\ used' = used + 1 /\ used \in Nodes
        /\ local[p].nxt = next[local[p].prev]
        /\ next' = [next EXCEPT ![used] = local[p].nxt,
                                ![local[p].prev] = Link(used, FALSE)]
        /\ local' = [local EXCEPT ![p].curr = Link(used, FALSE)]
    BY <1>7, NewNode DEF LinkNode, InsertLink, InsertWins
  <2>2. local[p].prev \in 0 .. used - 1
    BY <1>7 DEF LinkNode, InsertLink, Goto, SearchPcs, IInv, Followed, Known
  <2> DEFINE prev == local[p].prev
  <2>3. /\ next' \in [Nodes -> Links] /\ prev # used
        /\ next'[used] = next[prev] /\ next'[prev] = Link(used, FALSE)
        /\ \A n \in 0 .. used - 1 : n # prev => next'[n] = next[n]
    <3>1. Link(used, FALSE) \in Links
      BY <2>1, LinkFields DEF Pointers
    <3>2. prev \in Nodes /\ prev # used
      BY <1>1, <2>2
    <3>3. next' = [next EXCEPT ![used] = next[prev], ![prev] = Link(used, FALSE)]
      BY <2>1
    <3> HIDE DEF prev
    <3>4. next[prev] \in Links
      BY <1>1, <3>2
    <3>5. next' \in [Nodes -> Links]
      BY <1>1, <3>1, <3>3, <3>4
    <3>6. /\ next'[used] = next[prev] /\ next'[prev] = Link(used, FALSE)
          /\ \A n \in Nodes : n # used /\ n # prev => next'[n] = next[n]
      BY <1>1, <2>1, <3>2, <3>3
    <3>7. \A n \in 0 .. used - 1 : n \in Nodes /\ n # used
      BY <1>1
    <3>8. QED
      BY <3>2, <3>5, <3>6, <3>7
  <2> HIDE DEF prev
  <2>4. Reachable' = Reachable \cup {used}
    <3>1. /\ prev \in ReachableBy(next) /\ used \in Nodes \ ReachableBy(next)
          /\ \A n \in ReachableBy(next) \ {prev} : next'[n].to = next[n].to
          /\ next'[prev].to = used /\ next'[used].to = next[prev].to
      BY <1>1, <1>3, <2>1, <2>2, <2>3 DEF Reachable, Link, prev
    <3>2. next \in [Nodes -> Links] /\ next' \in [Nodes -> Links]
      BY <1>1, <2>3
    <3>3. ReachableBy(next') = ReachableBy(next) \cup {used}
      BY <3>1, <3>2, InsertReach
    <3>4. QED
      BY <3>3 DEF Reachable
  <2>5. Reachable' = 0 .. used' - 1
    BY <1>1, <1>3, <2>1, <2>4
  <2>6. \A n \in 0 .. used' - 1 : ~ next'[n].marked
    <3>1. prev \in 0 .. used - 1
      BY <2>2 DEF prev
    <3>2. ~ next'[used].marked /\ ~ next'[prev].marked
      BY <1>3, <2>3, <3>1 DEF Link
    <3>3. \A n \in 0 .. used' - 1 : n = used \/ n = prev \/ (n \in 0 .. used - 1 /\ n # prev)
      BY <1>1, <2>1
    <3>4. QED
      BY <1>3, <2>3, <3>2, <3>3
  <2>7. ~ local'[p].curr.marked /\ ~ local'[p].nxt.marked
    BY <1>1, <1>3, <2>1 DEF Locals, Link
  <2>8. QED
    BY <1>4, <1>6, <2>5, <2>6, <2>7
<1>8. CASE ~ LinkNode(p)
  <2>1. UNCHANGED <<next, used>>
    BY <1>5, <1>8
       DEF ListStep, SearchStep, Search, SearchLoad, SearchChanged, SearchProtect,
           SearchAgain, Examine, LoadLink, InsertLoad, TableStep, Insert,
           FindOrRemove, Return, LoadCurrent, CheckFactor, Grow, Publish, FindPath,
           PassBucket, MissBucket, ClaimBucket, SearchDummy, StoreHead, SearchKey,
           BeginSearch, FindEnds, InsertRefused, InsertGoesOn, RemoveRefused,
           RemoveClaims, LinkFails, CountDummy, CountKey, Count, MarkFails,
           CountRemoved, listVars
  <2>2. Reachable' = Reachable
    BY <2>1 DEF Reachable
  <2>3. ~ local'[p].curr.marked /\ ~ local'[p].nxt.marked
    <3>1. CASE SearchLoad(p) \/ LoadLink(p)
      <4>1. local[p].prev \in 0 .. used - 1
        BY <3>1 DEF SearchLoad, LoadLink, InsertLoad, Goto, SearchPcs, IInv,
           Followed, Known
      <4>2. QED
        BY <1>1, <1>3, <3>1, <4>1 DEF SearchLoad, LoadLink, InsertLoad, Locals
    <3>2. CASE SearchDummy(p) \/ SearchKey(p) \/ Return(p)
      <4>1. local'[p].curr = Nil /\ local'[p].nxt = Nil
        <5>1. CASE SearchDummy(p)
          BY <1>1, <5>1 DEF SearchDummy, BeginSearch, NoLocal
        <5>2. CASE SearchKey(p)
          BY <1>1, <5>2 DEF SearchKey, BeginSearch, NoLocal
        <5>3. CASE Return(p)
          BY <1>1, <5>3 DEF Return, NoLocal
        <5>4. QED
          BY <3>2, <5>1, <5>2, <5>3
      <4>2. QED
        BY <4>1 DEF Nil, Link
    <3>3. CASE ~ (SearchLoad(p) \/ LoadLink(p) \/ SearchDummy(p) \/ SearchKey(p)
                  \/ Return(p))
      <4>1. local'[p].curr = local[p].curr /\ local'[p].nxt = local[p].nxt
        <5>1. CASE SearchChanged(p) \/ SearchAgain(p) \/ Examine(p) \/ SearchProtect(p)
          BY <1>1, <5>1 DEF SearchChanged, SearchAgain, Examine, SearchProtect, Locals
        <5>2. CASE ~ (SearchChanged(p) \/ SearchAgain(p) \/ Examine(p)
                      \/ SearchProtect(p))
          <6>1. local' = local
            BY <1>5, <1>8, <3>3, <5>2
               DEF ListStep, SearchStep, Search, TableStep, Insert, FindOrRemove,
                   LoadCurrent, CheckFactor, Grow, Publish, FindPath, PassBucket,
                   MissBucket, ClaimBucket, StoreHead, FindEnds, InsertRefused,
                   InsertGoesOn, RemoveRefused, RemoveClaims, LinkFails,
                   CountDummy, CountKey, Count, MarkFails, CountRemoved
          <6>2. QED
            BY <6>1
        <5>3. QED
          BY <5>1, <5>2
      <4>2. QED
        BY <1>3, <4>1
    <3>4. QED
      BY <3>1, <3>2, <3>3
  <2>4. QED
    BY <1>3, <1>4, <1>6, <2>1, <2>2, <2>3
<1>9. QED
  BY <1>7, <1>8

-----------------------------------------------------------------------------
\* The links of the first list, and all that is reachable over them.
LEMMA FirstList ==
  ASSUME Init
  PROVE  Reachable = 0 .. used - 1
<1>1. /\ next = [n \in Nodes |-> CASE n = First -> Link(Ghost, FALSE)
                                   [] n = Ghost -> Link(2, FALSE)
                                   [] OTHER     -> Nil]
      /\ used = 3 /\ {0, 1, 2} \subseteq Nodes /\ 0 .. used - 1 = {0, 1, 2}
      /\ next \in [Nodes -> Links]
      /\ NULL \notin Nodes
  <2>1. next \in [Nodes -> Links]
    BY InitIInv DEF IInv, TypeOK
  <2>2. used = 3 /\ {0, 1, 2} \subseteq Nodes /\ NULL \notin Nodes
    BY Constants DEF Init, ListInit
  <2>3. 0 .. used - 1 = {0, 1, 2}
    BY <2>2
  <2>4. QED
    BY <2>1, <2>2, <2>3 DEF Init, ListInit
<1>2. next[0].to = 1 /\ next[1].to = 2 /\ next[2].to = NULL
  BY <1>1 DEF First, Ghost, Link, Nil
<1>3. First \in {0, 1, 2} /\ Closed(next, {0, 1, 2})
  BY <1>2 DEF First, Closed
<1>4. ReachableBy(next) \subseteq {0, 1, 2}
  BY <1>1, <1>3, ReachableLeast
<1>5. /\ First \in ReachableBy(next)
      /\ \A n \in ReachableBy(next) \cap Nodes :
           next[n].to \in ReachableBy(next) \cup {NULL}
  BY <1>1, ReachableClosed DEF Closed
<1>6. {0, 1, 2} \subseteq ReachableBy(next)
  <2>1. 0 \in ReachableBy(next)
    BY <1>5 DEF First
  <2>2. 1 \in ReachableBy(next)
    BY <1>1, <1>2, <1>5, <2>1
  <2>3. 2 \in ReachableBy(next)
    BY <1>1, <1>2, <1>5, <2>2
  <2>4. QED
    BY <2>1, <2>2, <2>3
<1>7. QED
  BY <1>1, <1>4, <1>6 DEF Reachable

LEMMA InitListInv == Init => ListInv
<1> SUFFICES ASSUME Init PROVE ListInv
  OBVIOUS
<1>1. IInv
  BY InitIInv
<1>2. /\ next = [n \in Nodes |-> CASE n = First -> Link(Ghost, FALSE)
                                   [] n = Ghost -> Link(2, FALSE)
                                   [] OTHER     -> Nil]
      /\ used = 3 /\ {0, 1, 2} \subseteq Nodes /\ 0 .. used - 1 = {0, 1, 2}
      /\ 1 .. used - 1 = {1, 2} /\ 2 .. used - 1 = {2}
      /\ item = [n \in Nodes |-> Item(0, 0, TRUE)]
      /\ pc = [p \in Threads |-> "idle"]
      /\ local = [p \in Threads |-> NoLocal]
      /\ call = [p \in Threads |-> NoCall]
      /\ bhead = [b \in Buckets |-> IF b = 0 THEN 2 ELSE NULL]
  BY Constants DEF Init, ListInit
<1>3. /\ next[0] = Link(1, FALSE) /\ next[1] = Link(2, FALSE) /\ next[2] = Nil
  BY <1>2 DEF First, Ghost
<1>4. Known
  BY <1>2, <1>3 DEF Known, Linked, NoLocal, Nil, Link
<1>5. Descent
  BY <1>2 DEF Descent, NoCall
<1>6. Heads
  BY <1>2, RankOrder DEF Heads, Serves, NoCall, Item
<1>7. Calm
  BY <1>2, <1>3, FirstList DEF Calm, NoLocal, Nil, Link
<1>8. QED
  BY <1>1, <1>4, <1>5, <1>6, <1>7 DEF ListInv

LEMMA ListInductive == ListInv /\ [Next]_vars => ListInv'
<1> SUFFICES ASSUME ListInv, [Next]_vars PROVE ListInv'
  OBVIOUS
<1>1. IInv'
  BY Inductive DEF ListInv
<1>2. CASE Next
  <2>1. IInv
    BY DEF ListInv
  <2>2. PICK p \in Threads : TableStep(p) \/ ListStep(p)
    BY <1>2, Steps
  <2>3. QED
    BY <1>1, <2>1, <2>2, StepKnown, StepDescent, StepHeads, StepCalm DEF ListInv
<1>3. CASE UNCHANGED vars
  BY <1>1, <1>3
     DEF vars, listVars, tableVars, ListInv, Known, Linked, Descent, Heads, Serves,
         Calm, Reachable
<1>4. QED
  BY <1>2, <1>3

THEOREM ListInvariance == Spec => []ListInv
<1>1. QED
  BY InitListInv, ListInductive, PTL DEF Spec

\* A node that is reachable, but for head_ itself, is next of another one.
LEMMA Reached ==
  ASSUME NEW links \in [Nodes -> Links], NEW n \in ReachableBy(links), n # First
  PROVE  \E m \in ReachableBy(links) : links[m].to = n
<1> DEFINE R == ReachableBy(links)
<1>1. First \in R /\ R \subseteq Nodes /\ Closed(links, R)
  BY ReachableClosed
<1> SUFFICES ASSUME \A m \in R : links[m].to # n PROVE FALSE
  OBVIOUS
<1>2. Closed(links, R \ {n}) /\ First \in R \ {n}
  BY <1>1 DEF Closed
<1>3. R \subseteq R \ {n}
  BY <1>2, ReachableLeast
<1>4. QED
  BY <1>3

\* Until something is removed, whatever was linked in is there: of two
\* insertions behind the same node one fails.
THEOREM NoInsertionLost == Spec => []NothingLost
<1>1. ListInv => NothingLost
  BY DEF ListInv, Calm, NothingLost
<1>2. QED
  BY <1>1, ListInvariance, PTL

\* A bucket is found from its head at any time, with any number of threads at
\* it: also from the head that it borrows from its parent.
THEOREM HeadsServe == Spec => []HeadServes
<1>1. ListInv => HeadServes
  <2> SUFFICES ASSUME ListInv, NEW b \in Buckets, bhead[b] # NULL
               PROVE  /\ item[bhead[b]].dummy
                      /\ removed = {} => bhead[b] \in Live
                      /\ item[bhead[b]].rank <= LowRank[b]
                      /\ item[bhead[b]].key # b =>
                           \E p \in Threads : call[p].making = b
    BY DEF HeadServes
  <2>1. /\ Serves(bhead[b], b)
        /\ item[bhead[b]].key # b => \E p \in Threads : call[p].making = b
    BY DEF ListInv, Heads
  <2>2. ASSUME removed = {} PROVE bhead[b] \in Live
    <3> DEFINE n == bhead[b]
    <3>1. /\ Reachable = 0 .. used - 1
          /\ \A m \in 0 .. used - 1 : ~ next[m].marked
      BY <2>2 DEF ListInv, Calm
    <3>2. next \in [Nodes -> Links] /\ n \in 2 .. used - 1 /\ used \in Int /\ n # NULL
      BY <2>1, Typed, Constants DEF Serves, ListInv
    <3> HIDE DEF n
    <3>3. n \in ReachableBy(next) /\ n # First
      BY <3>1, <3>2 DEF Reachable, First
    <3>4. PICK m \in ReachableBy(next) : next[m].to = n
      BY <3>2, <3>3, Reached
    <3>5. m \in Reachable /\ ~ next[m].marked
      BY <3>1, <3>4 DEF Reachable
    <3>6. QED
      BY <3>2, <3>4, <3>5 DEF Live, n
  <2>3. QED
    BY <2>1, <2>2 DEF Serves
<1>2. QED
  BY <1>1, ListInvariance, PTL

-----------------------------------------------------------------------------
\* The count.
LEMMA StepCounted ==
  ASSUME IsFiniteSet(Threads), ListInv, Counted, NEW p \in Threads,
         TableStep(p) \/ ListStep(p)
  PROVE  Counted'
<1> DEFINE C == {q \in Threads : pc[q] = "count"}
<1> SUFFICES ASSUME removed' = {}
             PROVE  counter' = used' - 2 - Cardinality(C')
  BY DEF Counted
<1>1. /\ IInv
      /\ pc \in [Threads -> Pcs]
      /\ used \in Int
      /\ IsFiniteSet(C) /\ Cardinality(C) \in Nat
      /\ \A q \in Threads \ {p} : pc'[q] = pc[q]
  BY Typed, NodesStay, Others, FS_Subset, FS_CardinalityType DEF ListInv
<1>2. removed = {}
  <2>1. removed \subseteq removed'
    BY DEF ListStep, SearchStep, LoadLink, LinkNode, LoadRemoved, MarkRemoved,
           TableStep, Insert, FindOrRemove, Return, LoadCurrent, CheckFactor, Grow,
           Publish, FindPath, PassBucket, MissBucket, ClaimBucket, SearchDummy,
           StoreHead, SearchKey, FindEnds, InsertRefused, InsertGoesOn,
           RemoveRefused, RemoveClaims, LinkFails, CountDummy, CountKey, MarkFails,
           CountRemoved, tableVars
  <2>2. QED
    BY <2>1
<1>3. counter = used - 2 - Cardinality(C)
  BY <1>2 DEF Counted
<1>4. CASE LinkNode(p)
  <2>1. pc[p] = "cas" /\ pc'[p] = "count" /\ used' = used + 1 /\ counter' = counter
    BY <1>1, <1>4, NewNode DEF LinkNode, InsertLink
  <2>2. C' = C \cup {p} /\ p \notin C
    BY <1>1, <2>1
  <2> HIDE DEF C
  <2>3. Cardinality(C') = Cardinality(C) + 1
    BY <1>1, <2>2, FS_AddElement
  <2>4. QED
    BY <1>1, <1>3, <2>1, <2>3
<1>5. CASE CountDummy(p) \/ CountKey(p)
  <2>1. /\ pc[p] = "count" /\ pc'[p] # "count" /\ used' = used
        /\ counter' = counter + 1
    BY <1>1, <1>5 DEF CountDummy, CountKey, Count, Goto
  <2>2. C' = C \ {p} /\ p \in C
    BY <1>1, <2>1
  <2> HIDE DEF C
  <2>3. Cardinality(C') = Cardinality(C) - 1
    BY <1>1, <2>2, FS_RemoveElement
  <2>4. QED
    BY <1>1, <1>3, <2>1, <2>3
<1>6. CASE ~ LinkNode(p) /\ ~ CountDummy(p) /\ ~ CountKey(p)
  <2>1. ~ CountRemoved(p)
    BY <1>2 DEF ListInv, Calm, CountRemoved, Count, Goto
  <2>2. pc[p] # "count" /\ pc'[p] # "count"
    BY <1>1, <1>6
       DEF ListStep, SearchStep, Search, SearchLoad, SearchChanged, SearchProtect,
           Help, Unlink, SearchAgain, Recheck, Examine, LoadLink, InsertLoad,
           LoadRemoved, RemoveLoad, MarkRemoved, RemoveMark, TableStep, Insert,
           FindOrRemove, Return, LoadCurrent, CheckFactor, Grow, Publish, FindPath,
           PassBucket, MissBucket, ClaimBucket, SearchDummy, StoreHead, SearchKey,
           BeginSearch, FindEnds, InsertRefused, InsertGoesOn, RemoveRefused,
           RemoveClaims, Looked, LinkFails, MarkFails, CountRemoved, Count, Finish,
           Goto
  <2>3. used' = used
    BY <1>1, <1>6, NoNewNode
  <2>4. counter' = counter
    BY <1>6, <2>1
       DEF ListStep, SearchStep, Search, SearchLoad, SearchChanged, SearchProtect,
           Help, Unlink, SearchAgain, Recheck, Examine, LoadLink, InsertLoad,
           LoadRemoved, RemoveLoad, MarkRemoved, RemoveMark, TableStep, Insert,
           FindOrRemove, Return, LoadCurrent, CheckFactor, Grow, Publish, FindPath,
           PassBucket, MissBucket, ClaimBucket, SearchDummy, StoreHead, SearchKey,
           BeginSearch, FindEnds, InsertRefused, InsertGoesOn, RemoveRefused,
           RemoveClaims, LinkFails, MarkFails, listVars
  <2>5. C' = C
    BY <1>1, <2>2
  <2>6. QED
    BY <1>3, <2>3, <2>4, <2>5
<1>7. QED
  BY <1>4, <1>5, <1>6

\* While nothing is removed, any finite number of threads keep size() the
\* number of nodes in the list, but for what they have not counted yet.
THEOREM SizeWhileCalm ==
  ASSUME IsFiniteSet(Threads)
  PROVE  Spec => [](removed = {} => SizeRight)
<1>1. Init => Counted
  <2> SUFFICES ASSUME Init PROVE counter = used - 2 - Cardinality({p \in Threads : pc[p] = "count"})
    BY DEF Counted
  <2>1. {p \in Threads : pc[p] = "count"} = {}
    BY DEF Init, ListInit
  <2>2. counter = 1 /\ used = 3 /\ Cardinality({p \in Threads : pc[p] = "count"}) = 0
    BY <2>1, FS_EmptySet DEF Init, ListInit
  <2>3. QED
    BY <2>2
<1>2. ListInv /\ Counted /\ [Next]_vars => Counted'
  <2> SUFFICES ASSUME ListInv, Counted, [Next]_vars PROVE Counted'
    OBVIOUS
  <2>1. CASE Next
    BY <2>1, Steps, StepCounted
  <2>2. CASE UNCHANGED vars
    BY <2>2 DEF vars, listVars, tableVars, Counted
  <2>3. QED
    BY <2>1, <2>2
<1>3. ASSUME ListInv, Counted, removed = {}
      PROVE  SizeRight
  <2>1. /\ Reachable = 0 .. used - 1
        /\ \A m \in 0 .. used - 1 : ~ next[m].marked
        /\ {p \in Threads : pc[p] = "uncount"} = {}
    BY <1>3 DEF ListInv, Calm
  <2>2. next \in [Nodes -> Links] /\ used \in 3 .. MaxNodes /\ MaxNodes \in Nat
    BY <1>3, Typed, Constants DEF ListInv
  <2>3. Live \ {Ghost} = 2 .. used - 1
    <3>1. Live = {next[m].to : m \in 0 .. used - 1} \ {NULL}
      BY <2>1 DEF Live
    <3>2. Live \subseteq 1 .. used - 1
      BY <1>3, <3>1 DEF ListInv, Known, Linked
    <3>3. 2 .. used - 1 \subseteq Live
      <4> SUFFICES ASSUME NEW n \in 2 .. used - 1 PROVE n \in Live
        OBVIOUS
      <4>1. n \in ReachableBy(next) /\ n # First
        BY <2>1, <2>2 DEF Reachable, First
      <4>2. PICK m \in ReachableBy(next) : next[m].to = n
        BY <2>2, <4>1, Reached
      <4>3. n # NULL
        BY <2>2, ListAssumption
      <4>4. QED
        BY <2>1, <3>1, <4>2, <4>3 DEF Reachable
    <3>4. 1 .. used - 1 = {1} \cup 2 .. used - 1 /\ 1 \notin 2 .. used - 1
      BY <2>2
    <3>5. QED
      BY <3>2, <3>3, <3>4 DEF Ghost
  <2>4. Cardinality(Live \ {Ghost}) = used - 2
    <3>1. used - 1 \in Int /\ used - 1 >= 2 /\ (used - 1) - 2 + 1 = used - 2
      BY <2>2
    <3>2. Cardinality(2 .. used - 1) = (used - 1) - 2 + 1
      BY <3>1, FS_Interval
    <3>3. Cardinality(Live \ {Ghost}) = Cardinality(2 .. used - 1)
      BY <2>3
    <3>4. QED
      BY <3>1, <3>2, <3>3
  <2>5. Cardinality({p \in Threads : pc[p] = "uncount"}) = 0
    BY <2>1, FS_EmptySet
  <2>6. Cardinality({p \in Threads : pc[p] = "count"}) \in Nat
    BY FS_Subset, FS_CardinalityType
  <2>7. counter = used - 2 - Cardinality({p \in Threads : pc[p] = "count"})
    BY <1>3 DEF Counted
  <2>8. QED
    BY <2>2, <2>4, <2>5, <2>6, <2>7 DEF SizeRight
<1>4. QED
  BY <1>1, <1>2, <1>3, ListInvariance, PTL DEF Spec
=============================================================================
