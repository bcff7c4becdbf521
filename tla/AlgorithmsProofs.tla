-------------------------- MODULE AlgorithmsProofs --------------------------
(***************************************************************************)
(* The properties of SplitOrderArguments, for words of 64 bits and indexes *)
(* below 2 ^ 30, and those of MessageArguments, for documents and texts of *)
(* any size and content, whatever the bounds of the run.                   *)
(***************************************************************************)
EXTENDS SplitOrderArguments, MessageArguments, Arithmetic, SequenceTheorems

-----------------------------------------------------------------------------
(***************************************************************************)
(* The arguments that a behaviour builds.                                  *)
(***************************************************************************)
Typed == word \in SUBSET Bits /\ index \in -1 .. MaxIndex

LEMMA ArgumentsTyped == ArgumentSpec => []Typed
<1>1. ArgumentInit => Typed
  BY ArgumentAssumption DEF ArgumentInit, Typed, GlobalSize
<1>2. Typed /\ [ArgumentNext]_argument => Typed'
  <2> SUFFICES ASSUME Typed, [ArgumentNext]_argument PROVE Typed'
    OBVIOUS
  <2>1. MaxIndex \in Int
    BY ArgumentAssumption DEF GlobalSize
  <2>2. CASE NextWord
    BY <2>2 DEF NextWord, Typed
  <2>3. CASE NextIndex
    BY <2>1, <2>3 DEF NextIndex, Typed
  <2>4. CASE UNCHANGED argument
    BY <2>4 DEF argument, Typed
  <2>5. QED
    BY <2>2, <2>3, <2>4 DEF ArgumentNext
<1>3. QED
  BY <1>1, <1>2, PTL DEF ArgumentSpec

LEMMA Sizes ==
  /\ MaxSegment \in 0 .. 30
  /\ GlobalSize(MaxSegment) \in Nat
  /\ 0 .. GlobalSize(MaxSegment) - 1 \subseteq Indexes
  /\ MaxIndex < GlobalSize(MaxSegment)
  /\ 0 .. MaxIndex \subseteq 0 .. GlobalSize(MaxSegment) - 1
<1>1. MaxSegment \in 0 .. 30 /\ 30 \in MaxSegment .. 30
  BY ArgumentAssumption
<1>2. 2 ^ MaxSegment \in Nat /\ 2 ^ MaxSegment <= 2 ^ 30
  BY <1>1, Powers, PowerGrows
<1>3. MaxIndex \in 0 .. 2 ^ MaxSegment - 1
  BY ArgumentAssumption DEF GlobalSize
<1>4. \A p, q \in Nat :
        p <= q => 0 .. p - 1 \subseteq 0 .. q - 1
  OBVIOUS
<1>5. 0 .. 2 ^ MaxSegment - 1 \subseteq Indexes
  <2>1. 2 ^ 30 \in Nat
    OBVIOUS
  <2>2. QED
    BY <1>2, <1>4, <2>1 DEF Indexes
<1>6. /\ MaxIndex < 2 ^ MaxSegment
      /\ 0 .. MaxIndex \subseteq 0 .. 2 ^ MaxSegment - 1
  BY <1>2, <1>3
<1>7. QED
  BY <1>1, <1>2, <1>5, <1>6 DEF GlobalSize

LEMMA Counted ==
  ASSUME Typed, index >= 0
  PROVE  index \in 0 .. GlobalSize(MaxSegment) - 1 /\ index \in Indexes
<1>1. MaxIndex \in Int
  BY ArgumentAssumption DEF GlobalSize
<1>2. index \in 0 .. MaxIndex
  BY <1>1 DEF Typed
<1>3. QED
  BY <1>2, Sizes

LEMMA DummyIs ==
  ASSUME NEW b \in 0 .. GlobalSize(MaxSegment) - 1
  PROVE  Dummy(b) = DummyHash(b)
  BY DEF Dummy, DummyHashes

-----------------------------------------------------------------------------
\* reverse_bit_order and log2_64 do what their names say, for every 64-bit word.
THEOREM TricksWork == ArgumentSpec => []BitTricks
<1>1. Typed => BitTricks
  <2> SUFFICES ASSUME Typed PROVE BitTricks
    OBVIOUS
  <2>1. word \in SUBSET Bits
    BY DEF Typed
  <2>2. ReverseBitOrder(word) = {63 - b : b \in word}
    BY <2>1, Reversed
  <2>3. ASSUME word # {}
        PROVE  Log2_64(word) = Max(word) /\ Msb(word) = Max(word)
    <3>1. Max(word) \in word /\ \A b \in word : b <= Max(word)
      BY <2>1, <2>3, TopBit
    <3>2. /\ word \cup {0} \in SUBSET Bits /\ Max(word) \in word \cup {0}
          /\ \A b \in word \cup {0} : b <= Max(word)
      <4>1. Max(word) \in Bits /\ 0 \in Bits
        <5>1. 0 \in Bits
          BY DEF Bits
        <5>2. QED
          BY <2>1, <3>1, <5>1
      <4>2. 0 <= Max(word)
        BY <4>1 DEF Bits
      <4>3. QED
        BY <2>1, <3>1, <4>1, <4>2
    <3>3. Msb(word) = Max(word)
      BY <3>2, TopIs DEF Msb
    <3>4. QED
      BY <2>1, <2>3, <3>3, Log2IsTop
  <2>4. QED
    BY <2>2, <2>3 DEF BitTricks
<1>2. QED
  BY <1>1, ArgumentsTyped, PTL

\* get_table_segment and get_index give every bucket below 2^30 a place of its
\* own, in a segment the table has when it holds that bucket.
THEOREM PlacesApart == ArgumentSpec => []PlaceOfItsOwn
<1>1. Typed => PlaceOfItsOwn
  <2> SUFFICES ASSUME Typed, index >= 0 PROVE PlaceOfItsOwn
    BY DEF PlaceOfItsOwn
  <2>1. index \in Indexes /\ index \in Nat /\ 0 .. index - 1 \subseteq Indexes
    <3>1. index \in 0 .. GlobalSize(MaxSegment) - 1
      BY Sizes, Counted
    <3>2. 0 .. index - 1 \subseteq 0 .. GlobalSize(MaxSegment) - 1
      BY <3>1, Sizes
    <3>3. QED
      BY <3>1, <3>2, Sizes
  <2>2. TableIndex(index) \in 0 .. TableSize(TableSegment(index)) - 1
    BY <2>1, Places
  <2>3. ASSUME NEW i \in 0 .. index - 1, TableSegment(i) = TableSegment(index)
        PROVE  TableIndex(i) # TableIndex(index)
    <3>1. i \in Indexes /\ i # index
      BY <2>1
    <3>2. QED
      BY <2>1, <2>3, <3>1, Places
  <2>4. ASSUME NEW s \in 0 .. MaxSegment, index < GlobalSize(s)
        PROVE  TableSegment(index) <= s
    <3>1. s \in 0 .. 30
      BY Sizes
    <3>2. QED
      BY <2>1, <2>4, <3>1, SegmentsOfTable DEF GlobalSize
  <2>5. QED
    BY <2>2, <2>3, <2>4 DEF PlaceOfItsOwn
<1>2. QED
  BY <1>1, ArgumentsTyped, PTL

\* Where get_parent_index starts the search for a new dummy's place, no bucket
\* of the table before it grew is passed on the way.
THEOREM ParentsNearest == ArgumentSpec => []ParentIsNearest
<1>1. Typed => ParentIsNearest
  <2> SUFFICES ASSUME Typed, index > 0 PROVE ParentIsNearest
    BY DEF ParentIsNearest
  <2> DEFINE m      == Msb(Word(index))
             parent == ParentIndex(index)
  <2>1. index \in Indexes /\ index \in 0 .. GlobalSize(MaxSegment) - 1
    <3>1. index >= 0
      BY DEF Typed
    <3>2. QED
      BY <3>1, Counted
  <2>2. m \in 0 .. 30 /\ 2 ^ m <= index /\ parent = index % 2 ^ m
    BY <2>1, TopOfWord DEF WordBits
  <2> HIDE DEF m, parent
  <2>3. parent \in 0 .. 2 ^ m - 1 /\ parent \in Indexes
    BY <2>1, <2>2, RestIs
  <2>4. 2 ^ m \in Nat /\ GlobalSize(MaxSegment) \in Nat /\ index \in Nat
    BY <2>1, <2>2, Powers, Sizes, IndexesAre
  <2>5. \A b \in 0 .. 2 ^ m - 1 :
          /\ b \in 0 .. GlobalSize(MaxSegment) - 1
          /\ b \in Indexes /\ b < 2 ^ m
    BY <2>1, <2>2, <2>4, Sizes
  <2>6. \A b \in 0 .. 2 ^ m - 1 : Dummy(b) = DummyHash(b)
    BY <2>5, DummyIs
  <2>7. Dummy(index) = DummyHash(index) /\ Dummy(parent) = DummyHash(parent)
    BY <2>1, <2>3, <2>6, DummyIs
  <2>8. Less(Dummy(parent), Dummy(index))
    <3>1. parent # index
      BY <2>2, <2>3, <2>4
    <3>2. QED
      BY <2>1, <2>2, <2>7, <3>1, RestBefore
  <2>9. ASSUME NEW b \in 0 .. 2 ^ m - 1,
               Less(Dummy(parent), Dummy(b)), Less(Dummy(b), Dummy(index))
        PROVE  FALSE
    <3>1. b \in Indexes /\ b < 2 ^ m
      BY <2>5
    <3>2. Less(DummyHash(b), DummyHash(index))
      BY <2>6, <2>7, <2>9
    <3>3. b = parent \/ Less(DummyHash(b), DummyHash(parent))
      BY <2>1, <2>2, <3>1, <3>2, NoneBetween
    <3>4. Less(DummyHash(parent), DummyHash(b))
      BY <2>6, <2>7, <2>9
    <3>5. DummyHash(parent) \in SUBSET Bits /\ DummyHash(b) \in SUBSET Bits
      BY <2>3, <3>1, HashBits
    <3>6. QED
      BY <3>3, <3>4, <3>5, LessOrders
  <2>10. QED
    BY <2>3, <2>8, <2>9 DEF ParentIsNearest, GlobalSize, m, parent
<1>2. QED
  BY <1>1, ArgumentsTyped, PTL

\* get_global_index: whatever the size of the table, a key lies in the list
\* where the search from the dummy of its bucket meets it first.
THEOREM KeysInBuckets == ArgumentSpec => []KeyInItsBucket
<1>1. Typed => KeyInItsBucket
  <2> SUFFICES ASSUME Typed, index >= 0, NEW s \in 0 .. MaxSegment
               PROVE  LET bucket == GlobalIndex(index, s)
                      IN  /\ Less(Dummy(bucket), RHash(index))
                          /\ \A b \in 0 .. GlobalSize(s) - 1 :
                               ~ (/\ Less(Dummy(bucket), Dummy(b))
                                  /\ Less(Dummy(b), RHash(index)))
    BY DEF KeyInItsBucket
  <2> DEFINE bucket == index % 2 ^ s
  <2>1. index \in Indexes /\ s \in 0 .. 30
    BY Sizes, Counted
  <2>2. bucket \in 0 .. 2 ^ s - 1 /\ bucket \in Indexes
    BY <2>1, RestIs
  <2>3. bucket = index \/ Less(DummyHash(bucket), DummyHash(index))
    BY <2>1, RestBefore
  <2>4. index < 2 ^ s => bucket = index
    BY <2>1, RestIs
  <2>5. \A b \in Indexes : b < 2 ^ s /\ Less(DummyHash(b), DummyHash(index)) =>
                             b = bucket \/ Less(DummyHash(b), DummyHash(bucket))
    BY <2>1, NoneBetween
  <2>6. GlobalIndex(index, s) = bucket /\ GlobalSize(s) = 2 ^ s
    BY DEF GlobalIndex, GlobalSize
  <2> HIDE DEF bucket
  <2>7. 2 ^ s \in Nat /\ 2 ^ s <= GlobalSize(MaxSegment)
    <3>1. MaxSegment \in s .. 30
      BY Sizes
    <3>2. QED
      BY <2>1, <3>1, Powers, PowerGrows DEF GlobalSize
  <2>8. \A b \in 0 .. 2 ^ s - 1 :
          b \in 0 .. GlobalSize(MaxSegment) - 1 /\ b \in Indexes /\ b < 2 ^ s
    BY <2>7, Sizes
  <2>9. \A b \in 0 .. 2 ^ s - 1 : Dummy(b) = DummyHash(b)
    BY <2>8, DummyIs
  <2>10. Less(Dummy(bucket), RHash(index))
    BY <2>1, <2>2, <2>3, <2>9, KeyBehindDummy
  <2>11. ASSUME NEW b \in 0 .. 2 ^ s - 1,
                Less(Dummy(bucket), Dummy(b)), Less(Dummy(b), RHash(index))
         PROVE  FALSE
    <3>1. b \in Indexes /\ b < 2 ^ s /\ Dummy(b) = DummyHash(b)
      BY <2>8, <2>9
    <3>2. Less(DummyHash(bucket), DummyHash(b))
      BY <2>2, <2>9, <2>11, <3>1
    <3>3. b = index \/ Less(DummyHash(b), DummyHash(index))
      BY <2>1, <2>11, <3>1, KeyBehindDummy
    <3>4. b = bucket \/ Less(DummyHash(b), DummyHash(bucket))
      BY <2>4, <2>5, <3>1, <3>3
    <3>5. DummyHash(bucket) \in SUBSET Bits /\ DummyHash(b) \in SUBSET Bits
      BY <2>2, <3>1, HashBits
    <3>6. QED
      BY <3>2, <3>4, <3>5, LessOrders
  <2>12. QED
    BY <2>6, <2>10, <2>11
<1>2. QED
  BY <1>1, ArgumentsTyped, PTL

-----------------------------------------------------------------------------
(***************************************************************************)
(* Functions that are defined by recursion.  None of the provers knows     *)
(* that a recursive function exists: Recursion shows it of those whose     *)
(* values stay in a set.                                                   *)
(***************************************************************************)
\* A recursive function over a .. n exists and has its values in S.
Recurs(f, S, a, n, b, step) ==
  /\ f \in [a .. n -> S]
  /\ f[a] = b
  /\ \A i \in a .. n : i # a => f[i] = step[<<i, f[i - 1]>>]

\* It is found one value after the other.
LEMMA Recursion ==
  ASSUME NEW S, NEW a \in Nat, NEW n \in Nat, a <= n, NEW b \in S,
         NEW step,
         \A i \in a .. n : i # a => \A x \in S : step[<<i, x>>] \in S
  PROVE  \E f : Recurs(f, S, a, n, b, step)
<1> DEFINE Is(f, m) ==
             f[a] = b /\ \A i \in a .. m : i # a => f[i] = step[<<i, f[i - 1]>>]
           T == {k \in 0 .. n - a : \E f \in [a .. a + k -> S] : Is(f, a + k)}
<1>1. 0 \in T
  <2> DEFINE g == [i \in a .. a |-> b]
  <2>1. g \in [a .. a + 0 -> S] /\ Is(g, a + 0)
    OBVIOUS
  <2> HIDE DEF g, Is
  <2>2. QED
    BY <2>1
<1>2. ASSUME NEW k \in 0 .. n - a - 1, k \in T PROVE k + 1 \in T
  <2>1. PICK f \in [a .. a + k -> S] : Is(f, a + k)
    BY <1>2
  <2> DEFINE m == a + k
             g == [i \in a .. m + 1 |-> IF i = a THEN b ELSE step[<<i, f[i - 1]>>]]
  <2>2. \A i \in a .. m : g[i] = f[i]
    BY <2>1
  <2>3. ASSUME NEW i \in a .. m + 1, i # a
        PROVE  g[i] = step[<<i, g[i - 1]>>] /\ g[i] \in S
    <3>1. i - 1 \in a .. m /\ i \in a .. n /\ i # a
      BY <1>2, <2>3
    <3>2. f[i - 1] \in S /\ g[i - 1] = f[i - 1]
      BY <2>2, <3>1
    <3>3. g[i] = step[<<i, f[i - 1]>>]
      BY <2>3
    <3>4. step[<<i, f[i - 1]>>] \in S
      BY <2>3, <3>1, <3>2
    <3> HIDE DEF g
    <3>5. QED
      BY <3>2, <3>3, <3>4
  <2>4. g[a] = b /\ a \in a .. m + 1 /\ g = [i \in a .. m + 1 |-> g[i]]
    OBVIOUS
  <2> HIDE DEF g
  <2>5. \A i \in a .. m + 1 : g[i] \in S
    BY <2>3, <2>4
  <2>6. g \in [a .. m + 1 -> S]
    BY <2>4, <2>5
  <2>7. Is(g, m + 1)
    <3>1. ASSUME NEW i \in a .. m + 1, i # a PROVE g[i] = step[<<i, g[i - 1]>>]
      BY <2>3, <3>1
    <3>2. QED
      BY <2>4, <3>1
  <2>8. m + 1 = a + (k + 1) /\ k + 1 \in 0 .. n - a
    BY <1>2
  <2> HIDE DEF m, Is
  <2>9. QED
    BY <2>6, <2>7, <2>8
<1>3. n - a \in T
  <2>1. n - a \in Nat
    OBVIOUS
  <2>2. \A k \in 0 .. (n - a) - 1 : k \in T => k + 1 \in T
    BY <1>2
  <2> HIDE DEF T
  <2>3. 0 .. n - a \subseteq T
    BY <1>1, <2>1, <2>2, UpTo
  <2>4. QED
    BY <2>1, <2>3
<1>4. a + (n - a) = n
  OBVIOUS
<1>5. QED
  BY <1>3, <1>4 DEF Recurs

-----------------------------------------------------------------------------
(***************************************************************************)
(* FlattenSeq of the community modules.                                    *)
(***************************************************************************)
IsFlat(ss, f) ==
  f = [i \in 1 .. Len(ss) |-> IF i = 1 THEN ss[i] ELSE f[i - 1] \o ss[i]]

LEMMA FlatExists ==
  ASSUME NEW S, NEW ss \in Seq(Seq(S)), ss # <<>>
  PROVE  \E f \in [1 .. Len(ss) -> Seq(S)] : IsFlat(ss, f)
<1> DEFINE n == Len(ss)
           step == [p \in (1 .. n) \X Seq(S) |-> p[2] \o ss[p[1]]]
<1>1. n \in Nat /\ 1 <= n /\ ss[1] \in Seq(S)
  BY EmptySeq, ElementOfSeq
<1>2. \A i \in 1 .. n : ss[i] \in Seq(S)
  BY ElementOfSeq
<1>3. \A i \in 1 .. n : \A x \in Seq(S) : step[<<i, x>>] = x \o ss[i]
  OBVIOUS
<1> HIDE DEF step, n
<1>4. \A i \in 1 .. n : i # 1 => \A x \in Seq(S) : step[<<i, x>>] \in Seq(S)
  <2>1. ASSUME NEW i \in 1 .. n, NEW x \in Seq(S)
        PROVE  step[<<i, x>>] \in Seq(S)
    <3>1. step[<<i, x>>] = x \o ss[i] /\ ss[i] \in Seq(S)
      BY <1>2, <1>3
    <3>2. QED
      BY <3>1, ConcatProperties
  <2>2. QED
    BY <2>1
<1>5. PICK f : Recurs(f, Seq(S), 1, n, ss[1], step)
  <2>1. 1 \in Nat
    OBVIOUS
  <2>2. QED
    BY <1>1, <1>4, <2>1, Recursion, Zenon
<1>6. ASSUME NEW i \in 1 .. n
      PROVE  f[i] = IF i = 1 THEN ss[i] ELSE f[i - 1] \o ss[i]
  <2>1. CASE i = 1
    BY <1>5, <2>1 DEF Recurs
  <2>2. CASE i # 1
    <3>1. i - 1 \in 1 .. n
      BY <1>1, <2>2
    <3>2. f[i - 1] \in Seq(S)
      BY <1>5, <3>1 DEF Recurs
    <3>3. f[i] = step[<<i, f[i - 1]>>]
      BY <1>5, <2>2 DEF Recurs
    <3>4. QED
      BY <1>3, <2>2, <3>1, <3>2, <3>3
  <2>3. QED
    BY <2>1, <2>2
<1>7. IsFlat(ss, f)
  <2>1. f = [i \in 1 .. n |-> f[i]]
    BY <1>5 DEF Recurs
  <2>2. QED
    BY <1>6, <2>1 DEF IsFlat, n
<1>8. QED
  BY <1>5, <1>7 DEF n, Recurs

\* Its values are sequences.
LEMMA FlatTyped ==
  ASSUME NEW S, NEW ss \in Seq(Seq(S)), ss # <<>>, NEW f, IsFlat(ss, f)
  PROVE  \A i \in 1 .. Len(ss) : f[i] \in Seq(S)
<1> DEFINE n == Len(ss)
           T == {k \in 0 .. n - 1 : f[k + 1] \in Seq(S)}
<1>1. n \in Nat /\ 1 <= n /\ \A i \in 1 .. n : ss[i] \in Seq(S)
  BY EmptySeq, ElementOfSeq
<1>2. \A i \in 1 .. n : f[i] = IF i = 1 THEN ss[i] ELSE f[i - 1] \o ss[i]
  BY DEF IsFlat
<1>3. 0 \in T
  <2>1. 1 \in 1 .. n /\ 0 \in 0 .. n - 1 /\ 0 + 1 = 1
    BY <1>1
  <2>2. f[1] = ss[1]
    BY <1>2, <2>1
  <2>3. QED
    BY <1>1, <2>1, <2>2
<1>4. ASSUME NEW k \in 0 .. (n - 1) - 1, k \in T PROVE k + 1 \in T
  <2>1. k + 2 \in 1 .. n /\ k + 2 # 1 /\ (k + 2) - 1 = k + 1
    BY <1>1
  <2>2. f[k + 2] = f[k + 1] \o ss[k + 2]
    BY <1>2, <2>1
  <2>3. f[k + 2] \in Seq(S)
    BY <1>1, <1>4, <2>1, <2>2, ConcatProperties
  <2>4. (k + 1) + 1 = k + 2 /\ k + 1 \in 0 .. n - 1
    BY <1>1
  <2>5. QED
    BY <2>3, <2>4
<1>5. 0 .. n - 1 \subseteq T
  <2>1. n - 1 \in Nat
    BY <1>1
  <2> HIDE DEF T, n
  <2>2. QED
    BY <1>3, <1>4, <2>1, UpTo
<1>6. ASSUME NEW i \in 1 .. n PROVE f[i] \in Seq(S)
  <2>1. i - 1 \in 0 .. n - 1 /\ (i - 1) + 1 = i
    BY <1>1
  <2>2. QED
    BY <1>5, <2>1
<1>7. QED
  BY <1>6

\* FlattenSeq is the last value of such a function.
LEMMA FlattenIs ==
  ASSUME NEW S, NEW ss \in Seq(Seq(S)), ss # <<>>
  PROVE  \E f : /\ IsFlat(ss, f)
                /\ FlattenSeq(ss) = f[Len(ss)]
<1> DEFINE Flat(f) ==
      f = [i \in 1 .. Len(ss) |-> IF i = 1 THEN ss[i] ELSE f[i - 1] \o ss[i]]
<1>1. Len(ss) # 0
  BY EmptySeq
<1>2. FlattenSeq(ss) = (CHOOSE f : Flat(f))[Len(ss)]
  BY <1>1 DEF FlattenSeq
<1>3. \A f : Flat(f) <=> IsFlat(ss, f)
  BY DEF IsFlat
<1>4. \E f : Flat(f)
  BY <1>3, FlatExists
<1> HIDE DEF Flat
<1>5. Flat(CHOOSE f : Flat(f))
  BY <1>4
<1>6. QED
  BY <1>2, <1>3, <1>5

\* Sequences one after the other are a sequence.
LEMMA FlattenTyped ==
  ASSUME NEW S, NEW ss \in Seq(Seq(S))
  PROVE  FlattenSeq(ss) \in Seq(S)
<1>1. CASE ss = <<>>
  BY <1>1, EmptySeq DEF FlattenSeq
<1>2. CASE ss # <<>>
  <2>1. PICK f : IsFlat(ss, f) /\ FlattenSeq(ss) = f[Len(ss)]
    BY <1>2, FlattenIs
  <2>2. Len(ss) \in 1 .. Len(ss)
    BY <1>2, EmptySeq
  <2>3. QED
    BY <1>2, <2>1, <2>2, FlatTyped
<1>3. QED
  BY <1>1, <1>2

\* One sequence more.
LEMMA FlattenAppend ==
  ASSUME NEW S, NEW ss \in Seq(Seq(S)), NEW s \in Seq(S)
  PROVE  FlattenSeq(Append(ss, s)) = FlattenSeq(ss) \o s
<1> DEFINE n == Len(ss)
           tt == Append(ss, s)
<1>1. /\ tt \in Seq(Seq(S)) /\ tt # <<>> /\ n \in Nat /\ Len(tt) = n + 1
      /\ tt[n + 1] = s /\ \A i \in 1 .. n : tt[i] = ss[i]
  BY AppendProperties, LenProperties
<1> HIDE DEF tt
<1>2. PICK g : IsFlat(tt, g) /\ FlattenSeq(tt) = g[n + 1]
  BY <1>1, FlattenIs
<1>3. \A i \in 1 .. n + 1 : g[i] = IF i = 1 THEN tt[i] ELSE g[i - 1] \o tt[i]
  BY <1>1, <1>2 DEF IsFlat
<1>4. CASE ss = <<>>
  <2>1. n = 0 /\ FlattenSeq(ss) = <<>>
    BY <1>4 DEF FlattenSeq
  <2>2. g[1] = s
    BY <1>1, <1>3, <2>1
  <2>3. QED
    BY <1>2, <2>1, <2>2, ConcatEmptySeq DEF tt
<1>5. CASE ss # <<>>
  <2>1. PICK f : IsFlat(ss, f) /\ FlattenSeq(ss) = f[n]
    BY <1>5, FlattenIs
  <2>2. 1 <= n
    BY <1>5, EmptySeq
  <2>3. \A i \in 1 .. n : f[i] = IF i = 1 THEN ss[i] ELSE f[i - 1] \o ss[i]
    BY <2>1 DEF IsFlat
  <2> DEFINE T == {k \in 0 .. n - 1 : g[k + 1] = f[k + 1]}
  <2>4. 0 \in T
    BY <1>1, <1>3, <2>2, <2>3
  <2>5. ASSUME NEW k \in 0 .. (n - 1) - 1, k \in T PROVE k + 1 \in T
    <3>1. /\ k + 2 \in 1 .. n /\ k + 2 \in 1 .. n + 1 /\ k + 2 # 1
          /\ (k + 2) - 1 = k + 1 /\ (k + 1) + 1 = k + 2 /\ k + 1 \in 0 .. n - 1
      BY <1>1
    <3>2. g[k + 2] = g[k + 1] \o tt[k + 2] /\ f[k + 2] = f[k + 1] \o ss[k + 2]
      BY <1>3, <2>3, <3>1
    <3>3. QED
      BY <1>1, <2>5, <3>1, <3>2
  <2>6. n - 1 \in T
    <3>1. n - 1 \in Nat
      BY <1>1, <2>2
    <3> HIDE DEF T, n
    <3>2. 0 .. n - 1 \subseteq T
      BY <2>4, <2>5, <3>1, UpTo
    <3>3. QED
      BY <3>1, <3>2
  <2>7. g[n] = f[n]
    <3>1. (n - 1) + 1 = n
      BY <1>1
    <3>2. QED
      BY <2>6, <3>1
  <2>8. g[n + 1] = g[n] \o s
    <3>1. n + 1 \in 1 .. n + 1 /\ n + 1 # 1 /\ (n + 1) - 1 = n
      BY <1>1, <2>2
    <3>2. QED
      BY <1>1, <1>3, <3>1
  <2>9. QED
    BY <1>2, <2>1, <2>7, <2>8 DEF tt
<1>6. QED
  BY <1>4, <1>5
-----------------------------------------------------------------------------
(***************************************************************************)
(* What the server reads.                                                  *)
(***************************************************************************)
Unread == [text |-> <<>>, escape |-> FALSE]

Readings(C) == [text : Seq(C), escape : BOOLEAN]

IsReading(value, read) ==
  read = [i \in 0 .. Len(value) |->
            IF i = 0 THEN Unread ELSE ReadOne(read[i - 1], value[i])]

Decoded(value) == (CHOOSE read : IsReading(value, read))[Len(value)]

\* A character is read into a text.
LEMMA ReadOneTyped ==
  ASSUME NEW C, "space" \in C, NEW r \in Readings(C), NEW c \in C
  PROVE  ReadOne(r, c) \in Readings(C)
<1>1. /\ r.text \in Seq(C) /\ r.escape \in BOOLEAN
      /\ Append(r.text, c) \in Seq(C) /\ Append(r.text, "space") \in Seq(C)
  BY AppendProperties DEF Readings
<1> DEFINE escaped == [text |-> Append(r.text, c), escape |-> FALSE]
           sign    == [text |-> r.text, escape |-> TRUE]
           plus    == [text |-> Append(r.text, "space"), escape |-> FALSE]
<1>2. escaped \in Readings(C) /\ sign \in Readings(C) /\ plus \in Readings(C)
  BY <1>1 DEF Readings
<1>3. ReadOne(r, c) \in {escaped, sign, plus}
  BY DEF ReadOne
<1>4. QED
  BY <1>2, <1>3

\* A value can be read, character by character.
LEMMA ReadingExists ==
  ASSUME NEW C, "space" \in C, NEW value \in Seq(C)
  PROVE  \E read : /\ IsReading(value, read)
                   /\ Decoded(value) = read[Len(value)]
                   /\ \A i \in 0 .. Len(value) : read[i] \in Readings(C)
<1> DEFINE n == Len(value)
           S == Readings(C)
           step == [p \in (0 .. n) \X S |-> ReadOne(p[2], value[p[1]])]
<1>1. n \in Nat /\ \A i \in 1 .. n : value[i] \in C
  BY LenProperties, ElementOfSeq
<1>2. Unread \in S
  BY EmptySeq DEF Unread, Readings
<1>3. \A i \in 0 .. n : \A x \in S : step[<<i, x>>] = ReadOne(x, value[i])
  OBVIOUS
<1> HIDE DEF step, n, S
<1>4. \A i \in 0 .. n : i # 0 => \A x \in S : step[<<i, x>>] \in S
  <2>1. ASSUME NEW i \in 0 .. n, i # 0, NEW x \in S PROVE step[<<i, x>>] \in S
    <3>1. i \in 1 .. n
      BY <1>1, <2>1
    <3>2. value[i] \in C
      BY <1>1, <3>1
    <3>3. QED
      BY <1>3, <3>2, ReadOneTyped DEF S
  <2>2. QED
    BY <2>1
<1>5. \E f : Recurs(f, S, 0, n, Unread, step)
  <2>1. 0 \in Nat /\ 0 <= n
    BY <1>1
  <2>2. QED
    BY <1>1, <1>2, <1>4, <2>1, Recursion, Zenon
<1>6. ASSUME NEW f, Recurs(f, S, 0, n, Unread, step)
      PROVE  IsReading(value, f)
  <2>1. f \in [0 .. n -> S]
    BY <1>6 DEF Recurs
  <2>2. ASSUME NEW i \in 0 .. n
        PROVE  f[i] = IF i = 0 THEN Unread ELSE ReadOne(f[i - 1], value[i])
    <3>1. CASE i = 0
      BY <1>6, <3>1 DEF Recurs
    <3>2. CASE i # 0
      <4>1. i - 1 \in 0 .. n
        BY <1>1, <3>2
      <4>2. f[i - 1] \in S
        BY <2>1, <4>1
      <4>3. f[i] = step[<<i, f[i - 1]>>]
        BY <1>6, <3>2 DEF Recurs
      <4>4. QED
        BY <1>3, <3>2, <4>2, <4>3
    <3>3. QED
      BY <3>1, <3>2
  <2>3. f = [i \in 0 .. n |-> f[i]]
    BY <2>1
  <2>4. QED
    BY <2>2, <2>3 DEF IsReading, n
<1> DEFINE read == CHOOSE f : IsReading(value, f)
<1>7. IsReading(value, read)
  BY <1>5, <1>6
<1>8. Decoded(value) = read[n]
  BY DEF Decoded, n
<1> HIDE DEF read
<1>9. \A i \in 0 .. n : read[i] = IF i = 0 THEN Unread ELSE ReadOne(read[i - 1], value[i])
  BY <1>7 DEF IsReading, n
<1> DEFINE T == {k \in 0 .. n : read[k] \in S}
<1>10. 0 \in T
  <2>1. 0 \in 0 .. n
    BY <1>1
  <2>2. QED
    BY <1>2, <1>9, <2>1
<1>11. ASSUME NEW k \in 0 .. n - 1, k \in T PROVE k + 1 \in T
  <2>1. k + 1 \in 0 .. n /\ k + 1 \in 1 .. n /\ k + 1 # 0 /\ (k + 1) - 1 = k
    BY <1>1
  <2>2. read[k + 1] = ReadOne(read[k], value[k + 1]) /\ value[k + 1] \in C
    BY <1>1, <1>9, <2>1
  <2>3. read[k + 1] \in S
    BY <1>11, <2>2, ReadOneTyped DEF S
  <2>4. QED
    BY <2>1, <2>3
<1>12. 0 .. n \subseteq T
  <2> HIDE DEF T
  <2>1. QED
    BY <1>1, <1>10, <1>11, UpTo
<1>13. \A i \in 0 .. n : read[i] \in S
  BY <1>12
<1>14. QED
  BY <1>7, <1>8, <1>13 DEF n, S

\* What is read is a text.
LEMMA DecodedTyped ==
  ASSUME NEW C, "space" \in C, NEW value \in Seq(C)
  PROVE  Decoded(value) \in Readings(C)
<1>1. Len(value) \in 0 .. Len(value)
  BY LenProperties
<1>2. QED
  BY <1>1, ReadingExists

\* Of nothing nothing is read.
LEMMA DecodedEmpty == Decoded(<<>>) = Unread
<1>1. <<>> \in Seq({"space"}) /\ Len(<<>>) = 0 /\ 0 \in 0 .. 0
  BY EmptySeq
<1>2. PICK read : IsReading(<<>>, read) /\ Decoded(<<>>) = read[0]
  BY <1>1, ReadingExists
<1>3. QED
  BY <1>1, <1>2 DEF IsReading

\* One character more.
LEMMA DecodedAppend ==
  ASSUME NEW C, "space" \in C, NEW value \in Seq(C), NEW c \in C
  PROVE  Decoded(Append(value, c)) = ReadOne(Decoded(value), c)
<1> DEFINE n == Len(value)
           longer == Append(value, c)
<1>1. /\ longer \in Seq(C) /\ n \in Nat /\ Len(longer) = n + 1
      /\ longer[n + 1] = c /\ \A i \in 1 .. n : longer[i] = value[i]
  BY AppendProperties, LenProperties
<1> HIDE DEF longer
<1>2. PICK g : IsReading(longer, g) /\ Decoded(longer) = g[n + 1]
  BY <1>1, ReadingExists
<1>3. PICK f : IsReading(value, f) /\ Decoded(value) = f[n]
  BY ReadingExists
<1>4. \A i \in 0 .. n + 1 :
        g[i] = IF i = 0 THEN Unread ELSE ReadOne(g[i - 1], longer[i])
  BY <1>1, <1>2 DEF IsReading
<1>5. \A i \in 0 .. n : f[i] = IF i = 0 THEN Unread ELSE ReadOne(f[i - 1], value[i])
  BY <1>3 DEF IsReading
<1> DEFINE T == {k \in 0 .. n : g[k] = f[k]}
<1>6. 0 \in T
  <2>1. 0 \in 0 .. n /\ 0 \in 0 .. n + 1
    BY <1>1
  <2>2. QED
    BY <1>4, <1>5, <2>1
<1>7. ASSUME NEW k \in 0 .. n - 1, k \in T PROVE k + 1 \in T
  <2>1. /\ k + 1 \in 0 .. n /\ k + 1 \in 0 .. n + 1 /\ k + 1 \in 1 .. n
        /\ k + 1 # 0 /\ (k + 1) - 1 = k
    BY <1>1
  <2>2. /\ g[k + 1] = ReadOne(g[k], longer[k + 1])
        /\ f[k + 1] = ReadOne(f[k], value[k + 1])
    BY <1>4, <1>5, <2>1
  <2>3. QED
    BY <1>1, <1>7, <2>1, <2>2
<1>8. g[n] = f[n]
  <2>1. n \in 0 .. n
    BY <1>1
  <2> HIDE DEF T, n
  <2>2. 0 .. n \subseteq T
    BY <1>1, <1>6, <1>7, UpTo
  <2>3. QED
    BY <2>1, <2>2 DEF T
<1>9. g[n + 1] = ReadOne(g[n], c)
  <2>1. n + 1 \in 0 .. n + 1 /\ n + 1 # 0 /\ (n + 1) - 1 = n
    BY <1>1
  <2>2. QED
    BY <1>1, <1>4, <2>1
<1>10. QED
  BY <1>2, <1>3, <1>8, <1>9 DEF longer

\* Without a sign that ends the value, all of it is read.
LEMMA NothingEnds ==
  ASSUME NEW C, "space" \in C, {"and", "hash"} \cap C = {}, NEW url \in Seq(C)
  PROVE  UrlDecode(url) = Decoded(url).text
<1>1. {i \in DOMAIN url : url[i] \in {"and", "hash"}} = {}
  BY LenProperties, ElementOfSeq
<1> DEFINE Is(read) ==
      read = [i \in 0 .. Len(url) |->
                IF i = 0 THEN [text |-> <<>>, escape |-> FALSE]
                ELSE ReadOne(read[i - 1], url[i])]
<1>2. UrlDecode(url) = (CHOOSE read : Is(read))[Len(url)].text
  BY <1>1 DEF UrlDecode
<1>3. \A read : Is(read) <=> IsReading(url, read)
  BY DEF IsReading, Unread
<1> HIDE DEF Is
<1>4. (CHOOSE read : Is(read)) = CHOOSE read : IsReading(url, read)
  BY <1>3
<1>5. QED
  BY <1>2, <1>4 DEF Decoded
-----------------------------------------------------------------------------
Code(c) == IF c \in Escaped THEN <<"percent", c>> ELSE <<c>>

LEMMA CodesTyped ==
  ASSUME NEW C, "percent" \in C, NEW t \in Seq(C)
  PROVE  [i \in DOMAIN t |-> Code(t[i])] \in Seq(Seq(C))
<1> DEFINE codes == [i \in 1 .. Len(t) |-> Code(t[i])]
<1>1. Len(t) \in Nat /\ DOMAIN t = 1 .. Len(t) /\ \A i \in 1 .. Len(t) : t[i] \in C
  BY LenProperties, ElementOfSeq
<1>2. \A c \in C : <<c>> \in Seq(C) /\ <<"percent", c>> \in Seq(C)
  OBVIOUS
<1>3. \A i \in 1 .. Len(t) : Code(t[i]) \in Seq(C)
  BY <1>1, <1>2 DEF Code
<1>4. codes \in [1 .. Len(t) -> Seq(C)]
  BY <1>3
<1>5. \A S : \A n \in Nat : \A s \in [1 .. n -> S] : s \in Seq(S)
  BY SeqDef
<1>6. codes \in Seq(Seq(C))
  BY <1>1, <1>4, <1>5
<1>7. QED
  BY <1>1, <1>6

LEMMA PreparedIs ==
  ASSUME NEW t
  PROVE  PrepareUrlText(t) = FlattenSeq([i \in DOMAIN t |-> Code(t[i])])
  BY DEF PrepareUrlText, Code

LEMMA PreparedTyped ==
  ASSUME NEW C, "percent" \in C, NEW t \in Seq(C)
  PROVE  PrepareUrlText(t) \in Seq(C)
  BY CodesTyped, PreparedIs, FlattenTyped

LEMMA PreparedEmpty == PrepareUrlText(<<>>) = <<>>
<1>1. [i \in DOMAIN <<>> |-> Code(<<>>[i])] = <<>>
  OBVIOUS
<1>2. FlattenSeq(<<>>) = <<>>
  BY EmptySeq DEF FlattenSeq
<1>3. QED
  BY <1>1, <1>2, PreparedIs

\* One character more.
LEMMA PreparedAppend ==
  ASSUME NEW C, "percent" \in C, NEW t \in Seq(C), NEW c \in C
  PROVE  PrepareUrlText(Append(t, c)) = PrepareUrlText(t) \o Code(c)
<1> DEFINE n == Len(t)
           longer == Append(t, c)
           codes == [i \in DOMAIN t |-> Code(t[i])]
           more == [i \in DOMAIN longer |-> Code(longer[i])]
<1>1. /\ longer \in Seq(C) /\ n \in Nat /\ Len(longer) = n + 1
      /\ longer[n + 1] = c /\ \A i \in 1 .. n : longer[i] = t[i]
  BY AppendProperties, LenProperties
<1>2. DOMAIN longer = 1 .. n + 1 /\ DOMAIN t = 1 .. n
  BY <1>1, LenProperties
<1>3. codes \in Seq(Seq(C)) /\ more \in Seq(Seq(C)) /\ Code(c) \in Seq(C)
  <2>1. Code(c) \in Seq(C)
    BY DEF Code
  <2> HIDE DEF longer
  <2>2. QED
    BY <1>1, <2>1, CodesTyped
<1>4. /\ \A i \in 1 .. n : codes[i] = Code(t[i])
      /\ \A i \in 1 .. n + 1 : more[i] = Code(longer[i])
      /\ DOMAIN codes = 1 .. n /\ DOMAIN more = 1 .. n + 1
  BY <1>2
<1> HIDE DEF codes, more, longer, n
<1>5. Len(codes) = n /\ Len(more) = n + 1
  BY <1>1, <1>3, <1>4, LenProperties
<1> DEFINE appended == Append(codes, Code(c))
<1>6. /\ appended \in Seq(Seq(C)) /\ Len(appended) = n + 1
      /\ appended[n + 1] = Code(c) /\ \A i \in 1 .. n : appended[i] = codes[i]
  BY <1>3, <1>5, AppendProperties
<1> HIDE DEF appended
<1>7. \A i \in 1 .. n + 1 : more[i] = appended[i]
  <2>1. TAKE i \in 1 .. n + 1
  <2>2. CASE i = n + 1
    BY <1>1, <1>4, <1>6, <2>2
  <2>3. CASE i # n + 1
    <3>1. i \in 1 .. n
      BY <1>1, <2>3
    <3>2. QED
      BY <1>1, <1>4, <1>6, <3>1
  <2>4. QED
    BY <2>2, <2>3
<1>8. more = appended
  BY <1>3, <1>5, <1>6, <1>7, SeqEqual
<1>9. PrepareUrlText(longer) = FlattenSeq(more) /\ PrepareUrlText(t) = FlattenSeq(codes)
  BY PreparedIs DEF more, codes
<1>10. FlattenSeq(appended) = FlattenSeq(codes) \o Code(c)
  BY <1>3, FlattenAppend DEF appended
<1>11. QED
  BY <1>8, <1>9, <1>10 DEF longer

LEMMA OneMore ==
  ASSUME NEW S, NEW s \in Seq(S), NEW k \in 0 .. Len(s) - 1
  PROVE  /\ SubSeq(s, 1, k) \in Seq(S) /\ s[k + 1] \in S
         /\ SubSeq(s, 1, k + 1) = Append(SubSeq(s, 1, k), s[k + 1])
<1>1. Len(s) \in Nat /\ 1 \in 1 .. Len(s) /\ k + 1 \in 1 .. Len(s) /\ (k + 1) - 1 = k
  BY LenProperties
<1>2. s[k + 1] \in S /\ \A i \in 1 .. k : s[i] \in S
  BY <1>1, ElementOfSeq
<1>3. SubSeq(s, 1, k) \in Seq(S)
  BY <1>2, SubSeqProperties
<1>4. SubSeq(s, 1, k + 1) = SubSeq(s, 1, k) \o <<s[k + 1]>>
  BY <1>1, SubSeqRecursiveSecond
<1>5. QED
  BY <1>2, <1>3, <1>4, AppendIsConcat

\* What is written with its escapes is read as it was.
LEMMA HeardAsWritten ==
  ASSUME NEW C, {"and", "hash", "plus"} \cap C = {}, NEW t \in Seq(C),
         WellFormed(t)
  PROVE  Heard(t) = t
<1> DEFINE D == C \cup {"percent", "space"}
           n == Len(t)
           Kept(k) == Decoded(PrepareUrlText(SubSeq(t, 1, k)))
                      = [text |-> SubSeq(t, 1, k), escape |-> FALSE]
           T == {k \in 0 .. n : Kept(k)}
<1>1. t \in Seq(D) /\ n \in Nat /\ "percent" \in D /\ "space" \in D
  BY LenProperties, SeqMonotonic
<1>2. {"and", "hash", "plus"} \cap D = {}
  OBVIOUS
<1> HIDE DEF D
<1>3. 0 \in T
  <2>1. SubSeq(t, 1, 0) = <<>>
    BY SubSeqEmpty
  <2>2. Decoded(PrepareUrlText(<<>>)) = [text |-> <<>>, escape |-> FALSE]
    BY PreparedEmpty, DecodedEmpty DEF Unread
  <2>3. Kept(0)
    BY <2>1, <2>2
  <2>4. 0 \in 0 .. n
    BY <1>1
  <2> HIDE DEF Kept
  <2>5. QED
    BY <2>3, <2>4
<1>4. ASSUME NEW k \in 0 .. n - 1, k \in T PROVE k + 1 \in T
  <2> DEFINE s == SubSeq(t, 1, k)
             c == t[k + 1]
             u == PrepareUrlText(s)
  <2>1. s \in Seq(D) /\ c \in D /\ SubSeq(t, 1, k + 1) = Append(s, c)
    BY <1>1, OneMore
  <2>2. Decoded(u) = [text |-> s, escape |-> FALSE]
    BY <1>4
  <2> HIDE DEF s, c
  <2>3. u \in Seq(D) /\ PrepareUrlText(Append(s, c)) = u \o Code(c)
    BY <1>1, <2>1, PreparedTyped, PreparedAppend
  <2> HIDE DEF u
  <2>4. Decoded(u \o Code(c)) = [text |-> Append(s, c), escape |-> FALSE]
    <3>1. CASE c \in Escaped
      <4>1. Append(u, "percent") \in Seq(D)
        BY <1>1, <2>3, AppendProperties
      <4>2. u \o Code(c) = Append(Append(u, "percent"), c)
        <5>1. Code(c) = <<"percent">> \o <<c>>
          BY <3>1 DEF Code
        <5>2. <<"percent">> \in Seq(D) /\ <<c>> \in Seq(D)
          BY <1>1, <2>1
        <5>3. u \o Code(c) = (u \o <<"percent">>) \o <<c>>
          BY <2>3, <5>1, <5>2, ConcatAssociative
        <5>4. u \o <<"percent">> = Append(u, "percent")
          BY <1>1, <2>3, AppendIsConcat
        <5>5. QED
          BY <2>1, <4>1, <5>3, <5>4, AppendIsConcat
      <4>3. Decoded(Append(u, "percent")) = ReadOne(Decoded(u), "percent")
        BY <1>1, <2>3, DecodedAppend
      <4>4. ReadOne(Decoded(u), "percent") = [text |-> s, escape |-> TRUE]
        BY <2>2 DEF ReadOne
      <4>5. Decoded(u \o Code(c)) = ReadOne(Decoded(Append(u, "percent")), c)
        BY <1>1, <2>1, <4>1, <4>2, DecodedAppend
      <4>6. ReadOne([text |-> s, escape |-> TRUE], c)
            = [text |-> Append(s, c), escape |-> FALSE]
        BY DEF ReadOne
      <4>7. QED
        BY <4>3, <4>4, <4>5, <4>6
    <3>2. CASE c \notin Escaped
      <4>1. u \o Code(c) = Append(u, c)
        BY <2>1, <2>3, <3>2, AppendIsConcat DEF Code
      <4>2. Decoded(Append(u, c)) = ReadOne(Decoded(u), c)
        BY <1>1, <2>1, <2>3, DecodedAppend
      <4>3. c # "percent" /\ c # "plus"
        BY <1>2, <2>1, <3>2 DEF Escaped
      <4>4. ReadOne([text |-> s, escape |-> FALSE], c)
            = [text |-> Append(s, c), escape |-> FALSE]
        BY <4>3 DEF ReadOne
      <4>5. QED
        BY <2>2, <4>1, <4>2, <4>4
    <3>3. QED
      BY <3>1, <3>2
  <2>5. k + 1 \in 0 .. n
    BY <1>1
  <2>6. QED
    BY <2>1, <2>3, <2>4, <2>5
<1>5. n \in T
  <2>1. n \in 0 .. n
    BY <1>1
  <2> HIDE DEF T, n
  <2>2. 0 .. n \subseteq T
    BY <1>1, <1>3, <1>4, UpTo
  <2>3. QED
    BY <2>1, <2>2
<1>6. SubSeq(t, 1, n) = t
  BY SubSeqFull
<1>7. Decoded(PrepareUrlText(t)) = [text |-> t, escape |-> FALSE]
  <2>1. Kept(n)
    BY <1>5
  <2>2. QED
    BY <1>6, <2>1
<1>8. UrlDecode(PrepareUrlText(t)) = Decoded(PrepareUrlText(t)).text
  BY <1>1, <1>2, PreparedTyped, NothingEnds
<1>9. QED
  BY <1>7, <1>8 DEF Heard

-----------------------------------------------------------------------------
(***************************************************************************)
(* The parts that a text is echoed in.                                     *)
(***************************************************************************)
LEMMA SmallerOfTwo ==
  ASSUME NEW i \in Int, NEW j \in Int
  PROVE  Min({i, j}) = IF i <= j THEN i ELSE j
<1> DEFINE m == IF i <= j THEN i ELSE j
<1>1. m \in {i, j} /\ \A k \in {i, j} : m <= k
  OBVIOUS
<1>2. \A x \in {i, j} : (\A k \in {i, j} : x <= k) => x = m
  BY <1>1
<1> HIDE DEF m
<1>3. (CHOOSE x \in {i, j} : \A k \in {i, j} : x <= k) = m
  BY <1>1, <1>2
<1>4. QED
  BY <1>3 DEF Min, m

\* i parts of at most p fill n when n is rounded up.
LEMMA RoundedUp ==
  ASSUME NEW n \in Nat, NEW p \in Nat \ {0}
  PROVE  LET count == (n + p - 1) \div p
         IN  /\ count \in Nat
             /\ n <= count * p
             /\ count > 0 => (count - 1) * p < n
<1> DEFINE m == n + p - 1
           q == m \div p
           r == m % p
<1>1. m \in Nat /\ m = p * q + r /\ q \in Nat /\ r \in 0 .. p - 1
  <2>1. m \in Nat
    OBVIOUS
  <2> HIDE DEF m
  <2>2. QED
    BY <2>1, DivMod
<1>2. m = n + p - 1
  OBVIOUS
<1> HIDE DEF m, q, r
<1>3. p * q = q * p /\ (q - 1) * p = q * p - p /\ q * p \in Nat
  BY <1>1
<1> DEFINE w == q * p
<1>4. w \in Nat /\ p * q = w /\ (q - 1) * p = w - p
  BY <1>3
<1> HIDE DEF w
<1>5. n <= w /\ w - p < n
  BY <1>1, <1>2, <1>4
<1>6. QED
  BY <1>1, <1>4, <1>5 DEF w, q, m

LEMMA Products ==
  ASSUME NEW i \in Nat, NEW j \in Nat, i <= j, NEW p \in Nat
  PROVE  i * p <= j * p /\ i * p \in Nat /\ (i + 1) * p = i * p + p
<1>1. (j - i) * p >= 0 /\ (j - i) * p = j * p - i * p
  OBVIOUS
<1>2. i * p \in Nat /\ j * p \in Nat /\ (i + 1) * p = i * p + p
  OBVIOUS
<1>3. QED
  BY <1>1, <1>2

LEMMA OffsetOf ==
  ASSUME NEW S, NEW data \in Seq(S)
  PROVE  /\ GetOffset("/echo", data) \in 0 .. 1
         /\ GetOffset("/echo", data) <= Len(data)
<1>1. Len(<<"/echo">>) = 1 /\ Len(data) \in Nat
  BY LenProperties
<1>2. QED
  BY <1>1 DEF GetOffset, IsPrefix

\* Where the parts end.
PartEnd(data, i) ==
  LET offset == GetOffset("/echo", data)
  IN  IF Len(data) <= offset + i * Limit THEN Len(data) ELSE offset + i * Limit

PartCount(data) == (Len(data) - GetOffset("/echo", data) + Limit - 1) \div Limit

\* No part is empty or too long, and each begins where the last one ends.
LEMMA PartsAre ==
  ASSUME NEW S, NEW data \in Seq(S)
  PROVE  LET count  == PartCount(data)
             offset == GetOffset("/echo", data)
             parts  == Parts(data)
         IN  /\ count \in Nat
             /\ parts = [i \in 1 .. count |-> parts[i]]
             /\ PartEnd(data, 0) = offset
             /\ PartEnd(data, count) = Len(data)
             /\ \A i \in 1 .. count :
                  /\ parts[i] = SubSeq(data, PartEnd(data, i - 1) + 1, PartEnd(data, i))
                  /\ PartEnd(data, i - 1) \in offset .. Len(data)
                  /\ PartEnd(data, i) \in offset .. Len(data)
                  /\ PartEnd(data, i) - PartEnd(data, i - 1) \in 1 .. Limit
<1> DEFINE offset == GetOffset("/echo", data)
           size == Len(data) - offset
           count == PartCount(data)
           parts == Parts(data)
<1>1. /\ Limit \in Nat \ {0} /\ Len(data) \in Nat /\ offset \in 0 .. 1
      /\ size \in Nat /\ Len(data) = offset + size
  BY LimitAssumption, LenProperties, OffsetOf
<1>2. /\ count \in Nat
      /\ size <= count * Limit
      /\ count > 0 => (count - 1) * Limit < size
  <2>1. count = (size + Limit - 1) \div Limit
    BY DEF PartCount
  <2> HIDE DEF size, count
  <2>2. QED
    BY <1>1, <2>1, RoundedUp
<1>3. parts = [i \in 1 .. count |->
                SubSeq(data, offset + (i - 1) * Limit + 1,
                       Min({Len(data), offset + i * Limit}))]
  BY DEF Parts, PartCount
<1>4. \A i : PartEnd(data, i) = IF Len(data) <= offset + i * Limit THEN Len(data)
                                ELSE offset + i * Limit
  BY DEF PartEnd
<1> HIDE DEF offset, size, count, parts
<1>5. PartEnd(data, 0) = offset
  BY <1>1, <1>4
<1>6. PartEnd(data, count) = Len(data)
  <2>1. count * Limit \in Nat
    BY <1>1, <1>2
  <2>2. Len(data) <= offset + count * Limit
    BY <1>1, <1>2, <2>1
  <2>3. QED
    BY <1>4, <2>2
<1>7. ASSUME NEW i \in 1 .. count
      PROVE  /\ parts[i] = SubSeq(data, PartEnd(data, i - 1) + 1, PartEnd(data, i))
             /\ PartEnd(data, i - 1) \in offset .. Len(data)
             /\ PartEnd(data, i) \in offset .. Len(data)
             /\ PartEnd(data, i) - PartEnd(data, i - 1) \in 1 .. Limit
  <2>1. /\ i \in Nat /\ i - 1 \in Nat /\ i - 1 <= count - 1 /\ count - 1 \in Nat
        /\ count > 0 /\ (i - 1) + 1 = i
    BY <1>2
  <2> DEFINE a == (i - 1) * Limit
             b == i * Limit
  <2>2. a <= (count - 1) * Limit /\ a \in Nat /\ b = a + Limit
    BY <1>1, <2>1, Products
  <2>3. a < size
    <3>1. (count - 1) * Limit < size /\ (count - 1) * Limit \in Nat
      BY <1>1, <1>2, <2>1
    <3> HIDE DEF a
    <3>2. QED
      BY <1>1, <2>2, <3>1
  <2>4. /\ PartEnd(data, i) = IF Len(data) <= offset + b THEN Len(data) ELSE offset + b
        /\ PartEnd(data, i - 1) = IF Len(data) <= offset + a THEN Len(data) ELSE offset + a
        /\ parts[i] = SubSeq(data, offset + a + 1, Min({Len(data), offset + b}))
    BY <1>3, <1>4
  <2> HIDE DEF a, b
  <2>5. PartEnd(data, i - 1) = offset + a
    BY <1>1, <2>2, <2>3, <2>4
  <2>6. Min({Len(data), offset + b}) = PartEnd(data, i)
    <3>1. offset + b \in Int /\ Len(data) \in Int
      BY <1>1, <2>2
    <3>2. QED
      BY <2>4, <3>1, SmallerOfTwo
  <2>7. parts[i] = SubSeq(data, PartEnd(data, i - 1) + 1, PartEnd(data, i))
    BY <2>4, <2>5, <2>6
  <2>8. /\ PartEnd(data, i - 1) \in offset .. Len(data)
        /\ PartEnd(data, i) \in offset .. Len(data)
        /\ PartEnd(data, i) - PartEnd(data, i - 1) \in 1 .. Limit
    BY <1>1, <2>2, <2>3, <2>4, <2>5
  <2>9. QED
    BY <2>7, <2>8
<1>8. parts = [i \in 1 .. count |-> parts[i]]
  BY <1>3
<1>9. QED
  BY <1>2, <1>5, <1>6, <1>7, <1>8 DEF offset, count, parts

\* The parts one after the other are the data behind the command.
LEMMA PartsTogether ==
  ASSUME NEW S, NEW data \in Seq(S)
  PROVE  /\ Parts(data) \in Seq(Seq(S))
         /\ FlattenSeq(Parts(data)) =
              SubSeq(data, GetOffset("/echo", data) + 1, Len(data))
<1> DEFINE count == PartCount(data)
           offset == GetOffset("/echo", data)
           parts == Parts(data)
           E(i) == PartEnd(data, i)
<1>1. /\ count \in Nat /\ parts = [i \in 1 .. count |-> parts[i]]
      /\ E(0) = offset /\ E(count) = Len(data)
  BY PartsAre
<1>2. \A i \in 1 .. count :
        /\ parts[i] = SubSeq(data, E(i - 1) + 1, E(i))
        /\ E(i - 1) \in offset .. Len(data)
        /\ E(i) \in offset .. Len(data)
        /\ E(i) - E(i - 1) \in 1 .. Limit
  BY PartsAre
<1>3. offset \in 0 .. 1 /\ offset <= Len(data) /\ Len(data) \in Nat
  BY OffsetOf, LenProperties
<1>4. \A i \in 1 .. Len(data) : data[i] \in S
  BY ElementOfSeq
<1> HIDE DEF count, offset, parts, E
<1>5. ASSUME NEW i \in 1 .. count PROVE parts[i] \in Seq(S)
  <2> DEFINE m == E(i - 1) + 1
             n == E(i)
  <2>1. m \in Int /\ n \in Int /\ m .. n \subseteq 1 .. Len(data)
        /\ parts[i] = SubSeq(data, m, n)
    BY <1>2, <1>3
  <2> HIDE DEF m, n
  <2>2. \A k \in m .. n : data[k] \in S
    BY <1>4, <2>1
  <2>3. QED
    BY <2>1, <2>2, SubSeqProperties
<1>6. parts \in [1 .. count -> Seq(S)]
  <2> DEFINE Q == Seq(S)
  <2>1. \A i \in 1 .. count : parts[i] \in Q
    BY <1>5
  <2> HIDE DEF Q
  <2>2. parts \in [1 .. count -> Q]
    BY <1>1, <2>1
  <2>3. QED
    BY <2>2 DEF Q
<1>7. parts \in Seq(Seq(S)) /\ Len(parts) = count
  <2>1. \A Q : \A n \in Nat : \A s \in [1 .. n -> Q] : s \in Seq(Q)
    BY SeqDef
  <2>2. parts \in Seq(Seq(S))
    BY <1>1, <1>6, <2>1
  <2>3. DOMAIN parts = 1 .. count /\ DOMAIN parts = 1 .. Len(parts) /\ Len(parts) \in Nat
    BY <1>6, <2>2, LenProperties
  <2>4. QED
    BY <1>1, <2>2, <2>3
<1> DEFINE T == {k \in 0 .. count :
                   /\ E(k) \in offset .. Len(data)
                   /\ FlattenSeq(SubSeq(parts, 1, k)) = SubSeq(data, offset + 1, E(k))}
<1>8. 0 \in T
  <2>1. SubSeq(parts, 1, 0) = <<>> /\ SubSeq(data, offset + 1, offset) = <<>>
    BY <1>3, SubSeqEmpty
  <2>2. FlattenSeq(<<>>) = <<>>
    BY EmptySeq DEF FlattenSeq
  <2>3. 0 \in 0 .. count /\ offset \in offset .. Len(data)
    BY <1>1, <1>3
  <2>4. QED
    BY <1>1, <2>1, <2>2, <2>3
<1>9. ASSUME NEW k \in 0 .. count - 1, k \in T PROVE k + 1 \in T
  <2>1. k + 1 \in 1 .. count /\ (k + 1) - 1 = k /\ k + 1 \in 0 .. count
        /\ k \in 0 .. Len(parts) - 1
    BY <1>1, <1>7
  <2>2. /\ parts[k + 1] = SubSeq(data, E(k) + 1, E(k + 1))
        /\ E(k) \in offset .. Len(data)
        /\ E(k + 1) \in offset .. Len(data)
        /\ E(k + 1) - E(k) \in 1 .. Limit
    BY <1>2, <2>1
  <2>3. /\ SubSeq(parts, 1, k) \in Seq(Seq(S))
        /\ parts[k + 1] \in Seq(S)
        /\ SubSeq(parts, 1, k + 1) = Append(SubSeq(parts, 1, k), parts[k + 1])
    BY <1>7, <2>1, OneMore
  <2>4. FlattenSeq(SubSeq(parts, 1, k + 1))
        = FlattenSeq(SubSeq(parts, 1, k)) \o parts[k + 1]
    BY <2>3, FlattenAppend
  <2>5. FlattenSeq(SubSeq(parts, 1, k)) = SubSeq(data, offset + 1, E(k))
    BY <1>9
  <2> DEFINE m == offset + 1
             e == E(k)
             n == E(k + 1)
  <2>6. SubSeq(data, m, e) \o SubSeq(data, e + 1, n) = SubSeq(data, m, n)
    <3>1. m \in 1 .. Len(data) + 1 /\ e \in m - 1 .. Len(data) /\ n \in e .. Len(data)
      BY <1>3, <2>2, LimitAssumption
    <3> HIDE DEF m, e, n
    <3>2. QED
      BY <3>1, ConcatAdjacentSubSeq
  <2>7. QED
    BY <2>1, <2>2, <2>4, <2>5, <2>6
<1>10. count \in T
  <2>1. count \in 0 .. count
    BY <1>1
  <2> HIDE DEF T
  <2>2. 0 .. count \subseteq T
    BY <1>1, <1>8, <1>9, UpTo
  <2>3. QED
    BY <2>1, <2>2
<1>11. SubSeq(parts, 1, count) = parts
  BY <1>7, SubSeqFull
<1>12. QED
  BY <1>1, <1>7, <1>10, <1>11 DEF parts, offset

-----------------------------------------------------------------------------
\* The bytes that texts consist of.
Bytes == UNION {Range(c) : c \in Characters}

\* Only bytes of characters are written.
LEMMA TextTyped == MessageSpec => [](text \in Seq(Bytes))
<1> DEFINE Inv == text \in Seq(Bytes)
<1>1. MessageInit => Inv
  BY EmptySeq DEF MessageInit
<1>2. ASSUME NEW c \in Characters PROVE c \in Seq(Bytes)
  <2>1. c \in Seq(Range(c)) /\ Range(c) \subseteq Bytes
    BY CharacterAssumption DEF Bytes
  <2>2. QED
    BY <2>1, SeqMonotonic
<1>3. Inv /\ [MessageNext]_message => Inv'
  <2> SUFFICES ASSUME Inv, [MessageNext]_message PROVE Inv'
    OBVIOUS
  <2>1. CASE NextCharacter
    <3>1. PICK c \in Characters : text' = text \o c
      BY <2>1 DEF NextCharacter
    <3>2. QED
      BY <1>2, <3>1, ConcatProperties
  <2>2. CASE BeginDocument \/ ChangeDocument \/ UNCHANGED message
    BY <2>2 DEF BeginDocument, ChangeDocument, message
  <2>3. QED
    BY <2>1, <2>2 DEF MessageNext
<1>4. QED
  BY <1>1, <1>3, PTL DEF MessageSpec

\* A prefix of one element is the first one.
LEMMA PrefixOfOne ==
  ASSUME NEW S, NEW t \in Seq(S), NEW e
  PROVE  IsPrefix(<<e>>, t) <=> t # <<>> /\ t[1] = e
<1>1. Len(t) \in Nat /\ (t # <<>> <=> Len(t) >= 1)
  BY LenProperties, EmptySeq
<1>2. <<e>> \in Seq({e}) /\ Len(<<e>>) = 1
  OBVIOUS
<1>3. SubSeq(<<e>>, 1, 1) = <<e>>
  BY <1>2, SubSeqFull
<1>4. ASSUME Len(t) >= 1 PROVE SubSeq(t, 1, 1) = <<t[1]>>
  <2>1. 1 \in 1 .. Len(t) /\ SubSeq(t, 1, 0) = <<>>
    BY <1>1, <1>4, SubSeqEmpty
  <2>2. SubSeq(t, 1, 1) = <<t[1]>> \o SubSeq(t, 2, 1)
    BY <2>1, SubSeqRecursiveFirst
  <2>3. SubSeq(t, 2, 1) = <<>>
    BY SubSeqEmpty
  <2>4. <<t[1]>> \o <<>> = <<t[1]>>
    OBVIOUS
  <2>5. QED
    BY <2>2, <2>3, <2>4
<1>5. <<t[1]>> = <<e>> <=> t[1] = e
  OBVIOUS
<1>6. QED
  BY <1>1, <1>2, <1>3, <1>4, <1>5 DEF IsPrefix

\* The text behind the command, or all of it.
LEMMA EchoedIs ==
  ASSUME NEW S, text \in Seq(S)
  PROVE  SubSeq(text, GetOffset("/echo", text) + 1, Len(text)) = Echoed
<1>1. Len(text) \in Nat /\ Len(<<"/echo">>) = 1
  BY LenProperties
<1>2. CASE text # <<>> /\ Head(text) = "/echo"
  <2>1. Len(text) >= 1 /\ text[1] = "/echo"
    BY <1>1, <1>2, EmptySeq, HeadTailProperties
  <2>2. IsPrefix(<<"/echo">>, text)
    BY <1>1, <2>1, PrefixOfOne
  <2>3. QED
    BY <1>2, <2>2 DEF GetOffset, Echoed
<1>3. CASE ~ (text # <<>> /\ Head(text) = "/echo")
  <2>1. ~ IsPrefix(<<"/echo">>, text)
    BY <1>1, <1>3, PrefixOfOne
  <2>2. SubSeq(text, 1, Len(text)) = text
    BY SubSeqFull
  <2>3. QED
    BY <1>3, <2>1, <2>2 DEF GetOffset, Echoed
<1>4. QED
  BY <1>2, <1>3

LEMMA EchoOf == text \in Seq(Bytes) => EchoArrives
<1> SUFFICES ASSUME text \in Seq(Bytes) PROVE EchoArrives
  OBVIOUS
<1> DEFINE parts == Parts(text)
           S == Range(text)
<1>1. text \in Seq(S)
  BY SeqOfRange
<1>2. ASSUME NEW i \in DOMAIN parts PROVE Len(parts[i]) \in 1 .. Limit
  <2> DEFINE m == PartEnd(text, i - 1) + 1
             n == PartEnd(text, i)
             offset == GetOffset("/echo", text)
  <2>1. i \in 1 .. PartCount(text)
    <3>1. parts = [k \in 1 .. PartCount(text) |-> parts[k]]
      BY <1>1, PartsAre
    <3> HIDE DEF parts
    <3>2. QED
      BY <1>2, <3>1
  <2>2. /\ parts[i] = SubSeq(text, m, n)
        /\ m - 1 \in offset .. Len(text) /\ n \in offset .. Len(text)
        /\ n - (m - 1) \in 1 .. Limit
    <3>1. /\ parts[i] = SubSeq(text, PartEnd(text, i - 1) + 1, PartEnd(text, i))
          /\ PartEnd(text, i - 1) \in offset .. Len(text)
          /\ PartEnd(text, i) \in offset .. Len(text)
          /\ PartEnd(text, i) - PartEnd(text, i - 1) \in 1 .. Limit
      BY <1>1, <2>1, PartsAre
    <3>2. m - 1 = PartEnd(text, i - 1)
      <4>1. Len(text) \in Int /\ offset \in Int
        BY <1>1, OffsetOf, LenProperties
      <4>2. QED
        BY <3>1, <4>1
    <3>3. QED
      BY <3>1, <3>2
  <2>3. offset \in 0 .. 1 /\ Len(text) \in Nat /\ Limit \in Nat
    BY <1>1, OffsetOf, LenProperties, LimitAssumption
  <2>4. m \in Int /\ n \in Int
    <3>1. PartEnd(text, i - 1) \in Int
      BY <1>1, <2>1, <2>3, PartsAre
    <3>2. QED
      BY <2>2, <2>3, <3>1
  <2> HIDE DEF m, n, offset, parts
  <2>5. m .. n \subseteq 1 .. Len(text)
    BY <2>2, <2>3, <2>4
  <2>6. \A k \in m .. n : text[k] \in S
    BY <1>1, <2>5, ElementOfSeq
  <2>7. Len(SubSeq(text, m, n)) = IF m <= n THEN n - m + 1 ELSE 0
    BY <2>4, <2>6, SubSeqProperties
  <2>8. QED
    BY <2>2, <2>3, <2>4, <2>7
<1>3. /\ parts \in Seq(Seq(S))
      /\ FlattenSeq(parts) = Echoed
  BY <1>1, PartsTogether, EchoedIs
<1>4. ASSUME NEW i \in DOMAIN parts, WellFormed(parts[i]),
             {"and", "hash", "plus"} \cap Range(parts[i]) = {}
      PROVE  Heard(parts[i]) = parts[i]
  <2> HIDE DEF parts, S
  <2>1. i \in 1 .. Len(parts)
    BY <1>3, LenProperties
  <2>2. parts[i] \in Seq(S)
    BY <1>3, <2>1, ElementOfSeq
  <2>3. parts[i] \in Seq(Range(parts[i]))
    BY <2>2, SeqOfRange
  <2>4. QED
    BY <1>4, <2>3, HeardAsWritten
<1>5. QED
  BY <1>2, <1>3, <1>4 DEF EchoArrives

\* Whatever the limit of a message, the characters and the length of the text:
\* its parts are all that is to be echoed, and each that is cut between
\* characters is heard as it was sent (see EchoArrives).
THEOREM EchoesArrive == MessageSpec => []EchoArrives
  BY TextTyped, EchoOf, PTL

-----------------------------------------------------------------------------
(***************************************************************************)
(* Documents: how fields are found and accepted.                           *)
(***************************************************************************)
\* Pointers of no name, of one and of two.
LEMMA FindNothing == ASSUME NEW v PROVE Find(v, <<>>) = None
  BY DEF Find

LEMMA FindOne == ASSUME NEW v, NEW n PROVE Find(v, <<n>>) = Field(v, n)
<1> DEFINE Is(f) == f = [i \in 0 .. Len(<<n>>) |->
                           IF i = 0 THEN v ELSE Field(f[i - 1], <<n>>[i])]
           g == [i \in 0 .. 1 |-> IF i = 0 THEN v ELSE Field(v, n)]
<1>1. Len(<<n>>) = 1 /\ <<n>> # <<>> /\ <<n>>[1] = n
  OBVIOUS
<1>2. Find(v, <<n>>) = (CHOOSE f : Is(f))[1]
  BY <1>1 DEF Find
<1>3. Is(g)
  <2>1. g[0] = v /\ \A i \in 0 .. 1 : i # 0 => i = 1 /\ i - 1 = 0
    OBVIOUS
  <2>2. \A i \in 0 .. 1 : g[i] = IF i = 0 THEN v ELSE Field(g[i - 1], <<n>>[i])
    BY <1>1, <2>1
  <2>3. g = [i \in 0 .. 1 |-> g[i]]
    OBVIOUS
  <2> HIDE DEF g
  <2>4. QED
    BY <1>1, <2>2, <2>3
<1> DEFINE f == CHOOSE f : Is(f)
<1>4. Is(f)
  <2> HIDE DEF Is, g
  <2>1. QED
    BY <1>3
<1> HIDE DEF f
<1>5. \A i \in 0 .. 1 : f[i] = IF i = 0 THEN v ELSE Field(f[i - 1], <<n>>[i])
  BY <1>1, <1>4
<1>6. f[0] = v /\ f[1] = Field(f[0], n)
  BY <1>1, <1>5
<1>7. QED
  BY <1>2, <1>6 DEF f

LEMMA FindTwo ==
  ASSUME NEW v, NEW m, NEW n
  PROVE  Find(v, <<m, n>>) = Field(Field(v, m), n)
<1> DEFINE p == <<m, n>>
           Is(f) == f = [i \in 0 .. Len(p) |->
                           IF i = 0 THEN v ELSE Field(f[i - 1], p[i])]
           g == [i \in 0 .. 2 |-> CASE i = 0 -> v
                                    [] i = 1 -> Field(v, m)
                                    [] OTHER -> Field(Field(v, m), n)]
<1>1. Len(p) = 2 /\ p # <<>> /\ p[1] = m /\ p[2] = n
  OBVIOUS
<1>2. Find(v, p) = (CHOOSE f : Is(f))[2]
  BY <1>1 DEF Find
<1> HIDE DEF p
<1>3. Is(g)
  <2>1. /\ g[0] = v /\ g[1] = Field(g[0], p[1]) /\ g[2] = Field(g[1], p[2])
        /\ \A i \in 0 .. 2 : i # 0 => i = 1 \/ i = 2
        /\ 1 - 1 = 0 /\ 2 - 1 = 1
    BY <1>1
  <2>2. g = [i \in 0 .. 2 |-> g[i]]
    OBVIOUS
  <2> HIDE DEF g
  <2>3. \A i \in 0 .. 2 : g[i] = IF i = 0 THEN v ELSE Field(g[i - 1], p[i])
    BY <2>1
  <2>4. QED
    BY <1>1, <2>2, <2>3
<1> DEFINE f == CHOOSE f : Is(f)
<1>4. Is(f)
  <2> HIDE DEF Is, g
  <2>1. QED
    BY <1>3
<1> HIDE DEF f
<1>5. \A i \in 0 .. 2 : f[i] = IF i = 0 THEN v ELSE Field(f[i - 1], p[i])
  BY <1>1, <1>4
<1>6. f[0] = v /\ f[1] = Field(f[0], m) /\ f[2] = Field(f[1], n)
  BY <1>1, <1>5
<1>7. QED
  BY <1>2, <1>6 DEF f, p

-----------------------------------------------------------------------------
\* Laid over: what f ++ g is.
LEMMA Over ==
  ASSUME NEW f, NEW g
  PROVE  /\ DOMAIN (f ++ g) = DOMAIN f \cup DOMAIN g
         /\ \A n \in DOMAIN f : (f ++ g)[n] = f[n]
         /\ \A n \in DOMAIN g \ DOMAIN f : (f ++ g)[n] = g[n]
  BY DEF ++

\* Tables without a name twice.
Apart(entity) == DOMAIN entity.requested \cap DOMAIN entity.optional = {}

\* What passes mapped_pointers_validation.
LEMMA Validated ==
  ASSUME NEW v, NEW under, NEW table
  PROVE  LET map == MappedPointersValidation(v, under, table)
         IN  \A n : /\ n \in DOMAIN map <=>
                         /\ n \in DOMAIN table
                         /\ Find(v, Append(under, n)).kind \in Integral \cup {table[n]}
                         /\ Find(v, Append(under, n)) # None
                    /\ n \in DOMAIN map => map[n] = Find(v, Append(under, n))
  BY DEF MappedPointersValidation, CheckPointerValidation

\* What verify_fields accepts.
Accepted(entity, v) ==
  MappedPointersValidation(v, entity.under, entity.optional) ++
  MappedPointersValidation(v, entity.under, entity.requested)

\* verify_fields has one result or none.
LEMMA Verified ==
  ASSUME NEW entity, NEW v
  PROVE  \/ VerifyFields(entity, v) = {}
         \/ VerifyFields(entity, v) = {Accepted(entity, v)}
  BY DEF VerifyFields, AllOf, Accepted

\* Whatever is accepted is in the tables, and is what the document holds.
LEMMA AcceptedIs ==
  ASSUME NEW entity, NEW v, Apart(entity)
  PROVE  LET map == Accepted(entity, v)
         IN  \A n : /\ n \in DOMAIN map <=>
                         /\ n \in DOMAIN Kinds(entity)
                         /\ Find(v, Append(entity.under, n)).kind
                              \in Integral \cup {Kinds(entity)[n]}
                         /\ Find(v, Append(entity.under, n)) # None
                    /\ n \in DOMAIN map =>
                         map[n] = Find(v, Append(entity.under, n))
<1> DEFINE r == MappedPointersValidation(v, entity.under, entity.requested)
           o == MappedPointersValidation(v, entity.under, entity.optional)
           F(n) == Find(v, Append(entity.under, n))
           K == Kinds(entity)
<1>1. \A n : /\ n \in DOMAIN r <=> /\ n \in DOMAIN entity.requested
                                   /\ F(n).kind \in Integral \cup {entity.requested[n]}
                                   /\ F(n) # None
             /\ n \in DOMAIN r => r[n] = F(n)
  BY Validated
<1>2. \A n : /\ n \in DOMAIN o <=> /\ n \in DOMAIN entity.optional
                                   /\ F(n).kind \in Integral \cup {entity.optional[n]}
                                   /\ F(n) # None
             /\ n \in DOMAIN o => o[n] = F(n)
  BY Validated
<1>3. Accepted(entity, v) = o ++ r
  BY DEF Accepted
<1>4. /\ DOMAIN K = DOMAIN entity.requested \cup DOMAIN entity.optional
      /\ \A n \in DOMAIN entity.requested : K[n] = entity.requested[n]
      /\ \A n \in DOMAIN entity.optional : K[n] = entity.optional[n]
  <2> DEFINE req == entity.requested
             opt == entity.optional
  <2>1. K = req ++ opt /\ DOMAIN req \cap DOMAIN opt = {}
    BY DEF Kinds, Apart
  <2> HIDE DEF req, opt, K
  <2>2. /\ DOMAIN (req ++ opt) = DOMAIN req \cup DOMAIN opt
        /\ \A n \in DOMAIN req : (req ++ opt)[n] = req[n]
        /\ \A n \in DOMAIN opt \ DOMAIN req : (req ++ opt)[n] = opt[n]
    BY Over
  <2>3. /\ DOMAIN K = DOMAIN req \cup DOMAIN opt
        /\ \A n \in DOMAIN req : K[n] = req[n]
        /\ \A n \in DOMAIN opt : K[n] = opt[n]
    BY <2>1, <2>2
  <2>4. QED
    BY <2>3 DEF req, opt
<1> HIDE DEF r, o, F, K
<1>5. /\ DOMAIN (o ++ r) = DOMAIN o \cup DOMAIN r
      /\ \A n \in DOMAIN o : (o ++ r)[n] = o[n]
      /\ \A n \in DOMAIN r \ DOMAIN o : (o ++ r)[n] = r[n]
  BY Over
<1>6. \A n : /\ n \in DOMAIN (o ++ r) <=> /\ n \in DOMAIN K
                                          /\ F(n).kind \in Integral \cup {K[n]}
                                          /\ F(n) # None
             /\ n \in DOMAIN (o ++ r) => (o ++ r)[n] = F(n)
  <2>1. TAKE n
  <2>2. CASE n \in DOMAIN entity.requested
    <3>1. n \notin DOMAIN o /\ K[n] = entity.requested[n] /\ n \in DOMAIN K
      BY <1>2, <1>4, <2>2 DEF Apart
    <3>2. n \in DOMAIN r <=> /\ F(n).kind \in Integral \cup {entity.requested[n]}
                            /\ F(n) # None
      BY <1>1, <2>2
    <3>3. n \in DOMAIN (o ++ r) <=> n \in DOMAIN r
      BY <1>5, <3>1
    <3>4. ASSUME n \in DOMAIN r PROVE (o ++ r)[n] = F(n)
      <4>1. n \in DOMAIN r \ DOMAIN o
        BY <3>1, <3>4
      <4>2. (o ++ r)[n] = r[n]
        BY <1>5, <4>1
      <4>3. r[n] = F(n)
        BY <1>1, <3>4
      <4>4. QED
        BY <4>2, <4>3
    <3>5. K[n] = entity.requested[n] /\ n \in DOMAIN K
      BY <3>1
    <3> HIDE DEF F
    <3>6. QED
      BY <3>2, <3>3, <3>4, <3>5, Zenon
  <2>3. CASE n \notin DOMAIN entity.requested
    <3>1. n \notin DOMAIN r
      BY <1>1, <2>3
    <3>2. CASE n \in DOMAIN entity.optional
      BY <1>2, <1>4, <1>5, <3>1, <3>2
    <3>3. CASE n \notin DOMAIN entity.optional
      BY <1>2, <1>4, <1>5, <2>3, <3>1, <3>3
    <3>4. QED
      BY <3>2, <3>3
  <2>4. QED
    BY <2>2, <2>3
<1>7. QED
  BY <1>3, <1>6 DEF F, K
-----------------------------------------------------------------------------
\* No origin of a forwarded message is accepted.
LEMMA NoOrigin ==
  ASSUME NEW heir, NEW v
  PROVE  VerifyHeir(heir, v) = {}
<1>1. \A kind : CheckPointerValidation(v, <<>>, kind) = None
  BY FindNothing DEF CheckPointerValidation
<1> DEFINE table == [type |-> "string", date |-> "uint64"]
           passed(n) == CheckPointerValidation(v, <<>>, table[n])
<1>2. {n \in DOMAIN table : passed(n) # None} = {}
  BY <1>1
<1>3. OriginRequested(v) = AllOf(2, [n \in {} |-> passed(n)])
  BY <1>2 DEF OriginRequested
<1>4. DOMAIN [n \in {} |-> passed(n)] = {}
  OBVIOUS
<1>5. Cardinality({}) # 2
  BY FS_EmptySet
<1>6. OriginRequested(v) = {}
  <2> HIDE DEF passed
  <2>1. QED
    BY <1>3, <1>4, <1>5 DEF AllOf
<1>7. QED
  BY <1>6 DEF VerifyHeir

-----------------------------------------------------------------------------
(***************************************************************************)
(* The tables of the entities, which are lists kept by hand.               *)
(***************************************************************************)
OriginNames == {"messageoriginchat", "messageoriginchannel", "messageoriginhiddenuser"}

\* What holds of the lists of every entity, whatever is lost and never read.
Lists(e, lost, never) ==
  /\ Apart(e)
  /\ DOMAIN e.requested \cup DOMAIN e.optional \subseteq e.reads \cup never
  /\ e.reads \cap (DOMAIN e.requested \cup DOMAIN e.optional)
       \subseteq lost \cup DOMAIN e.nested \cup DOMAIN e.pairs
  /\ \A n \in DOMAIN e.pairs \cap e.reads : e.pairs[n] = n
  /\ DOMAIN e.requested \subseteq e.reads \ lost
  /\ e.reads \cap (OriginNames \cup {"forward_origin"}) = {}
  /\ (DOMAIN e.requested \cup DOMAIN e.optional) \cap OriginNames = {}

\* The lists of each entity.
LEMMA ChatLists == Lists(Chat, {}, {})
  BY DEF Lists, Apart, OriginNames, Chat, Plain, Fields, Same, Nothing, ++

LEMMA UserLists == Lists(User, {}, {})
  BY DEF Lists, Apart, OriginNames, User, Plain, Fields, Same, Nothing, ++

LEMMA FileLists == Lists(File, {}, {})
  BY DEF Lists, Apart, OriginNames, File, FileFields, Plain, Fields, Same, Nothing, ++

LEMMA PhotoSizeLists == Lists(PhotoSize, {"file_path"}, {})
<1> DEFINE e == PhotoSize
           sides == {"width", "height"}
<1>1. /\ DOMAIN e.requested = {"file_id", "file_unique_id"} \cup sides
      /\ e.reads = {"file_id", "file_unique_id", "file_size", "file_path"} \cup sides
  BY DEF PhotoSize, File, FileFields, Plain, Fields, ++
<1>2. DOMAIN e.optional = {"file_size", "file_path"} /\ DOMAIN e.nested = {}
  BY DEF PhotoSize, File, FileFields, Plain, Fields, Nothing, ++
<1>3. /\ DOMAIN e.pairs = {"file_id", "file_unique_id", "file_size"} \cup sides
      /\ \A n \in DOMAIN e.pairs : e.pairs[n] = n
  BY DEF PhotoSize, File, FileFields, Plain, Same, ++
<1> HIDE DEF e
<1>4. QED
  BY <1>1, <1>2, <1>3 DEF e, Lists, Apart, OriginNames

LEMMA DocumentLists == Lists(Document, {"thumbnail"}, {})
<1> DEFINE e == Document
           about == {"file_name", "mime_type"}
<1>1. /\ DOMAIN e.requested = {"file_id", "file_unique_id"}
      /\ DOMAIN e.nested = {"thumbnail"}
      /\ e.reads = {"file_id", "file_unique_id", "file_size", "file_path", "thumbnail"} \cup about
  BY DEF Document, File, FileFields, Plain, Fields, ++
<1>2. DOMAIN e.optional = {"file_size", "thumbnail"} \cup about
  BY DEF Document, File, FileFields, Plain, Fields, ++
<1>3. /\ DOMAIN e.pairs = {"file_id", "file_unique_id", "file_size"} \cup about
      /\ \A n \in DOMAIN e.pairs : e.pairs[n] = n
  BY DEF Document, File, FileFields, Plain, Same, ++
<1> HIDE DEF e
<1>4. QED
  BY <1>1, <1>2, <1>3 DEF e, Lists, Apart, OriginNames

LEMMA ThumbLists == Lists(Thumb, {}, {})
<1> DEFINE e == Thumb
           all == {"imageUrl", "width", "height", "title", "linkUrl"}
<1>1. DOMAIN e.requested = all /\ DOMAIN e.optional = {} /\ e.reads = all
  BY DEF Thumb, Plain, Fields, Nothing, ++
<1>2. DOMAIN e.pairs = all /\ \A n \in all : e.pairs[n] = n
  BY DEF Thumb, Plain, Same, ++
<1> HIDE DEF e
<1>3. QED
  BY <1>1, <1>2 DEF e, Lists, Apart, OriginNames

LEMMA GetUpdatesLists == Lists(GetUpdates, {"allowed_updates"}, {})
  BY DEF Lists, Apart, OriginNames, GetUpdates, Plain, Fields, Same, Nothing, ++

LEMMA TelegramResponseLists == Lists(TelegramResponse, {"description", "update_id"}, {})
<1> USE DEF TelegramResponse, Plain, Fields, Same, Nothing, ++
<1> DEFINE e == TelegramResponse
<1>1. /\ DOMAIN e.requested = {"ok"} /\ DOMAIN e.optional = {"error_code", "description"}
      /\ DOMAIN e.nested = {} /\ e.reads = {"ok", "error_code", "description"}
  OBVIOUS
<1>2. DOMAIN e.pairs = {"ok", "error_code", "update_id", "result", "descrtiption"}
  OBVIOUS
<1>3. e.pairs["ok"] = "ok" /\ e.pairs["error_code"] = "error_code"
  OBVIOUS
<1> HIDE DEF e
<1>4. QED
  BY <1>1, <1>2, <1>3 DEF e, Lists, Apart, OriginNames

LEMMA MessageLists ==
  Lists(Message,
        {"from", "sender_chat", "sender_business_bot", "reply_to_message", "via_bot", "photo"},
        {"has_protected_content", "forward_origin"})
<1> DEFINE e == Message
           nested == {"chat", "sender_chat", "from", "sender_business_bot", "via_bot",
                      "reply_to_message", "document"}
           plain == MessageNumbers \cup MessageFlags \cup MessageTexts
<1>1. DOMAIN MessageNested = nested
  BY DEF MessageNested, ++
<1>2. DOMAIN MessageOptional = plain \cup {"has_protected_content", "forward_origin", "photo"}
                                     \cup (nested \ {"chat"})
  BY <1>1 DEF MessageOptional, Fields, ++
<1>3. DOMAIN Message.requested = {"message_id", "date", "chat"}
  BY DEF Message, Fields, ++
<1>4. /\ Message.optional = MessageOptional /\ Message.nested = MessageNested
      /\ Message.reads = MessageReads
  BY DEF Message
<1>5. /\ DOMAIN Message.pairs = {"message_id", "date", "business_connection_id",
                        "has_protected_content"} \cup plain
      /\ \A n \in DOMAIN Message.pairs : Message.pairs[n] = n
  BY DEF Message, Same
<1>6. MessageReads = {"message_id", "date", "photo"} \cup plain \cup nested
  BY <1>1 DEF MessageReads
<1>7. plain \cap ({"message_id", "date", "chat", "photo"} \cup OriginNames) = {}
  BY DEF MessageNumbers, MessageFlags, MessageTexts, OriginNames
<1> HIDE DEF plain
<1>8. plain \cap (nested \cup {"forward_origin"}) = {}
  BY DEF MessageNumbers, MessageFlags, MessageTexts, plain
<1>9. QED
  BY <1>1, <1>2, <1>3, <1>4, <1>5, <1>6, <1>7, <1>8 DEF Lists, Apart, OriginNames

NoMember == {"photo", "allowed_updates"}

\* How an entity goes around its fields, and what only some entities have.
Forms(e, lost) ==
  /\ e.under \in {<<>>, <<"getupdates">>}
  /\ e.wrap = e.under \/ (e.under = <<>> /\ e.wrap # <<>>)
  /\ "photo" \in e.reads => /\ e.under = <<>>
                            /\ "photo" \in DOMAIN e.optional
                            /\ e.optional["photo"] = "array"
  /\ e.reads \cap NoMember \subseteq lost
  /\ DOMAIN e.nested \cap NoMember = {}

Flat(e) == e.objects = <<>> /\ DOMAIN e.nested = {}

\* The forms of each entity.
LEMMA ChatForms == Forms(Chat, {}) /\ Flat(Chat)
<1>1. /\ Chat.under = <<>> /\ Chat.objects = <<>>
      /\ DOMAIN Chat.nested = {}
  BY DEF Chat, Plain, Nothing, ++
<1>2. Chat.wrap = <<"chat">>
  BY DEF Chat, Plain, ++
<1>3. /\ "photo" \notin Chat.reads
      /\ Chat.reads \cap NoMember \subseteq {}
  BY DEF NoMember, Chat, Plain, ++
<1>4. QED
  BY <1>1, <1>2, <1>3 DEF Forms, Flat

LEMMA UserForms == Forms(User, {}) /\ Flat(User)
<1>1. /\ User.under = <<>> /\ User.objects = <<>>
      /\ DOMAIN User.nested = {}
  BY DEF User, Plain, Nothing, ++
<1>2. User.wrap = <<"user">>
  BY DEF User, Plain, ++
<1>3. /\ "photo" \notin User.reads
      /\ User.reads \cap NoMember \subseteq {}
  BY DEF NoMember, User, Plain, ++
<1>4. QED
  BY <1>1, <1>2, <1>3 DEF Forms, Flat

LEMMA FileForms == Forms(File, {}) /\ Flat(File)
<1>1. /\ File.under = <<>> /\ File.objects = <<>>
      /\ DOMAIN File.nested = {}
  BY DEF File, FileFields, Plain, Nothing, ++
<1>2. File.wrap = <<"file">>
  BY DEF File, FileFields, Plain, ++
<1>3. /\ "photo" \notin File.reads
      /\ File.reads \cap NoMember \subseteq {}
  BY DEF NoMember, File, FileFields, Plain, ++
<1>4. QED
  BY <1>1, <1>2, <1>3 DEF Forms, Flat

LEMMA PhotoSizeForms == Forms(PhotoSize, {"file_path"}) /\ Flat(PhotoSize)
<1>1. /\ PhotoSize.under = <<>> /\ PhotoSize.objects = <<>>
      /\ DOMAIN PhotoSize.nested = {}
  BY DEF PhotoSize, File, FileFields, Plain, Nothing, ++
<1>2. PhotoSize.wrap = <<"photosize">>
  BY DEF PhotoSize, File, FileFields, Plain, ++
<1>3. /\ "photo" \notin PhotoSize.reads
      /\ PhotoSize.reads \cap NoMember \subseteq {"file_path"}
  BY DEF NoMember, PhotoSize, File, FileFields, Plain, ++
<1>4. QED
  BY <1>1, <1>2, <1>3 DEF Forms, Flat

LEMMA ThumbForms == Forms(Thumb, {}) /\ Flat(Thumb)
<1>1. /\ Thumb.under = <<>> /\ Thumb.objects = <<>>
      /\ DOMAIN Thumb.nested = {}
  BY DEF Thumb, Plain, Nothing, ++
<1>2. Thumb.wrap = <<"Thumb">>
  BY DEF Thumb, Plain, ++
<1>3. /\ "photo" \notin Thumb.reads
      /\ Thumb.reads \cap NoMember \subseteq {}
  BY DEF NoMember, Thumb, Plain, ++
<1>4. QED
  BY <1>1, <1>2, <1>3 DEF Forms, Flat

LEMMA GetUpdatesForms == Forms(GetUpdates, {"allowed_updates"}) /\ Flat(GetUpdates)
<1>1. /\ GetUpdates.under = <<"getupdates">> /\ GetUpdates.objects = <<>>
      /\ DOMAIN GetUpdates.nested = {}
  BY DEF GetUpdates, Plain, Nothing, ++
<1>2. GetUpdates.wrap = <<"getupdates">>
  BY DEF GetUpdates, Plain, ++
<1>3. /\ "photo" \notin GetUpdates.reads
      /\ GetUpdates.reads \cap NoMember \subseteq {"allowed_updates"}
  BY DEF NoMember, GetUpdates, Plain, ++
<1>4. QED
  BY <1>1, <1>2, <1>3 DEF Forms, Flat

LEMMA TelegramResponseForms ==
  Forms(TelegramResponse, {"description", "update_id"}) /\ Flat(TelegramResponse)
<1>1. /\ TelegramResponse.under = <<>> /\ TelegramResponse.objects = <<>>
      /\ DOMAIN TelegramResponse.nested = {}
  BY DEF TelegramResponse, Plain, Nothing, ++
<1>2. TelegramResponse.wrap = <<>>
  BY DEF TelegramResponse, Plain, ++
<1>3. /\ "photo" \notin TelegramResponse.reads
      /\ TelegramResponse.reads \cap NoMember \subseteq {"description", "update_id"}
  BY DEF NoMember, TelegramResponse, Plain, ++
<1>4. QED
  BY <1>1, <1>2, <1>3 DEF Forms, Flat

LEMMA DocumentForms == Forms(Document, {"thumbnail"})
<1>1. /\ Document.under = <<>> /\ Document.objects = <<"thumbnail">>
      /\ DOMAIN Document.nested = {"thumbnail"} /\ Document.nested["thumbnail"] = "PhotoSize"
  BY DEF Document, File, Plain, ++
<1>2. Document.wrap = <<"document">>
  BY DEF Document, File, Plain, ++
<1>3. "photo" \notin Document.reads /\ Document.reads \cap NoMember = {}
  BY DEF NoMember, Document, File, FileFields, Plain, ++
<1>4. QED
  BY <1>1, <1>2, <1>3 DEF Forms, NoMember

LEMMA MessageForms == Forms(Message, LostInWriting("message"))
<1>1. /\ Message.under = <<>> /\ Message.wrap = <<"message">>
      /\ Message.reads = MessageReads /\ Message.nested = MessageNested
      /\ Message.optional = MessageOptional
  BY DEF Message
<1>2. "photo" \in LostInWriting("message")
  BY DEF LostInWriting
<1>3. "allowed_updates" \notin MessageReads /\ DOMAIN MessageNested \cap NoMember = {}
  BY DEF MessageReads, MessageNested, MessageNumbers, MessageFlags, MessageTexts, NoMember, ++
<1>4. "photo" \in DOMAIN MessageOptional /\ MessageOptional["photo"] = "array"
  BY DEF MessageOptional, MessageNested, MessageNumbers, MessageFlags, MessageTexts, Fields, ++
<1>5. QED
  BY <1>1, <1>2, <1>3, <1>4 DEF Forms, NoMember

EntityLists(of) ==
  /\ Lists(Entity[of], LostInWriting(of), NeverRead(of))
  /\ Forms(Entity[of], LostInWriting(of))
  /\ of \notin {"Document", "message"} => Flat(Entity[of])

\* The tables of all entities agree.
LEMMA EachEntity == \A of \in DOMAIN Entity : EntityLists(of)
<1>1. \A of \in DOMAIN Entity :
        of \in {"Chat", "User", "File", "PhotoSize", "Document", "Thumb", "getUpdates",
               "TelegramResponse", "message"}
  BY DEF Entity
<1>2. EntityLists("Chat")
  <2>1. Entity["Chat"] = Chat
    BY DEF Entity
  <2>2. LostInWriting("Chat") = {}
    BY DEF LostInWriting
  <2>3. NeverRead("Chat") = {}
    BY DEF NeverRead
  <2>4. QED
    BY <2>1, <2>2, <2>3, ChatLists, ChatForms DEF EntityLists
<1>3. EntityLists("User")
  <2>1. Entity["User"] = User
    BY DEF Entity
  <2>2. LostInWriting("User") = {}
    BY DEF LostInWriting
  <2>3. NeverRead("User") = {}
    BY DEF NeverRead
  <2>4. QED
    BY <2>1, <2>2, <2>3, UserLists, UserForms DEF EntityLists
<1>4. EntityLists("File")
  <2>1. Entity["File"] = File
    BY DEF Entity
  <2>2. LostInWriting("File") = {}
    BY DEF LostInWriting
  <2>3. NeverRead("File") = {}
    BY DEF NeverRead
  <2>4. QED
    BY <2>1, <2>2, <2>3, FileLists, FileForms DEF EntityLists
<1>5. EntityLists("PhotoSize")
  <2>1. Entity["PhotoSize"] = PhotoSize
    BY DEF Entity
  <2>2. LostInWriting("PhotoSize") = {"file_path"}
    BY DEF LostInWriting
  <2>3. NeverRead("PhotoSize") = {}
    BY DEF NeverRead
  <2>4. QED
    BY <2>1, <2>2, <2>3, PhotoSizeLists, PhotoSizeForms DEF EntityLists
<1>6. EntityLists("Document")
  <2>1. Entity["Document"] = Document
    BY DEF Entity
  <2>2. LostInWriting("Document") = {"thumbnail"}
    BY DEF LostInWriting
  <2>3. NeverRead("Document") = {}
    BY DEF NeverRead
  <2>4. QED
    BY <2>1, <2>2, <2>3, DocumentLists, DocumentForms DEF EntityLists
<1>7. EntityLists("Thumb")
  <2>1. Entity["Thumb"] = Thumb
    BY DEF Entity
  <2>2. LostInWriting("Thumb") = {}
    BY DEF LostInWriting
  <2>3. NeverRead("Thumb") = {}
    BY DEF NeverRead
  <2>4. QED
    BY <2>1, <2>2, <2>3, ThumbLists, ThumbForms DEF EntityLists
<1>8. EntityLists("getUpdates")
  <2>1. Entity["getUpdates"] = GetUpdates
    BY DEF Entity
  <2>2. LostInWriting("getUpdates") = {"allowed_updates"}
    BY DEF LostInWriting
  <2>3. NeverRead("getUpdates") = {}
    BY DEF NeverRead
  <2>4. QED
    BY <2>1, <2>2, <2>3, GetUpdatesLists, GetUpdatesForms DEF EntityLists
<1>9. EntityLists("TelegramResponse")
  <2>1. Entity["TelegramResponse"] = TelegramResponse
    BY DEF Entity
  <2>2. LostInWriting("TelegramResponse") = {"description", "update_id"}
    BY DEF LostInWriting
  <2>3. NeverRead("TelegramResponse") = {}
    BY DEF NeverRead
  <2>4. QED
    BY <2>1, <2>2, <2>3, TelegramResponseLists, TelegramResponseForms DEF EntityLists
<1>10. EntityLists("message")
  <2>1. Entity["message"] = Message
    BY DEF Entity
  <2>2. LostInWriting("message") = {"from", "sender_chat", "sender_business_bot",
                                    "reply_to_message", "via_bot", "photo"}
    BY DEF LostInWriting
  <2>3. NeverRead("message") = {"has_protected_content", "forward_origin"}
    BY DEF NeverRead
  <2>4. QED
    BY <2>1, <2>2, <2>3, MessageLists, MessageForms DEF EntityLists
<1>11. QED
  BY <1>1, <1>2, <1>3, <1>4, <1>5, <1>6, <1>7, <1>8, <1>9, <1>10

-----------------------------------------------------------------------------
(***************************************************************************)
(* The document that a behaviour builds, and what is taken from it.        *)
(***************************************************************************)
DocumentTyped ==
  document # NoDocument =>
    /\ document.of \in DOMAIN Entity
    /\ \A n \in DOMAIN document.fields : IsDocument(document.fields[n])

LEMMA RestrictIs ==
  ASSUME NEW f, NEW S
  PROVE  DOMAIN Restrict(f, S) = S /\ \A x \in S : Restrict(f, S)[x] = f[x]
  BY DEF Restrict

\* Changes keep a document one whose numbers are integers.
LEMMA DocumentsTyped == MessageSpec => []DocumentTyped
<1>1. MessageInit => DocumentTyped
  BY DEF MessageInit, DocumentTyped
<1>2. DocumentTyped /\ [MessageNext]_message => DocumentTyped'
  <2> SUFFICES ASSUME DocumentTyped, [MessageNext]_message PROVE DocumentTyped'
    OBVIOUS
  <2>1. CASE BeginDocument
    <3>0. PICK of \in DOMAIN Entity :
            \E fields \in {DOMAIN Kinds(Entity[of]), DOMAIN Entity[of].requested} :
              document' = [of |-> of, fields |-> [n \in fields |-> Correct[of][n]],
                           changes |-> 0]
      BY <2>1 DEF BeginDocument
    <3>1. PICK fields \in {DOMAIN Kinds(Entity[of]), DOMAIN Entity[of].requested} :
            document' = [of |-> of, fields |-> [n \in fields |-> Correct[of][n]],
                         changes |-> 0]
      BY <3>0
    <3>2. fields \subseteq DOMAIN Kinds(Entity[of])
      BY <3>1 DEF Kinds, ++
    <3>3. \A n \in DOMAIN Kinds(Entity[of]) : IsDocument(Correct[of][n])
      BY DocumentAssumption
    <3>4. document'.of = of /\ document'.fields = [n \in fields |-> Correct[of][n]]
      BY <3>1
    <3>5. \A n \in DOMAIN document'.fields : IsDocument(document'.fields[n])
      BY <3>2, <3>3, <3>4
    <3>6. QED
      BY <3>4, <3>5 DEF DocumentTyped
  <2>2. CASE ChangeDocument
    <3>1. /\ document.of \in DOMAIN Entity
          /\ \A n \in DOMAIN document.fields : IsDocument(document.fields[n])
      BY <2>2 DEF ChangeDocument, DocumentTyped
    <3>2. PICK n \in FieldsOf(document.of) :
            \E fields \in {Restrict(document.fields, DOMAIN document.fields \ {n})}
                          \cup {[k \in {n} |-> v] ++ document.fields : v \in OtherValues[n]} :
              document' = [of |-> document.of, fields |-> fields,
                           changes |-> document.changes + 1]
      BY <2>2 DEF ChangeDocument
    <3>3. \A v \in OtherValues[n] : IsDocument(v)
      BY <3>1, <3>2, DocumentAssumption
    <3>4. PICK fields : /\ document' = [of |-> document.of, fields |-> fields,
                                        changes |-> document.changes + 1]
                        /\ \/ fields = Restrict(document.fields, DOMAIN document.fields \ {n})
                           \/ \E v \in OtherValues[n] :
                                fields = [k \in {n} |-> v] ++ document.fields
      BY <3>2
    <3>5. \A k \in DOMAIN fields : IsDocument(fields[k])
      <4>1. CASE fields = Restrict(document.fields, DOMAIN document.fields \ {n})
        BY <3>1, <4>1, RestrictIs
      <4>2. ASSUME NEW v \in OtherValues[n], fields = [k \in {n} |-> v] ++ document.fields
            PROVE  \A k \in DOMAIN fields : IsDocument(fields[k])
        <5>1. /\ DOMAIN fields = {n} \cup DOMAIN document.fields
              /\ fields[n] = v
              /\ \A k \in DOMAIN document.fields \ {n} : fields[k] = document.fields[k]
          BY <4>2 DEF ++
        <5>2. QED
          BY <3>1, <3>3, <5>1
      <4>3. QED
        BY <3>4, <4>1, <4>2
    <3>6. document'.of = document.of /\ document'.fields = fields
      BY <3>4
    <3>7. QED
      BY <3>1, <3>5, <3>6 DEF DocumentTyped
  <2>3. CASE NextCharacter \/ UNCHANGED message
    BY <2>3 DEF NextCharacter, message, DocumentTyped
  <2>4. QED
    BY <2>1, <2>2, <2>3 DEF MessageNext
<1>3. QED
  BY <1>1, <1>2, PTL DEF MessageSpec

-----------------------------------------------------------------------------
\* Fields with what an entity puts around them.
Around(of, fields) ==
  IF Entity[of].under = <<>> THEN Object(fields)
  ELSE Object([key \in {Entity[of].under[1]} |-> Object(fields)])

\* Under the pointers of a table the fields are found.
LEMMA AroundFields ==
  ASSUME NEW of \in DOMAIN Entity, NEW fields, NEW n
  PROVE  Find(Around(of, fields), Append(Entity[of].under, n)) = Field(Object(fields), n)
<1> DEFINE under == Entity[of].under
<1>1. under \in {<<>>, <<"getupdates">>}
  BY EachEntity DEF EntityLists, Forms
<1> HIDE DEF under
<1>2. CASE under = <<>>
  <2>1. Append(under, n) = <<n>>
    BY <1>2
  <2>2. Around(of, fields) = Object(fields)
    BY <1>2 DEF Around, under
  <2>3. QED
    BY <2>1, <2>2, FindOne DEF under
<1>3. CASE under = <<"getupdates">>
  <2>1. Append(<<"getupdates">>, n) = <<"getupdates", n>>
    <3> DEFINE S == {"getupdates", n}
               a == Append(<<"getupdates">>, n)
               b == <<"getupdates", n>>
    <3>1. <<"getupdates">> \in Seq(S) /\ Len(<<"getupdates">>) = 1 /\ n \in S
      OBVIOUS
    <3>2. b \in Seq(S) /\ Len(b) = 2 /\ b[1] = "getupdates" /\ b[2] = n
      OBVIOUS
    <3>3. a \in Seq(S) /\ Len(a) = 2 /\ a[1] = "getupdates" /\ a[2] = n
      BY <3>1, AppendProperties
    <3> HIDE DEF a, b
    <3>4. \A i \in 1 .. Len(a) : a[i] = b[i]
      BY <3>2, <3>3
    <3>5. a = b
      BY <3>2, <3>3, <3>4, SeqEqual
    <3>6. QED
      BY <3>5 DEF a, b
  <2> DEFINE inside == [key \in {"getupdates"} |-> Object(fields)]
  <2>2. Around(of, fields) = Object(inside)
    <3>1. <<"getupdates">> # <<>> /\ <<"getupdates">>[1] = "getupdates"
      OBVIOUS
    <3>2. QED
      BY <1>3, <3>1 DEF Around, under
  <2>3. Field(Object(inside), "getupdates") = Object(fields)
    BY DEF Field, Object
  <2> HIDE DEF inside
  <2>4. Find(Object(inside), <<"getupdates", n>>) = Field(Object(fields), n)
    BY <2>3, FindTwo
  <2>5. Find(Around(of, fields), Append(under, n)) = Find(Object(inside), <<"getupdates", n>>)
    BY <1>3, <2>1, <2>2
  <2>6. QED
    BY <2>4, <2>5 DEF under
<1>4. QED
  BY <1>1, <1>2, <1>3

LEMMA GivenIs == Given = Around(document.of, document.fields)
  BY DEF Given, Around

\* What a document holds under a name of the table is what was put there.
LEMMA FoundInGiven ==
  ASSUME DocumentTyped, document # NoDocument, NEW n
  PROVE  LET found == Find(Given, Append(Entity[document.of].under, n))
         IN  /\ found = Field(Object(document.fields), n)
             /\ found # None => n \in DOMAIN document.fields /\ found = document.fields[n]
             /\ found # None => IsDocument(found)
<1>1. Find(Given, Append(Entity[document.of].under, n)) = Field(Object(document.fields), n)
  BY GivenIs, AroundFields DEF DocumentTyped
<1>2. \/ Field(Object(document.fields), n) = None
      \/ /\ n \in DOMAIN document.fields
         /\ Field(Object(document.fields), n) = document.fields[n]
  BY DEF Field, Object
<1>3. QED
  BY <1>1, <1>2 DEF DocumentTyped

-----------------------------------------------------------------------------
\* What is in the table, in the list of members and of the right kind is taken.
LEMMA TakenIs ==
  ASSUME NEW of, NEW map
  PROVE  \A n : /\ n \in DOMAIN Taken(of, map) <=>
                     /\ n \in Entity[of].reads
                     /\ n \in DOMAIN Kinds(Entity[of])
                     /\ n \in DOMAIN map
                     /\ ValueToType(Kinds(Entity[of])[n], map[n]) # None
                /\ n \in DOMAIN Taken(of, map) =>
                     Taken(of, map)[n] = ValueToType(Kinds(Entity[of])[n], map[n])
<1> DEFINE K == Kinds(Entity[of])
           S == Entity[of].reads \cap DOMAIN K
           asked == Restrict(K, S)
<1>1. DOMAIN asked = S /\ \A n \in S : asked[n] = K[n]
  BY RestrictIs
<1> HIDE DEF asked
<1>2. Taken(of, map) =
        [n \in {n \in DOMAIN asked \cap DOMAIN map : ValueToType(asked[n], map[n]) # None} |->
           ValueToType(asked[n], map[n])]
  BY DEF Taken, FieldFromMap, asked
<1> HIDE DEF K
<1>3. QED
  BY <1>1, <1>2 DEF K

\* What is right to take is taken.
LEMMA RightKind ==
  ASSUME NEW kind, NEW v, v # None,
         (kind \in Integral /\ v.kind \in Integral) \/ (kind \notin Integral /\ v.kind = kind)
  PROVE  ValueToType(kind, v) # None
<1>1. CASE kind \in Integral
  BY <1>1 DEF ValueToType, None, Integral
<1>2. CASE kind \notin Integral
  BY <1>2 DEF ValueToType
<1>3. QED
  BY <1>1, <1>2

-----------------------------------------------------------------------------
(***************************************************************************)
(* From a document to members.                                             *)
(***************************************************************************)
\* What becomes of what is taken.
ReadAs(of, map, m) ==
  /\ \A n \in DOMAIN Taken(of, map) \ Empty(of, map) : n \in DOMAIN m
  /\ \A n \in DOMAIN Taken(of, map) :
       n \notin DOMAIN Entity[of].nested \cup NoMember => m[n] = Taken(of, map)[n]
  /\ \A n \in DOMAIN m :
       \/ n \in DOMAIN Taken(of, map) \ Empty(of, map)
       \/ n = "forward_origin" /\ DOMAIN map \cap OriginNames # {}
       \/ n = "allowed_updates" /\ of = "getUpdates"

Own(of, map, own) ==
  /\ DOMAIN own = DOMAIN Taken(of, map) \ Empty(of, map)
  /\ \A n \in DOMAIN own :
       n \notin DOMAIN Entity[of].nested \cup NoMember => own[n] = Taken(of, map)[n]

\* The three sums of fields_from_map.
LEMMA ReadBySum ==
  ASSUME NEW of, NEW map, NEW own, Own(of, map, own)
  PROVE  ReadAs(of, map, own ++ OriginMember(map) ++ AlwaysMember(of))
<1> DEFINE origin == OriginMember(map)
           always == AlwaysMember(of)
           m == own ++ origin ++ always
<1>1. \A n \in DOMAIN origin : n = "forward_origin" /\ DOMAIN map \cap OriginNames # {}
  BY DEF OriginMember, FindMessageOriginHeirs, OriginNames
<1>2. \A n \in DOMAIN always : n = "allowed_updates" /\ of = "getUpdates"
  BY DEF AlwaysMember, Nothing
<1>3. \A n \in DOMAIN Taken(of, map) : n \notin NoMember => n \in DOMAIN own
  BY DEF Empty, NoMember, Own
<1> HIDE DEF origin, always
<1>4. /\ DOMAIN m = DOMAIN own \cup DOMAIN origin \cup DOMAIN always
      /\ \A n \in DOMAIN own : m[n] = own[n]
  BY DEF ++
<1> HIDE DEF m
<1>5. ReadAs(of, map, m)
  BY <1>1, <1>2, <1>3, <1>4 DEF ReadAs, Own
<1>6. QED
  BY <1>5 DEF m, origin, always

\* fields_from_map at each of the levels that are read.
LEMMA NestedReads ==
  ASSUME NEW of \in DOMAIN Entity, NEW map
  PROVE  LET m == FieldsFromMap(of, map, Nested)
             nested == Entity[of].nested
         IN  /\ ReadAs(of, map, m)
             /\ \A n \in DOMAIN Taken(of, map) \ Empty(of, map) :
                  /\ n \in DOMAIN nested => m[n] = Object(Nested(nested[n], Taken(of, map)[n]))
                  /\ n = "photo" => m[n] = Photos(Taken(of, map)[n].items, Nested)
<1> DEFINE taken == Taken(of, map)
           nested == Entity[of].nested
           m == FieldsFromMap(of, map, Nested)
           own == [n \in DOMAIN taken \ Empty(of, map) |->
                     CASE n \in DOMAIN nested     -> Object(Nested(nested[n], taken[n]))
                       [] n = "photo"           -> Photos(taken[n].items, Nested)
                       [] n = "allowed_updates" -> Serialised(taken[n].items)
                       [] OTHER                 -> taken[n]]
           origin == OriginMember(map)
           always == AlwaysMember(of)
<1>1. m = own ++ origin ++ always
  BY DEF FieldsFromMap
<1>2. DOMAIN nested \cap NoMember = {}
  BY EachEntity DEF EntityLists, Forms
<1> HIDE DEF taken, nested, origin, always, m
<1>3. ASSUME NEW n \in DOMAIN own
      PROVE  /\ n \in DOMAIN nested => own[n] = Object(Nested(nested[n], taken[n]))
             /\ n = "photo" => own[n] = Photos(taken[n].items, Nested)
             /\ n \notin DOMAIN nested \cup NoMember => own[n] = taken[n]
  <2>1. CASE n \in DOMAIN nested
    BY <1>2, <2>1 DEF NoMember
  <2>2. CASE n = "photo"
    BY <1>2, <2>2 DEF NoMember
  <2>3. CASE n \notin DOMAIN nested \cup NoMember
    BY <2>3 DEF NoMember
  <2>4. QED
    BY <2>1, <2>2, <2>3 DEF NoMember
<1>4. DOMAIN own = DOMAIN taken \ Empty(of, map)
  OBVIOUS
<1> HIDE DEF own
<1>5. Own(of, map, own)
  BY <1>3, <1>4 DEF taken, nested, Own
<1>6. ReadAs(of, map, own ++ origin ++ always)
  BY <1>5, ReadBySum DEF origin, always
<1>7. \A n \in DOMAIN own : m[n] = own[n]
  BY <1>1 DEF ++
<1>8. QED
  BY <1>1, <1>3, <1>4, <1>6, <1>7 DEF m, taken, nested

LEMMA LowerReads ==
  ASSUME NEW of \in DOMAIN Entity, NEW map
  PROVE  LET m == FieldsFromMap(of, map, Lower)
             nested == Entity[of].nested
         IN  /\ ReadAs(of, map, m)
             /\ \A n \in DOMAIN Taken(of, map) \ Empty(of, map) :
                  /\ n \in DOMAIN nested => m[n] = Object(Lower(nested[n], Taken(of, map)[n]))
                  /\ n = "photo" => m[n] = Photos(Taken(of, map)[n].items, Lower)
<1> DEFINE taken == Taken(of, map)
           nested == Entity[of].nested
           m == FieldsFromMap(of, map, Lower)
           own == [n \in DOMAIN taken \ Empty(of, map) |->
                     CASE n \in DOMAIN nested     -> Object(Lower(nested[n], taken[n]))
                       [] n = "photo"           -> Photos(taken[n].items, Lower)
                       [] n = "allowed_updates" -> Serialised(taken[n].items)
                       [] OTHER                 -> taken[n]]
           origin == OriginMember(map)
           always == AlwaysMember(of)
<1>1. m = own ++ origin ++ always
  BY DEF FieldsFromMap
<1>2. DOMAIN nested \cap NoMember = {}
  BY EachEntity DEF EntityLists, Forms
<1> HIDE DEF taken, nested, origin, always, m
<1>3. ASSUME NEW n \in DOMAIN own
      PROVE  /\ n \in DOMAIN nested => own[n] = Object(Lower(nested[n], taken[n]))
             /\ n = "photo" => own[n] = Photos(taken[n].items, Lower)
             /\ n \notin DOMAIN nested \cup NoMember => own[n] = taken[n]
  <2>1. CASE n \in DOMAIN nested
    BY <1>2, <2>1 DEF NoMember
  <2>2. CASE n = "photo"
    BY <1>2, <2>2 DEF NoMember
  <2>3. CASE n \notin DOMAIN nested \cup NoMember
    BY <2>3 DEF NoMember
  <2>4. QED
    BY <2>1, <2>2, <2>3 DEF NoMember
<1>4. DOMAIN own = DOMAIN taken \ Empty(of, map)
  OBVIOUS
<1> HIDE DEF own
<1>5. Own(of, map, own)
  BY <1>3, <1>4 DEF taken, nested, Own
<1>6. ReadAs(of, map, own ++ origin ++ always)
  BY <1>5, ReadBySum DEF origin, always
<1>7. \A n \in DOMAIN own : m[n] = own[n]
  BY <1>1 DEF ++
<1>8. QED
  BY <1>1, <1>3, <1>4, <1>6, <1>7 DEF m, taken, nested

LEMMA LowestReads ==
  ASSUME NEW of \in DOMAIN Entity, NEW map
  PROVE  LET m == FieldsFromMap(of, map, Lowest)
             nested == Entity[of].nested
         IN  /\ ReadAs(of, map, m)
             /\ \A n \in DOMAIN Taken(of, map) \ Empty(of, map) :
                  /\ n \in DOMAIN nested => m[n] = Object(Lowest(nested[n], Taken(of, map)[n]))
                  /\ n = "photo" => m[n] = Photos(Taken(of, map)[n].items, Lowest)
<1> DEFINE taken == Taken(of, map)
           nested == Entity[of].nested
           m == FieldsFromMap(of, map, Lowest)
           own == [n \in DOMAIN taken \ Empty(of, map) |->
                     CASE n \in DOMAIN nested     -> Object(Lowest(nested[n], taken[n]))
                       [] n = "photo"           -> Photos(taken[n].items, Lowest)
                       [] n = "allowed_updates" -> Serialised(taken[n].items)
                       [] OTHER                 -> taken[n]]
           origin == OriginMember(map)
           always == AlwaysMember(of)
<1>1. m = own ++ origin ++ always
  BY DEF FieldsFromMap
<1>2. DOMAIN nested \cap NoMember = {}
  BY EachEntity DEF EntityLists, Forms
<1> HIDE DEF taken, nested, origin, always, m
<1>3. ASSUME NEW n \in DOMAIN own
      PROVE  /\ n \in DOMAIN nested => own[n] = Object(Lowest(nested[n], taken[n]))
             /\ n = "photo" => own[n] = Photos(taken[n].items, Lowest)
             /\ n \notin DOMAIN nested \cup NoMember => own[n] = taken[n]
  <2>1. CASE n \in DOMAIN nested
    BY <1>2, <2>1 DEF NoMember
  <2>2. CASE n = "photo"
    BY <1>2, <2>2 DEF NoMember
  <2>3. CASE n \notin DOMAIN nested \cup NoMember
    BY <2>3 DEF NoMember
  <2>4. QED
    BY <2>1, <2>2, <2>3 DEF NoMember
<1>4. DOMAIN own = DOMAIN taken \ Empty(of, map)
  OBVIOUS
<1> HIDE DEF own
<1>5. Own(of, map, own)
  BY <1>3, <1>4 DEF taken, nested, Own
<1>6. ReadAs(of, map, own ++ origin ++ always)
  BY <1>5, ReadBySum DEF origin, always
<1>7. \A n \in DOMAIN own : m[n] = own[n]
  BY <1>1 DEF ++
<1>8. QED
  BY <1>1, <1>3, <1>4, <1>6, <1>7 DEF m, taken, nested

\* A document that is accepted becomes the members of what is accepted.
LEMMA CreateIs ==
  ASSUME NEW of, NEW v, VerifyFields(Entity[of], v) # {}
  PROVE  /\ Members(of, v) = FieldsFromMap(of, Accepted(Entity[of], v), Nested)
         /\ Nested(of, v) = FieldsFromMap(of, Accepted(Entity[of], v), Lower)
         /\ Lower(of, v) = FieldsFromMap(of, Accepted(Entity[of], v), Lowest)
<1> DEFINE A == Accepted(Entity[of], v)
<1>1. VerifyFields(Entity[of], v) = {A}
  BY Verified
<1>2. (CHOOSE map \in {A} : TRUE) = A
  OBVIOUS
<1> HIDE DEF A
<1>3. Members(of, v) = FieldsFromMap(of, A, Nested)
  BY <1>1, <1>2 DEF Members, Create
<1>4. Nested(of, v) = FieldsFromMap(of, A, Lower)
  BY <1>1, <1>2 DEF Nested, Create
<1>5. Lower(of, v) = FieldsFromMap(of, A, Lowest)
  BY <1>1, <1>2 DEF Lower, Create
<1>6. QED
  BY <1>3, <1>4, <1>5 DEF A

\* What the constructor sets is there, of a response as well.
LEMMA ReadIs ==
  ASSUME NEW of, NEW v, NEW members \in Read(of, v)
  PROVE  /\ VerifyFields(Entity[of], v) # {}
         /\ DOMAIN Members(of, v) \subseteq DOMAIN members
         /\ \A n \in DOMAIN Members(of, v) : members[n] = Members(of, v)[n]
         /\ of # "TelegramResponse" => members = Members(of, v)
         /\ of = "TelegramResponse" => members \in ResponseFromMap(v)
<1>1. VerifyFields(Entity[of], v) # {}
  BY DEF Read
<1>2. CASE of # "TelegramResponse"
  BY <1>1, <1>2 DEF Read
<1>3. CASE of = "TelegramResponse"
  <2>1. members \in ResponseFromMap(v)
    BY <1>1, <1>3 DEF Read
  <2> DEFINE plain == Members("TelegramResponse", v)
  <2>2. \E more : members = plain ++ more
    <3> HIDE DEF plain
    <3>1. QED
      BY <2>1 DEF ResponseFromMap, plain
  <2>3. DOMAIN plain \subseteq DOMAIN members /\ \A n \in DOMAIN plain : members[n] = plain[n]
    <3> HIDE DEF plain
    <3>1. QED
      BY <2>2 DEF ++
  <2>4. QED
    BY <1>1, <1>3, <2>1, <2>3
<1>4. QED
  BY <1>2, <1>3

LEMMA KindsAre ==
  ASSUME NEW e, Apart(e)
  PROVE  /\ DOMAIN Kinds(e) = DOMAIN e.requested \cup DOMAIN e.optional
         /\ \A n \in DOMAIN e.requested : Kinds(e)[n] = e.requested[n]
         /\ \A n \in DOMAIN e.optional : Kinds(e)[n] = e.optional[n]
<1>1. DOMAIN e.requested \cap DOMAIN e.optional = {}
  BY DEF Apart
<1>2. QED
  BY <1>1 DEF Kinds, ++

LEMMA AcceptedRead == DocumentTyped => AcceptedIsRead
<1> SUFFICES ASSUME DocumentTyped, document # NoDocument,
                    NEW map \in VerifyFields(Entity[document.of], Given),
                    NEW members \in Read(document.of, Given)
             PROVE  /\ \A n \in DOMAIN map \ NeverRead(document.of) :
                         /\ \/ Kinds(Entity[document.of])[n] \in Integral
                            \/ map[n].kind = Kinds(Entity[document.of])[n]
                         /\ map[n] # Array(<<>>)
                         => n \in DOMAIN members
                    /\ "forward_origin" \in DOMAIN map =>
                         \A heir \in Heirs : VerifyHeir(heir, map.forward_origin) = {}
  BY DEF AcceptedIsRead
<1> DEFINE of == document.of
           e == Entity[of]
           K == Kinds(e)
           m == Members(of, Given)
<1>1. /\ of \in DOMAIN Entity /\ EntityLists(of) /\ map = Accepted(e, Given)
  BY EachEntity, Verified DEF DocumentTyped
<1>2. ReadAs(of, map, m) /\ DOMAIN m \subseteq DOMAIN members
  <2>1. VerifyFields(e, Given) # {}
    OBVIOUS
  <2>2. m = FieldsFromMap(of, map, Nested)
    BY <1>1, <2>1, CreateIs
  <2>3. ReadAs(of, map, FieldsFromMap(of, map, Nested))
    BY <1>1, NestedReads
  <2>4. DOMAIN m \subseteq DOMAIN members
    BY ReadIs
  <2>5. QED
    BY <2>2, <2>3, <2>4
<1>3. /\ Apart(e) /\ DOMAIN K \subseteq e.reads \cup NeverRead(of)
      /\ "photo" \in e.reads => /\ "photo" \in DOMAIN e.optional
                                /\ e.optional["photo"] = "array"
  BY <1>1, KindsAre DEF EntityLists, Lists, Forms
<1>4. ASSUME NEW n \in DOMAIN map \ NeverRead(of),
             K[n] \in Integral \/ map[n].kind = K[n],
             map[n] # Array(<<>>)
      PROVE  n \in DOMAIN members
  <2>1. /\ n \in DOMAIN K
        /\ map[n] = Find(Given, Append(e.under, n))
        /\ map[n].kind \in Integral \cup {K[n]}
        /\ map[n] # None
    BY <1>1, <1>3, AcceptedIs
  <2>2. n \in e.reads
    BY <1>3, <1>4, <2>1
  <2>3. ValueToType(K[n], map[n]) # None
    BY <1>4, <2>1, RightKind
  <2>4. n \in DOMAIN Taken(of, map) /\ Taken(of, map)[n] = ValueToType(K[n], map[n])
    BY <1>4, <2>1, <2>2, <2>3, TakenIs
  <2>5. n \notin Empty(of, map)
    <3> SUFFICES ASSUME n = "photo", Taken(of, map)[n].items = <<>> PROVE FALSE
      BY DEF Empty
    <3>1. K[n] = "array"
      BY <1>3, <2>2, KindsAre
    <3>2. map[n].kind = "array" /\ Taken(of, map)[n] = map[n]
      BY <1>4, <2>1, <2>4, <3>1 DEF ValueToType, Integral
    <3>3. IsDocument(map[n])
      BY <2>1, FoundInGiven
    <3>4. map[n] = Array(map[n].items)
      BY <3>2, <3>3 DEF IsDocument, IsValue
    <3>5. QED
      BY <1>4, <3>2, <3>4
  <2>6. QED
    BY <1>2, <2>4, <2>5 DEF ReadAs
<1>5. QED
  BY <1>4, NoOrigin

\* Whatever the fields hold and however many are changed: verify_fields and
\* fields_from_map of every entity agree (see AcceptedIsRead).
THEOREM AcceptedFieldsRead == MessageSpec => []AcceptedIsRead
  BY DocumentsTyped, AcceptedRead, PTL

-----------------------------------------------------------------------------
(***************************************************************************)
(* The photos of a message.                                                *)
(***************************************************************************)
\* As many as there are is all of them.
LEMMA FullSubset ==
  ASSUME NEW S, IsFiniteSet(S), NEW T \in SUBSET S, Cardinality(T) = Cardinality(S)
  PROVE  T = S
<1>1. Cardinality(S) = Cardinality(T) => S = T
  BY FS_Subset
<1>2. QED
  BY <1>1

\* What a photo is read as: an element of an array as a file, a thumbnail as
\* itself.
PhotoTables == {"File", "PhotoSize"}

LEMMA TwoIds ==
  /\ IsFiniteSet({"file_id", "file_unique_id"})
  /\ Cardinality({"file_id", "file_unique_id"}) = 2
<1>1. IsFiniteSet({"file_id"}) /\ Cardinality({"file_id"}) = 1
  BY FS_Singleton
<1>2. /\ {"file_id", "file_unique_id"} = {"file_id"} \cup {"file_unique_id"}
      /\ "file_unique_id" \notin {"file_id"}
  OBVIOUS
<1>3. QED
  BY <1>1, <1>2, FS_AddElement

LEMMA FourSides ==
  /\ IsFiniteSet({"file_id", "file_unique_id", "width", "height"})
  /\ Cardinality({"file_id", "file_unique_id", "width", "height"}) = 4
<1>1. /\ {"file_id", "file_unique_id", "width"}
           = {"file_id", "file_unique_id"} \cup {"width"}
      /\ {"file_id", "file_unique_id", "width", "height"}
           = {"file_id", "file_unique_id", "width"} \cup {"height"}
  OBVIOUS
<1>2. /\ IsFiniteSet({"file_id", "file_unique_id", "width"})
      /\ Cardinality({"file_id", "file_unique_id", "width"}) = 3
  <2>1. "width" \notin {"file_id", "file_unique_id"}
    OBVIOUS
  <2>2. QED
    BY <1>1, <2>1, TwoIds, FS_AddElement
<1>3. "height" \notin {"file_id", "file_unique_id", "width"}
  OBVIOUS
<1>4. QED
  BY <1>1, <1>2, <1>3, FS_AddElement

\* These tables.
LEMMA PhotoTablesAre ==
  ASSUME NEW of \in PhotoTables
  PROVE  /\ of \in DOMAIN Entity
         /\ Entity[of].under = <<>>
         /\ IsFiniteSet(DOMAIN Entity[of].requested)
         /\ Cardinality(DOMAIN Entity[of].requested) = Entity[of].req_fields
         /\ "file_id" \in DOMAIN Entity[of].requested
         /\ Entity[of].requested["file_id"] = "string"
         /\ "file_id" \in Entity[of].reads
<1>1. /\ PhotoTables \subseteq DOMAIN Entity
      /\ Entity["File"] = File
      /\ Entity["PhotoSize"] = PhotoSize
  BY DEF Entity, PhotoTables
<1>2. CASE of = "File"
  <2>1. File.under = <<>> /\ File.req_fields = 2 /\ "file_id" \in File.reads
    BY DEF File, FileFields, Plain, ++
  <2>2. /\ DOMAIN File.requested = {"file_id", "file_unique_id"}
        /\ File.requested["file_id"] = "string"
    BY DEF File, Plain, Fields, ++
  <2>3. QED
    BY <1>1, <1>2, <2>1, <2>2, TwoIds
<1>3. CASE of = "PhotoSize"
  <2>1. PhotoSize.under = <<>> /\ PhotoSize.req_fields = 4
    BY DEF PhotoSize, File, Plain, ++
  <2>2. /\ DOMAIN PhotoSize.requested = {"file_id", "file_unique_id", "width", "height"}
        /\ PhotoSize.requested["file_id"] = "string"
    BY DEF PhotoSize, File, Plain, Fields, ++
  <2>3. "file_id" \in PhotoSize.reads
    BY DEF PhotoSize, File, FileFields, Plain, ++
  <2>4. QED
    BY <1>1, <1>3, <2>1, <2>2, <2>3, FourSides
<1>4. QED
  BY <1>1, <1>2, <1>3 DEF PhotoTables

\* A photo whose id is no number has it.
LEMMA PhotoHasId ==
  ASSUME NEW of \in PhotoTables, NEW v, VerifyFields(Entity[of], v) # {},
         ~ NumberForId(v)
  PROVE  /\ "file_id" \in DOMAIN Nested(of, v)
         /\ "file_id" \in DOMAIN Lower(of, v)
<1> DEFINE e == Entity[of]
           map == Accepted(e, v)
           req == MappedPointersValidation(v, e.under, e.requested)
           K == Kinds(e)
<1>1. of \in DOMAIN Entity /\ EntityLists(of)
  BY EachEntity, PhotoTablesAre
<1>2. Apart(e)
  BY <1>1 DEF EntityLists, Lists
<1>3. "file_id" \in DOMAIN req
  <2>1. Cardinality(DOMAIN req) = e.req_fields
    <3>1. AllOf(e.req_fields, req) # {}
      BY DEF VerifyFields
    <3>2. QED
      BY <3>1 DEF AllOf
  <2>2. DOMAIN req \subseteq DOMAIN e.requested
    BY Validated
  <2>3. DOMAIN req = DOMAIN e.requested
    <3> DEFINE S == DOMAIN e.requested
    <3>1. IsFiniteSet(S) /\ Cardinality(S) = e.req_fields
      BY PhotoTablesAre
    <3>2. DOMAIN req \in SUBSET S
      BY <2>2
    <3> HIDE DEF S, req
    <3>3. DOMAIN req = S
      BY <2>1, <3>1, <3>2, FullSubset
    <3>4. QED
      BY <3>3 DEF S
  <2>4. QED
    BY <2>3, PhotoTablesAre
<1>4. /\ "file_id" \in DOMAIN K /\ K["file_id"] = "string"
  <2>1. "file_id" \in DOMAIN e.requested /\ e.requested["file_id"] = "string"
    BY PhotoTablesAre
  <2> HIDE DEF e
  <2>2. QED
    BY <1>2, <2>1, KindsAre
<1>5. Append(e.under, "file_id") = <<"file_id">>
  <2>1. e.under = <<>>
    BY PhotoTablesAre
  <2> HIDE DEF e
  <2>2. QED
    BY <2>1
<1>6. /\ Find(v, Append(e.under, "file_id")) = Field(v, "file_id")
      /\ Find(v, Append(e.under, "file_id")).kind \in Integral \cup {"string"}
      /\ Find(v, Append(e.under, "file_id")) # None
  <2>1. Find(v, Append(e.under, "file_id")) = Field(v, "file_id")
    BY <1>5, FindOne
  <2>2. /\ Find(v, Append(e.under, "file_id")).kind
             \in Integral \cup {e.requested["file_id"]}
        /\ Find(v, Append(e.under, "file_id")) # None
    BY <1>3, Validated
  <2>3. e.requested["file_id"] = "string"
    BY PhotoTablesAre
  <2>4. QED
    BY <2>1, <2>2, <2>3
<1>7. Field(v, "file_id").kind = "string"
  BY <1>6 DEF NumberForId
<1>8. "file_id" \in DOMAIN map /\ map["file_id"] = Field(v, "file_id")
  BY <1>2, <1>4, <1>6, AcceptedIs
<1>9. ValueToType("string", map["file_id"]) # None
  BY <1>6, <1>7, <1>8, RightKind DEF Integral
<1>10. "file_id" \in DOMAIN Taken(of, map) \ Empty(of, map)
  BY <1>4, <1>8, <1>9, TakenIs, PhotoTablesAre DEF Empty
<1>11. /\ Nested(of, v) = FieldsFromMap(of, map, Lower)
       /\ Lower(of, v) = FieldsFromMap(of, map, Lowest)
  BY PhotoTablesAre, CreateIs
<1> HIDE DEF map
<1>12. /\ ReadAs(of, map, FieldsFromMap(of, map, Lower))
       /\ ReadAs(of, map, FieldsFromMap(of, map, Lowest))
  BY <1>1, LowerReads, LowestReads
<1>13. QED
  BY <1>10, <1>11, <1>12 DEF ReadAs

-----------------------------------------------------------------------------
\* The photos among the elements of an array.
ValidSet(items) ==
  {items[j] : j \in {j \in 1 .. Len(items) : VerifyFields(File, items[j]) # {}}}

Kept(items) == {Object(Nested("File", v)) : v \in ValidSet(items)}

\* No other elements stay.
LEMMA ValidStay ==
  ASSUME NEW S, NEW items \in Seq(S)
  PROVE  ValidPhotos(items) \in Seq(ValidSet(items))
<1> DEFINE n == Len(items)
           Q == Seq(ValidSet(items))
           grown(i, x) == IF VerifyFields(File, items[i]) = {} THEN x
                          ELSE Append(x, items[i])
           step == [p \in (0 .. n) \X Q |-> grown(p[1], p[2])]
           Is(f) == f = [i \in 0 .. n |->
                           CASE i = 0 -> <<>>
                             [] i > 0 /\ VerifyFields(File, items[i]) = {} -> f[i - 1]
                             [] OTHER -> Append(f[i - 1], items[i])]
<1>1. n \in Nat /\ <<>> \in Q
  BY LenProperties, EmptySeq
<1>2. ValidPhotos(items) = (CHOOSE f : Is(f))[n]
  BY DEF ValidPhotos
<1>3. ASSUME NEW i \in 1 .. n, NEW x \in Q PROVE grown(i, x) \in Q
  <2>1. CASE VerifyFields(File, items[i]) = {}
    BY <1>3, <2>1
  <2>2. CASE VerifyFields(File, items[i]) # {}
    <3>1. items[i] \in ValidSet(items)
      BY <2>2 DEF ValidSet
    <3>2. Append(x, items[i]) \in Q
      BY <1>3, <3>1, AppendProperties
    <3>3. QED
      BY <2>2, <3>2
  <2>3. QED
    BY <2>1, <2>2
<1>4. \A f : Is(f) <=> f = [i \in 0 .. n |-> IF i = 0 THEN <<>> ELSE grown(i, f[i - 1])]
  <2>1. ASSUME NEW f, NEW i \in 0 .. n
        PROVE  (CASE i = 0 -> <<>>
                  [] i > 0 /\ VerifyFields(File, items[i]) = {} -> f[i - 1]
                  [] OTHER -> Append(f[i - 1], items[i]))
               = IF i = 0 THEN <<>> ELSE grown(i, f[i - 1])
    <3>1. CASE i = 0
      BY <3>1
    <3>2. CASE i # 0 /\ VerifyFields(File, items[i]) = {}
      BY <1>1, <3>2
    <3>3. CASE i # 0 /\ VerifyFields(File, items[i]) # {}
      BY <3>3
    <3>4. QED
      BY <3>1, <3>2, <3>3
  <2>2. QED
    BY <2>1
<1>5. \A i \in 0 .. n : \A x \in Q : step[<<i, x>>] = grown(i, x)
  OBVIOUS
<1> HIDE DEF step, grown, Q, n, Is
<1>6. \A i \in 0 .. n : i # 0 => \A x \in Q : step[<<i, x>>] \in Q
  <2>1. ASSUME NEW i \in 0 .. n, i # 0, NEW x \in Q PROVE step[<<i, x>>] \in Q
    <3>1. i \in 1 .. n
      BY <1>1, <2>1
    <3>2. QED
      BY <1>3, <1>5, <3>1
  <2>2. QED
    BY <2>1
<1>7. PICK g : Recurs(g, Q, 0, n, <<>>, step)
  <2>1. 0 \in Nat /\ 0 <= n
    BY <1>1
  <2>2. QED
    BY <1>1, <1>6, <2>1, Recursion, Zenon
<1>8. Is(g)
  <2>1. g \in [0 .. n -> Q] /\ g[0] = <<>>
    BY <1>7 DEF Recurs
  <2>2. ASSUME NEW i \in 0 .. n, i # 0 PROVE g[i] = grown(i, g[i - 1])
    <3>1. i - 1 \in 0 .. n
      BY <1>1, <2>2
    <3>2. g[i - 1] \in Q /\ g[i] = step[<<i, g[i - 1]>>]
      BY <1>7, <2>1, <2>2, <3>1 DEF Recurs
    <3>3. QED
      BY <1>5, <3>2
  <2>3. g = [i \in 0 .. n |-> IF i = 0 THEN <<>> ELSE grown(i, g[i - 1])]
    <3>1. g = [i \in 0 .. n |-> g[i]]
      BY <2>1
    <3>2. QED
      BY <2>1, <2>2, <3>1
  <2>4. QED
    BY <1>4, <2>3
<1> DEFINE f == CHOOSE f : Is(f)
<1>9. Is(f)
  BY <1>8
<1> HIDE DEF f
<1>10. \A i \in 0 .. n : f[i] = IF i = 0 THEN <<>> ELSE grown(i, f[i - 1])
  <2>1. f = [i \in 0 .. n |-> IF i = 0 THEN <<>> ELSE grown(i, f[i - 1])]
    BY <1>4, <1>9
  <2>2. QED
    BY <2>1
<1> DEFINE T == {k \in 0 .. n : f[k] \in Q}
<1>11. 0 \in T
  <2>1. 0 \in 0 .. n
    BY <1>1
  <2>2. QED
    BY <1>1, <1>10, <2>1
<1>12. ASSUME NEW k \in 0 .. n - 1, k \in T PROVE k + 1 \in T
  <2>1. k + 1 \in 0 .. n /\ k + 1 \in 1 .. n /\ k + 1 # 0 /\ (k + 1) - 1 = k
    BY <1>1
  <2>2. f[k + 1] = grown(k + 1, f[k])
    BY <1>10, <2>1
  <2>3. QED
    BY <1>3, <1>12, <2>1, <2>2
<1>13. n \in T
  <2> HIDE DEF T
  <2>1. 0 .. n \subseteq T
    BY <1>1, <1>11, <1>12, UpTo
  <2>2. n \in 0 .. n
    BY <1>1
  <2>3. QED
    BY <2>1, <2>2
<1>14. QED
  BY <1>2, <1>13 DEF f, Q

\* The array holds members of accepted elements only.
LEMMA PhotosKept ==
  ASSUME NEW S, NEW items \in Seq(S)
  PROVE  Photos(items, Nested).items \in Seq(Kept(items))
<1> DEFINE valid == ValidPhotos(items)
           photos == [i \in DOMAIN valid |-> Object(Nested("File", valid[i]))]
<1>1. valid \in Seq(ValidSet(items))
  BY ValidStay
<1>2. DOMAIN valid = 1 .. Len(valid) /\ Len(valid) \in Nat
      /\ \A i \in 1 .. Len(valid) : valid[i] \in ValidSet(items)
  BY <1>1, LenProperties, ElementOfSeq
<1>3. Photos(items, Nested).items = photos
  BY DEF Photos, Array
<1> HIDE DEF valid
<1>4. photos \in [1 .. Len(valid) -> Kept(items)]
  BY <1>2 DEF Kept
<1>5. QED
  BY <1>2, <1>3, <1>4, SeqDef

\* The tables of a message and of a document.
LEMMA MessageIs ==
  /\ Entity["message"] = Message
  /\ Message.under = <<>>
  /\ DOMAIN Message.nested = {"chat", "sender_chat", "from", "sender_business_bot",
                              "via_bot", "reply_to_message", "document"}
  /\ Message.nested["document"] = "Document"
  /\ Message.nested["chat"] = "Chat"
<1>1. Entity["message"] = Message
  BY DEF Entity
<1>2. Message.under = <<>> /\ Message.nested = MessageNested
  BY DEF Message
<1>3. /\ DOMAIN MessageNested = {"chat", "sender_chat", "from", "sender_business_bot",
                                 "via_bot", "reply_to_message", "document"}
      /\ MessageNested["document"] = "Document"
      /\ MessageNested["chat"] = "Chat"
  BY DEF MessageNested, ++
<1>4. QED
  BY <1>1, <1>2, <1>3

LEMMA DocumentIs ==
  /\ Entity["Document"] = Document
  /\ Document.under = <<>>
  /\ DOMAIN Document.nested = {"thumbnail"}
  /\ Document.nested["thumbnail"] = "PhotoSize"
  /\ Kinds(Document)["thumbnail"] = "object"
<1>1. Entity["Document"] = Document
  BY DEF Entity
<1>2. /\ Document.under = <<>>
      /\ DOMAIN Document.nested = {"thumbnail"}
      /\ Document.nested["thumbnail"] = "PhotoSize"
  BY DEF Document, File, Plain, ++
<1>3. /\ "thumbnail" \in DOMAIN Document.optional
      /\ Document.optional["thumbnail"] = "object"
  BY DEF Document, Fields, ++
<1>4. Apart(Document)
  BY DocumentLists DEF Lists
<1>5. QED
  BY <1>1, <1>2, <1>3, <1>4, KindsAre

LEMMA MessageKinds ==
  /\ Kinds(Message)["document"] = "object"
  /\ Kinds(Message)["chat"] = "object"
  /\ Kinds(Message)["photo"] = "array"
<1>1. Apart(Message)
  BY MessageLists DEF Lists
<1>2. Message.optional = MessageOptional
  BY DEF Message
<1>3. /\ "document" \in DOMAIN MessageOptional /\ MessageOptional["document"] = "object"
      /\ "photo" \in DOMAIN MessageOptional /\ MessageOptional["photo"] = "array"
  BY DEF MessageOptional, MessageNested, MessageNumbers, MessageFlags, MessageTexts, Fields, ++
<1>4. "chat" \in DOMAIN Message.requested /\ Message.requested["chat"] = "object"
  BY DEF Message, Fields, ++
<1>5. QED
  BY <1>1, <1>2, <1>3, <1>4, KindsAre

\* What is taken under a name is what is there, if it is of its kind.
LEMMA TakenWhole ==
  ASSUME NEW of \in DOMAIN Entity, NEW v, NEW n \in DOMAIN Taken(of, Accepted(Entity[of], v)),
         Entity[of].under = <<>>, Kinds(Entity[of])[n] \notin Integral
  PROVE  /\ Taken(of, Accepted(Entity[of], v))[n] = Field(v, n)
         /\ Field(v, n).kind = Kinds(Entity[of])[n]
<1> DEFINE map == Accepted(Entity[of], v)
           K == Kinds(Entity[of])
<1>1. Apart(Entity[of])
  BY EachEntity DEF EntityLists, Lists
<1>2. /\ n \in DOMAIN map
      /\ ValueToType(K[n], map[n]) # None
      /\ Taken(of, map)[n] = ValueToType(K[n], map[n])
  BY TakenIs
<1>3. Append(Entity[of].under, n) = <<n>>
  OBVIOUS
<1>4. map[n] = Field(v, n)
  <2> DEFINE e == Entity[of]
  <2>1. map[n] = Find(v, Append(e.under, n))
    <3>1. \A k : k \in DOMAIN Accepted(e, v) =>
                   Accepted(e, v)[k] = Find(v, Append(e.under, k))
      <4>1. Apart(e)
        BY <1>1
      <4> HIDE DEF e
      <4>2. QED
        BY <4>1, AcceptedIs
    <3>2. QED
      BY <1>2, <3>1
  <2>2. QED
    BY <1>3, <2>1, FindOne
<1> HIDE DEF map, K
<1>5. ValueToType(K[n], map[n]) = map[n] /\ map[n].kind = K[n]
  BY <1>2 DEF ValueToType, K
<1>6. QED
  BY <1>2, <1>4, <1>5 DEF map, K

LEMMA LookedUp == DocumentTyped => PhotoToLookUp
<1> SUFFICES ASSUME DocumentTyped, document.of = "message",
                    NEW members \in Read("message", Given),
                    NEW found \in FindPhoto(members)
             PROVE  LET thumbnail == Find(Given, <<"document", "thumbnail">>)
                        photos    == Find(Given, <<"photo">>)
                    IN  /\ found # <<>>
                        /\ /\ ~ NumberForId(thumbnail)
                           /\ photos.kind = "array" =>
                                \A i \in DOMAIN photos.items : ~ NumberForId(photos.items[i])
                           => \/ "file_id" \in DOMAIN Last(found).at
                              \/ VerifyFields(PhotoSize, thumbnail) = {}
  BY DEF PhotoToLookUp
<1> DEFINE map == Accepted(Message, Given)
           taken == Taken("message", map)
           photos == Field(Given, "photo")
           sent == Field(Given, "document")
           thumbnail == Field(sent, "thumbnail")
<1>1. /\ document # NoDocument /\ "message" \in DOMAIN Entity
      /\ Find(Given, <<"photo">>) = photos
      /\ Find(Given, <<"document", "thumbnail">>) = thumbnail
  BY FindOne, FindTwo DEF NoDocument, Entity
<1>2. members = FieldsFromMap("message", map, Nested)
  <2>1. VerifyFields(Entity["message"], Given) # {} /\ members = Members("message", Given)
    BY ReadIs
  <2>2. QED
    BY <2>1, MessageIs, CreateIs
<1> HIDE DEF map
<1>3. ReadAs("message", map, members)
  BY <1>1, <1>2, NestedReads
<1>4. \A n \in DOMAIN taken \ Empty("message", map) :
        /\ n \in DOMAIN Message.nested =>
             members[n] = Object(Nested(Message.nested[n], taken[n]))
        /\ n = "photo" => members[n] = Photos(taken[n].items, Nested)
  <2> DEFINE m == FieldsFromMap("message", map, Nested)
             nested == Entity["message"].nested
  <2>1. \A n \in DOMAIN taken \ Empty("message", map) :
          /\ n \in DOMAIN nested => m[n] = Object(Nested(nested[n], taken[n]))
          /\ n = "photo" => m[n] = Photos(taken[n].items, Nested)
    BY <1>1, NestedReads
  <2>2. nested = Message.nested
    BY MessageIs
  <2> HIDE DEF m, nested
  <2>3. QED
    BY <1>2, <2>1, <2>2 DEF m
<1>5. \A n \in DOMAIN members :
        n \in {"photo", "document"} => n \in DOMAIN taken \ Empty("message", map)
  BY <1>3 DEF ReadAs
<1>6. CASE "photo" \in DOMAIN members /\ members.photo.items # <<>>
  <2>1. found = members.photo.items
    BY <1>6 DEF FindPhoto
  <2>2. taken["photo"] = photos /\ photos.kind = "array"
    BY <1>1, <1>5, <1>6, MessageIs, MessageKinds, TakenWhole DEF map, Integral
  <2>3. members.photo.items = Photos(photos.items, Nested).items
    BY <1>4, <1>5, <1>6, <2>2
  <2>4. photos.items \in Seq(Range(photos.items))
    <3>1. photos # None
      BY <2>2 DEF None
    <3>2. Append(Entity[document.of].under, "photo") = <<"photo">>
      BY MessageIs
    <3>3. IsDocument(photos)
      BY <1>1, <3>1, <3>2, FoundInGiven
    <3>4. QED
      BY <2>2, <3>3 DEF IsDocument, IsValue
  <2>5. found \in Seq(Kept(photos.items))
    BY <2>1, <2>3, <2>4, PhotosKept
  <2>6. Last(found) \in Kept(photos.items)
    <3>1. Len(found) \in 1 .. Len(found)
      BY <1>6, <2>1, <2>5, EmptySeq
    <3>2. QED
      BY <2>5, <3>1, ElementOfSeq DEF Last
  <2>7. PICK j \in 1 .. Len(photos.items) :
          /\ VerifyFields(File, photos.items[j]) # {}
          /\ Last(found) = Object(Nested("File", photos.items[j]))
    BY <2>6 DEF Kept, ValidSet
  <2>8. j \in DOMAIN photos.items
    BY <2>4, LenProperties
  <2>9. Last(found).at = Nested("File", photos.items[j])
    BY <2>7 DEF Object
  <2>10. ~ NumberForId(photos.items[j]) => "file_id" \in DOMAIN Last(found).at
    <3>1. "File" \in PhotoTables /\ Entity["File"] = File
      BY DEF PhotoTables, Entity
    <3>2. QED
      BY <2>7, <2>9, <3>1, PhotoHasId
  <2> HIDE DEF photos, thumbnail
  <2>11. QED
    BY <1>1, <1>6, <2>1, <2>2, <2>8, <2>10
<1>7. CASE ~ ("photo" \in DOMAIN members /\ members.photo.items # <<>>)
  <2>1. /\ "document" \in DOMAIN members
        /\ "thumbnail" \in DOMAIN members.document.at
        /\ found = <<members.document.at.thumbnail>>
    <3>1. found \in Thumbnail(members)
      BY <1>7 DEF FindPhoto
    <3>2. CASE "document" \notin DOMAIN members
      BY <3>1, <3>2 DEF Thumbnail, Nothing
    <3>3. CASE "document" \in DOMAIN members
      BY <3>1, <3>3 DEF Thumbnail
    <3>4. QED
      BY <3>2, <3>3
  <2>2. taken["document"] = sent
    BY <1>1, <1>5, <2>1, MessageIs, MessageKinds, TakenWhole DEF map, Integral
  <2>3. members.document.at = Nested("Document", sent)
    <3>1. members["document"] = Object(Nested("Document", taken["document"]))
      BY <1>4, <1>5, <2>1, MessageIs
    <3>2. QED
      BY <2>2, <3>1 DEF Object
  <2>4. VerifyFields(Document, sent) # {}
    <3>1. ASSUME VerifyFields(Document, sent) = {} PROVE Nested("Document", sent) = Nothing
      BY <3>1, DocumentIs DEF Nested, Create
    <3>2. QED
      BY <2>1, <2>3, <3>1 DEF Nothing
  <2> DEFINE within == Accepted(Document, sent)
             m == FieldsFromMap("Document", within, Lower)
  <2>5. "Document" \in DOMAIN Entity /\ members.document.at = m
    <3>1. "Document" \in DOMAIN Entity
      BY DEF Entity
    <3>2. QED
      BY <2>3, <2>4, <3>1, DocumentIs, CreateIs
  <2>6. ReadAs("Document", within, m)
    <3> HIDE DEF within
    <3>1. QED
      BY <2>5, LowerReads
  <2>7. "thumbnail" \in DOMAIN Taken("Document", within) \ Empty("Document", within)
    <3> HIDE DEF m
    <3>1. "thumbnail" \in DOMAIN m
      BY <2>1, <2>5
    <3>2. QED
      BY <2>6, <3>1 DEF ReadAs
  <2>8. Taken("Document", within)["thumbnail"] = thumbnail
    BY <2>5, <2>7, DocumentIs, TakenWhole DEF Integral
  <2>9. m["thumbnail"] = Object(Lower("PhotoSize", thumbnail))
    <3> DEFINE nested == Entity["Document"].nested
               inside == Taken("Document", within)
    <3> HIDE DEF within, thumbnail
    <3>1. \A n \in DOMAIN inside \ Empty("Document", within) :
            n \in DOMAIN nested => m[n] = Object(Lower(nested[n], inside[n]))
      BY <2>5, LowerReads
    <3>2. "thumbnail" \in DOMAIN nested /\ nested["thumbnail"] = "PhotoSize"
      BY DocumentIs
    <3> HIDE DEF m, nested
    <3>3. QED
      BY <2>7, <2>8, <3>1, <3>2
  <2>10. Last(found).at = Lower("PhotoSize", thumbnail) /\ found # <<>>
    <3>1. found = <<m["thumbnail"]>>
      BY <2>1, <2>5
    <3> HIDE DEF m, thumbnail
    <3>2. QED
      BY <2>9, <3>1 DEF Last, Object
  <2>11. /\ VerifyFields(PhotoSize, thumbnail) # {}
         /\ ~ NumberForId(thumbnail)
         => "file_id" \in DOMAIN Last(found).at
    <3>1. "PhotoSize" \in PhotoTables /\ Entity["PhotoSize"] = PhotoSize
      BY DEF PhotoTables, Entity
    <3>2. QED
      BY <2>10, <3>1, PhotoHasId
  <2> HIDE DEF photos, thumbnail
  <2>12. QED
    BY <1>1, <2>10, <2>11
<1>8. QED
  BY <1>6, <1>7

\* Whatever the array of photos and the document of a message hold: there is a
\* photo to take, and its id is one that was given (see PhotoToLookUp).
THEOREM PhotosToLookUp == MessageSpec => []PhotoToLookUp
  BY DocumentsTyped, LookedUp, PTL

-----------------------------------------------------------------------------
(***************************************************************************)
(* Members that are written and read again.                                *)
(***************************************************************************)
\* A member that is as it would be if it was taken from a document.
Stays(kind, v) ==
  v # None /\ v.kind \in Integral \cup {kind} /\ ValueToType(kind, v) = v

\* A number that was taken is one that is taken as it is.
LEMMA TakenStays ==
  ASSUME NEW kind, NEW v, v.kind \in Integral => v.num \in Int,
         ValueToType(kind, v) # None
  PROVE  Stays(kind, ValueToType(kind, v))
<1>1. CASE kind \in Integral
  <2> DEFINE p == 2 * SignBit
             x == v.num
             w == [kind |-> "uint64", num |-> x % p]
  <2>1. v.kind \in Integral /\ ValueToType(kind, v) = w
    BY <1>1 DEF ValueToType
  <2>2. p \in Nat \ {0} /\ x \in Int
    BY <2>1, SignBitAssumption
  <2> HIDE DEF p, x
  <2>3. (x % p) % p = x % p
    BY <2>2
  <2>4. w.kind \in Integral /\ w.num = x % p
    BY DEF Integral
  <2>5. ValueToType(kind, w) = [kind |-> "uint64", num |-> w.num % p]
    BY <1>1, <2>4 DEF ValueToType, p
  <2>6. ValueToType(kind, w) = w
    BY <2>3, <2>4, <2>5
  <2>7. w # None
    BY DEF None
  <2> HIDE DEF w
  <2>8. QED
    BY <2>1, <2>4, <2>6, <2>7 DEF Stays
<1>2. CASE kind \notin Integral
  <2>1. v.kind = kind /\ ValueToType(kind, v) = v
    BY <1>2 DEF ValueToType
  <2>2. QED
    BY <2>1 DEF Stays
<1>3. QED
  BY <1>1, <1>2

\* The members that are neither entities nor sequences.
Simple(of) ==
  (Entity[of].reads \cap DOMAIN Kinds(Entity[of]))
    \ (DOMAIN Entity[of].nested \cup NoMember)

Settled(of, members) ==
  \A n \in DOMAIN members \cap Simple(of) : Stays(Kinds(Entity[of])[n], members[n])

\* All of the members come from the document.
FromDocument(of, members) ==
  \A n \in DOMAIN members :
    \/ n \in Entity[of].reads \cap DOMAIN Kinds(Entity[of])
    \/ n = "allowed_updates" /\ of = "getUpdates"

\* What is read of a value whose numbers are integers.
LEMMA ReadSettled ==
  ASSUME NEW of \in DOMAIN Entity, NEW v, NEW m,
         \A n : LET found == Find(v, Append(Entity[of].under, n))
                IN  found # None => IsValue(found),
         ReadAs(of, Accepted(Entity[of], v), m)
  PROVE  Settled(of, m) /\ FromDocument(of, m)
<1> DEFINE e == Entity[of]
           map == Accepted(e, v)
           K == Kinds(e)
<1>1. /\ Apart(e)
      /\ (DOMAIN e.requested \cup DOMAIN e.optional) \cap OriginNames = {}
      /\ DOMAIN K = DOMAIN e.requested \cup DOMAIN e.optional
  <2>1. /\ Apart(e)
        /\ (DOMAIN e.requested \cup DOMAIN e.optional) \cap OriginNames = {}
    BY EachEntity DEF EntityLists, Lists
  <2> HIDE DEF e
  <2>2. QED
    BY <2>1, KindsAre
<1>2. \A n : n \in DOMAIN map => /\ n \in DOMAIN K
                                 /\ map[n] = Find(v, Append(e.under, n))
                                 /\ map[n] # None
  <2>1. Apart(e)
    BY <1>1
  <2> HIDE DEF e
  <2>2. QED
    BY <2>1, AcceptedIs
<1>3. DOMAIN map \cap OriginNames = {}
  BY <1>1, <1>2
<1>4. \A n \in DOMAIN map : IsValue(map[n])
  BY <1>2
<1> HIDE DEF map
<1>5. \A n \in DOMAIN Taken(of, map) :
        /\ n \in e.reads /\ n \in DOMAIN K /\ n \in DOMAIN map
        /\ ValueToType(K[n], map[n]) # None
        /\ Taken(of, map)[n] = ValueToType(K[n], map[n])
  BY TakenIs
<1>6. ReadAs(of, map, m)
  BY DEF map
<1>7. \A n \in DOMAIN m : \/ n \in DOMAIN Taken(of, map)
                          \/ n = "allowed_updates" /\ of = "getUpdates"
  BY <1>3, <1>6 DEF ReadAs
<1>8. FromDocument(of, m)
  BY <1>5, <1>7 DEF FromDocument
<1>9. ASSUME NEW n \in DOMAIN m \cap Simple(of) PROVE Stays(K[n], m[n])
  <2>1. n \in DOMAIN Taken(of, map) /\ n \notin DOMAIN e.nested \cup NoMember
    BY <1>7, <1>9 DEF Simple, NoMember
  <2>2. m[n] = Taken(of, map)[n]
    BY <1>6, <2>1 DEF ReadAs
  <2>3. map[n].kind \in Integral => map[n].num \in Int
    BY <1>4, <1>5, <2>1 DEF IsValue
  <2>4. QED
    BY <1>5, <2>1, <2>2, <2>3, TakenStays
<1>10. QED
  BY <1>8, <1>9 DEF Settled

-----------------------------------------------------------------------------
\* A document that holds the members.
Holds(of, m, w) ==
  LET e        == Entity[of]
      found(n) == Find(w, Append(e.under, n))
  IN  /\ \A n \in (DOMAIN m \cap Simple(of)) \ LostInWriting(of) : found(n) = m[n]
      /\ \A n \in DOMAIN e.requested \ DOMAIN m : found(n) = None
      /\ \A n \in DOMAIN e.requested \cap DOMAIN m :
           found(n) # None /\ found(n).kind \in Integral \cup {e.requested[n]}

\* Such a document is accepted, and the members are taken from it.
LEMMA HeldIsAccepted ==
  ASSUME NEW of, NEW m, NEW w, Holds(of, m, w),
         Cardinality(DOMAIN Entity[of].requested \cap DOMAIN m) = Entity[of].req_fields
  PROVE  VerifyFields(Entity[of], w) # {}
<1> DEFINE e == Entity[of]
           req == MappedPointersValidation(w, e.under, e.requested)
<1>1. \A n : n \in DOMAIN req <=>
               /\ n \in DOMAIN e.requested
               /\ Find(w, Append(e.under, n)).kind \in Integral \cup {e.requested[n]}
               /\ Find(w, Append(e.under, n)) # None
  BY Validated
<1> HIDE DEF req
<1>2. DOMAIN req = DOMAIN e.requested \cap DOMAIN m
  BY <1>1 DEF Holds
<1>3. AllOf(e.req_fields, req) = {req}
  BY <1>2 DEF AllOf
<1>4. QED
  BY <1>3 DEF VerifyFields, req

LEMMA HeldIsTaken ==
  ASSUME NEW of \in DOMAIN Entity, NEW m, NEW w, Holds(of, m, w), Settled(of, m),
         NEW n \in (DOMAIN m \cap Simple(of)) \ LostInWriting(of)
  PROVE  LET taken == Taken(of, Accepted(Entity[of], w))
         IN  n \in DOMAIN taken /\ taken[n] = m[n]
<1> DEFINE e == Entity[of]
           map == Accepted(e, w)
           K == Kinds(e)
<1>1. Apart(e)
  BY EachEntity DEF EntityLists, Lists
<1>2. /\ Find(w, Append(e.under, n)) = m[n]
      /\ m[n] # None /\ m[n].kind \in Integral \cup {K[n]} /\ ValueToType(K[n], m[n]) = m[n]
      /\ n \in e.reads /\ n \in DOMAIN K
  BY DEF Holds, Settled, Stays, Simple
<1>3. n \in DOMAIN map /\ map[n] = m[n]
  <2> HIDE DEF e
  <2>1. QED
    BY <1>1, <1>2, AcceptedIs
<1> HIDE DEF map
<1>4. QED
  BY <1>2, <1>3, TakenIs DEF map

LEMMA HeldIsRead ==
  ASSUME NEW of \in DOMAIN Entity, NEW m, NEW w, Holds(of, m, w), Settled(of, m),
         NEW again, ReadAs(of, Accepted(Entity[of], w), again)
  PROVE  \A n \in (DOMAIN m \cap Simple(of)) \ LostInWriting(of) :
           n \in DOMAIN again /\ again[n] = m[n]
<1> TAKE n \in (DOMAIN m \cap Simple(of)) \ LostInWriting(of)
<1> DEFINE map == Accepted(Entity[of], w)
<1>1. n \in DOMAIN Taken(of, map) /\ Taken(of, map)[n] = m[n]
  BY HeldIsTaken
<1>2. n \notin DOMAIN Entity[of].nested \cup NoMember
  BY DEF Simple
<1> HIDE DEF map
<1>3. n \notin Empty(of, map)
  BY <1>2 DEF Empty, NoMember
<1>4. ReadAs(of, map, again)
  BY DEF map
<1>5. QED
  BY <1>1, <1>2, <1>3, <1>4 DEF ReadAs

\* The members that a document holds under their own names.
Writes(of, m, c) ==
  \A n \in Simple(of) \ LostInWriting(of) :
    /\ n \in DOMAIN c <=> n \in DOMAIN m
    /\ n \in DOMAIN c => c[n] = m[n]

\* Pairs are written under the names that are looked for.
LEMMA PairsWritten ==
  ASSUME NEW of \in DOMAIN Entity, NEW m, NEW objects,
         DOMAIN objects \cap Simple(of) = {}
  PROVE  Writes(of, m, objects ++ ParsePairs(Entity[of].pairs, m))
<1> DEFINE pairs == Entity[of].pairs
           p == ParsePairs(pairs, m)
           c == objects ++ p
<1>1. \A n : /\ n \in DOMAIN p <=> n \in DOMAIN pairs /\ pairs[n] \in DOMAIN m
             /\ n \in DOMAIN p => p[n] = m[pairs[n]]
  BY DEF ParsePairs
<1>2. \A n \in Simple(of) \ LostInWriting(of) : n \in DOMAIN pairs /\ pairs[n] = n
  <2>1. Lists(Entity[of], LostInWriting(of), NeverRead(of)) /\ Apart(Entity[of])
    BY EachEntity DEF EntityLists, Lists
  <2>2. DOMAIN Kinds(Entity[of]) = DOMAIN Entity[of].requested \cup DOMAIN Entity[of].optional
    <3> DEFINE e == Entity[of]
    <3>1. Apart(e)
      BY <2>1
    <3> HIDE DEF e
    <3>2. QED
      BY <3>1, KindsAre DEF e
  <2>3. QED
    BY <2>1, <2>2 DEF Lists, Simple
<1> HIDE DEF p, pairs
<1>3. ASSUME NEW n \in Simple(of) \ LostInWriting(of)
      PROVE  /\ n \in DOMAIN c <=> n \in DOMAIN m
             /\ n \in DOMAIN c => c[n] = m[n]
  <2>1. n \notin DOMAIN objects
    OBVIOUS
  <2>2. /\ n \in DOMAIN c <=> n \in DOMAIN p
        /\ n \in DOMAIN p => c[n] = p[n]
    BY <2>1 DEF ++
  <2>3. n \in DOMAIN pairs /\ pairs[n] = n
    BY <1>2
  <2> HIDE DEF c
  <2>4. QED
    BY <1>1, <2>2, <2>3
<1>4. QED
  BY <1>3 DEF Writes, p, pairs

\* The thumbnail of a document goes where no member is looked for.
LEMMA WrappedThumbnail ==
  /\ DOMAIN Document.objects = {1} /\ Document.objects[1] = "thumbnail"
  /\ Entity[Document.nested["thumbnail"]].wrap[1] = "photosize"
  /\ "photosize" \notin Document.reads
<1>1. Document.objects = <<"thumbnail">> /\ Document.nested["thumbnail"] = "PhotoSize"
  BY DEF Document, File, Plain, ++
<1>2. Entity["PhotoSize"] = PhotoSize
  BY DEF Entity
<1>3. PhotoSize.wrap = <<"photosize">>
  BY DEF PhotoSize, File, FileFields, Plain, ++
<1>4. "photosize" \notin Document.reads
  BY DEF Document, File, FileFields, Plain, ++
<1>5. QED
  BY <1>1, <1>2, <1>3, <1>4

LEMMA EntitiesElsewhere ==
  ASSUME NEW of \in DOMAIN Entity, of # "message", NEW m
  PROVE  /\ DOMAIN ParseEntities(Entity[of], m, NestedContents) \cap Simple(of) = {}
         /\ DOMAIN ParseEntities(Entity[of], m, LowerContents) \cap Simple(of) = {}
<1>1. CASE of = "Document"
  <2>1. Entity[of] = Document
    BY <1>1, DocumentIs
  <2>2. /\ DOMAIN ParseEntities(Document, m, NestedContents) \subseteq {"photosize"}
        /\ DOMAIN ParseEntities(Document, m, LowerContents) \subseteq {"photosize"}
    BY WrappedThumbnail DEF ParseEntities, WrittenObjects, KeyOf, TypeIn
  <2>3. QED
    BY <2>1, <2>2, WrappedThumbnail DEF Simple
<1>2. CASE of # "Document"
  <2>1. Entity[of].objects = <<>>
    BY <1>2, EachEntity DEF EntityLists, Flat
  <2>2. DOMAIN Entity[of].objects = {}
    BY <2>1
  <2>3. QED
    BY <2>2 DEF ParseEntities, WrittenObjects
<1>3. QED
  BY <1>1, <1>2

LEMMA ContentsWritten ==
  ASSUME NEW of \in DOMAIN Entity, of # "message", NEW m
  PROVE  /\ Writes(of, m, Contents(of, m, NestedContents))
         /\ Writes(of, m, NestedContents(of, m))
<1> DEFINE a == ParseEntities(Entity[of], m, NestedContents)
           b == ParseEntities(Entity[of], m, LowerContents)
           p == ParsePairs(Entity[of].pairs, m)
<1>1. DOMAIN a \cap Simple(of) = {} /\ DOMAIN b \cap Simple(of) = {}
  BY EntitiesElsewhere
<1>2. /\ Contents(of, m, NestedContents) = a ++ p
      /\ NestedContents(of, m) = b ++ p
  BY DEF Contents, NestedContents, ContainerMove
<1> HIDE DEF a, b
<1>3. Writes(of, m, a ++ p) /\ Writes(of, m, b ++ p)
  BY <1>1, PairsWritten
<1>4. QED
  BY <1>2, <1>3

\* What is written is in the form that is read.
LEMMA UnwrappedIs ==
  ASSUME NEW of \in DOMAIN Entity, NEW m
  PROVE  Unwrapped(of, FieldsToValue(of, m)) = Around(of, Contents(of, m, NestedContents))
<1> DEFINE fields == Contents(of, m, NestedContents)
           wrap == Entity[of].wrap
           under == Entity[of].under
           value == FieldsToValue(of, m)
<1>1. wrap = under \/ (under = <<>> /\ wrap # <<>>)
  BY EachEntity DEF EntityLists, Forms
<1>2. value = IF wrap = <<>> THEN fields ELSE [n \in {wrap[1]} |-> Object(fields)]
  BY DEF FieldsToValue
<1>3. /\ wrap = under => Unwrapped(of, value) = Object(value)
      /\ wrap # under => Unwrapped(of, value) = value[wrap[1]]
  BY DEF Unwrapped
<1>4. /\ under = <<>> => Around(of, fields) = Object(fields)
      /\ under # <<>> => Around(of, fields) = Object([n \in {under[1]} |-> Object(fields)])
  BY DEF Around
<1> HIDE DEF fields, wrap, under, value
<1>5. QED
  BY <1>1, <1>2, <1>3, <1>4 DEF value, fields

\* What is asked for is among the members.
LEMMA RequestedSimple ==
  ASSUME NEW of \in DOMAIN Entity, of # "message"
  PROVE  /\ DOMAIN Entity[of].requested \subseteq Simple(of) \ LostInWriting(of)
         /\ DOMAIN Entity[of].nested \subseteq LostInWriting(of)
<1>1. /\ Lists(Entity[of], LostInWriting(of), NeverRead(of))
      /\ Entity[of].reads \cap NoMember \subseteq LostInWriting(of)
  BY EachEntity DEF EntityLists, Forms
<1>2. DOMAIN Entity[of].nested \subseteq LostInWriting(of)
  <2>1. CASE of = "Document"
    BY <2>1, DocumentIs DEF LostInWriting
  <2>2. CASE of # "Document"
    BY <2>2, EachEntity DEF EntityLists, Flat
  <2>3. QED
    BY <2>1, <2>2
<1>3. DOMAIN Entity[of].requested \subseteq DOMAIN Kinds(Entity[of])
  BY DEF Kinds, ++
<1>4. QED
  BY <1>1, <1>2, <1>3 DEF Lists, Simple

\* A document that is written holds the members it was written from.
LEMMA WrittenHolds ==
  ASSUME NEW of \in DOMAIN Entity, of # "message", NEW m, Settled(of, m),
         NEW c, Writes(of, m, c)
  PROVE  Holds(of, m, Around(of, c))
<1> DEFINE e == Entity[of]
           found(n) == Find(Around(of, c), Append(e.under, n))
<1>1. \A n : found(n) = IF n \in DOMAIN c THEN c[n] ELSE None
  BY AroundFields DEF Field, Object
<1>2. \A n \in DOMAIN e.requested : Kinds(e)[n] = e.requested[n]
  <2>1. Apart(e)
    BY EachEntity DEF EntityLists, Lists
  <2> HIDE DEF e
  <2>2. QED
    BY <2>1, KindsAre
<1>3. DOMAIN e.requested \subseteq Simple(of) \ LostInWriting(of)
  BY RequestedSimple
<1> HIDE DEF found
<1>4. \A n \in (DOMAIN m \cap Simple(of)) \ LostInWriting(of) : found(n) = m[n]
  BY <1>1 DEF Writes
<1>5. \A n \in DOMAIN e.requested \ DOMAIN m : found(n) = None
  BY <1>1, <1>3 DEF Writes
<1>6. \A n \in DOMAIN e.requested \cap DOMAIN m :
        found(n) # None /\ found(n).kind \in Integral \cup {e.requested[n]}
  BY <1>2, <1>3, <1>4 DEF Settled, Stays
<1>7. QED
  BY <1>4, <1>5, <1>6 DEF Holds, found

\* Members that are not lost are simple.
LEMMA KeptSimple ==
  ASSUME NEW of \in DOMAIN Entity, of # "message", NEW m, FromDocument(of, m)
  PROVE  DOMAIN m \ LostInWriting(of) \subseteq Simple(of)
<1>1. Entity[of].reads \cap NoMember \subseteq LostInWriting(of)
  BY EachEntity DEF EntityLists, Forms
<1>2. DOMAIN Entity[of].nested \subseteq LostInWriting(of)
  BY RequestedSimple
<1>3. of = "getUpdates" => "allowed_updates" \in LostInWriting(of)
  BY DEF LostInWriting
<1>4. QED
  BY <1>1, <1>2, <1>3 DEF FromDocument, Simple

-----------------------------------------------------------------------------
(***************************************************************************)
(* Entities other than the message, and the response of the server.        *)
(***************************************************************************)
\* An entity that is read from a document of integers, written and read again.
LEMMA ReadAgain ==
  ASSUME NEW of \in DOMAIN Entity, of # "message", NEW m, NEW c,
         Settled(of, m), Writes(of, m, c),
         Cardinality(DOMAIN Entity[of].requested \cap DOMAIN m) = Entity[of].req_fields
  PROVE  /\ VerifyFields(Entity[of], Around(of, c)) # {}
         /\ \A n \in (DOMAIN m \cap Simple(of)) \ LostInWriting(of) :
              /\ n \in DOMAIN Members(of, Around(of, c))
              /\ Members(of, Around(of, c))[n] = m[n]
              /\ n \in DOMAIN Nested(of, Around(of, c))
              /\ Nested(of, Around(of, c))[n] = m[n]
<1> DEFINE w == Around(of, c)
           map == Accepted(Entity[of], w)
<1>1. Holds(of, m, w)
  BY WrittenHolds
<1> HIDE DEF w
<1>2. VerifyFields(Entity[of], w) # {}
  BY <1>1, HeldIsAccepted
<1>3. /\ Members(of, w) = FieldsFromMap(of, map, Nested)
      /\ Nested(of, w) = FieldsFromMap(of, map, Lower)
  BY <1>2, CreateIs
<1>4. ReadAs(of, map, FieldsFromMap(of, map, Nested))
  <2> HIDE DEF map
  <2>1. QED
    BY NestedReads
<1>5. ReadAs(of, map, FieldsFromMap(of, map, Lower))
  <2> HIDE DEF map
  <2>1. QED
    BY LowerReads
<1>6. \A n \in (DOMAIN m \cap Simple(of)) \ LostInWriting(of) :
        n \in DOMAIN Members(of, w) /\ Members(of, w)[n] = m[n]
  BY <1>1, <1>3, <1>4, HeldIsRead
<1>7. \A n \in (DOMAIN m \cap Simple(of)) \ LostInWriting(of) :
        n \in DOMAIN Nested(of, w) /\ Nested(of, w)[n] = m[n]
  BY <1>1, <1>3, <1>5, HeldIsRead
<1>8. QED
  BY <1>2, <1>6, <1>7 DEF w

\* The members that are read from the document.
LEMMA GivenSettled ==
  ASSUME DocumentTyped, document # NoDocument,
         VerifyFields(Entity[document.of], Given) # {}
  PROVE  /\ document.of \in DOMAIN Entity
         /\ Settled(document.of, Members(document.of, Given))
         /\ FromDocument(document.of, Members(document.of, Given))
<1> DEFINE of == document.of
           map == Accepted(Entity[of], Given)
<1>1. of \in DOMAIN Entity
  BY DEF DocumentTyped
<1>2. Members(of, Given) = FieldsFromMap(of, map, Nested)
  BY CreateIs
<1>3. ReadAs(of, map, FieldsFromMap(of, map, Nested))
  <2> HIDE DEF map, of
  <2>1. QED
    BY <1>1, NestedReads
<1>4. \A n : LET found == Find(Given, Append(Entity[of].under, n))
             IN  found # None => IsValue(found)
  BY FoundInGiven DEF IsDocument
<1> HIDE DEF of
<1>5. QED
  BY <1>1, <1>2, <1>3, <1>4, ReadSettled DEF of

LEMMA WholeIs ==
  ASSUME NEW of, NEW m, Complete(of, m)
  PROVE  /\ Cardinality(DOMAIN Entity[of].requested \cap DOMAIN m) = Entity[of].req_fields
         /\ \A n \in DOMAIN Entity[of].nested \cap DOMAIN m :
              Cardinality(DOMAIN Entity[Entity[of].nested[n]].requested \cap DOMAIN m[n].at)
              = Entity[Entity[of].nested[n]].req_fields
<1>1. Cardinality(DOMAIN Entity[of].requested \cap DOMAIN m) = Entity[of].req_fields
  BY DEF Complete, Whole
<1>2. \A n \in DOMAIN Entity[of].nested \cap DOMAIN m :
        NestedWhole(Entity[of].nested[n], m[n].at)
  BY DEF Complete, Whole
<1>3. \A inner, within : NestedWhole(inner, within) =>
        Cardinality(DOMAIN Entity[inner].requested \cap DOMAIN within)
        = Entity[inner].req_fields
  BY DEF NestedWhole, Whole
<1>4. QED
  BY <1>1, <1>2, <1>3

\* Everything but a message and a response of the server.
LEMMA PlainReturns ==
  ASSUME DocumentTyped, document # NoDocument,
         document.of \notin {"message", "TelegramResponse"},
         NEW members \in Read(document.of, Given), Complete(document.of, members)
  PROVE  \E again \in Read(document.of,
                           Unwrapped(document.of, FieldsToValue(document.of, members))) :
           SameMembers(document.of, members, again)
<1> DEFINE of == document.of
           c == Contents(of, members, NestedContents)
           w == Around(of, c)
           again == Members(of, w)
<1>1. /\ VerifyFields(Entity[of], Given) # {} /\ members = Members(of, Given)
  BY ReadIs
<1>2. of \in DOMAIN Entity /\ Settled(of, members) /\ FromDocument(of, members)
  BY <1>1, GivenSettled
<1>3. Writes(of, members, c)
  BY <1>2, ContentsWritten
<1>4. Unwrapped(of, FieldsToValue(of, members)) = w
  BY <1>2, UnwrappedIs
<1>5. Cardinality(DOMAIN Entity[of].requested \cap DOMAIN members) = Entity[of].req_fields
  BY WholeIs
<1>6. of \notin {"message", "TelegramResponse"}
  OBVIOUS
<1> HIDE DEF of, c
<1>7. /\ VerifyFields(Entity[of], w) # {}
      /\ \A n \in (DOMAIN members \cap Simple(of)) \ LostInWriting(of) :
           n \in DOMAIN again /\ again[n] = members[n]
  BY <1>2, <1>3, <1>5, <1>6, ReadAgain
<1>8. DOMAIN members \ LostInWriting(of) \subseteq Simple(of)
  BY <1>2, <1>6, KeptSimple
<1> HIDE DEF w
<1>9. again \in Read(of, w)
  BY <1>6, <1>7 DEF Read
<1> HIDE DEF again
<1>10. SameMembers(of, members, again)
  <2>1. DOMAIN Entity[of].nested \subseteq LostInWriting(of)
    BY <1>2, <1>6, RequestedSimple
  <2>2. QED
    BY <1>7, <1>8, <2>1 DEF SameMembers
<1>11. QED
  BY <1>4, <1>9, <1>10 DEF of

-----------------------------------------------------------------------------
\* A response of the server.
LEMMA ResponseIs ==
  /\ Entity["TelegramResponse"] = TelegramResponse
  /\ "TelegramResponse" \in DOMAIN Entity
  /\ TelegramResponse.reads = {"ok", "error_code", "description"}
  /\ TelegramResponse.under = <<>>
  /\ TelegramResponse.objects = <<>>
  /\ DOMAIN TelegramResponse.nested = {}
  /\ "result" \in DOMAIN TelegramResponse.pairs
  /\ TelegramResponse.pairs["result"] = "result"
<1>1. Entity["TelegramResponse"] = TelegramResponse /\ "TelegramResponse" \in DOMAIN Entity
  BY DEF Entity
<1>2. /\ TelegramResponse.reads = {"ok", "error_code", "description"}
      /\ TelegramResponse.under = <<>>
      /\ TelegramResponse.objects = <<>>
      /\ DOMAIN TelegramResponse.nested = {}
  BY DEF TelegramResponse, Plain, Nothing, ++
<1>3. /\ "result" \in DOMAIN TelegramResponse.pairs
      /\ TelegramResponse.pairs["result"] = "result"
  BY DEF TelegramResponse, Plain, Same, ++
<1>4. QED
  BY <1>1, <1>2, <1>3

\* What a response holds: its members and a result that is no array.
LEMMA ResponseHas ==
  ASSUME NEW v, NEW members \in ResponseFromMap(v)
  PROVE  LET plain == Members("TelegramResponse", v)
         IN  /\ DOMAIN members \subseteq DOMAIN plain \cup {"result", "update_id"}
             /\ \A n \in DOMAIN plain : n \in DOMAIN members /\ members[n] = plain[n]
             /\ "result" \notin DOMAIN plain =>
                  /\ "result" \in DOMAIN members
                  /\ members["result"].kind \in {"none", "object"}
                  /\ members["result"] # None
<1> DEFINE plain == Members("TelegramResponse", v)
           given == Find(v, <<"result">>)
           number == Find(given.items[1], <<"update_id">>)
           result == IF given = None THEN Object(Nothing) ELSE given
<1>0. PICK more \in ResultFromMap(v) : members = plain ++ more
  BY DEF ResponseFromMap
<1>1. \/ given.kind \in {"none", "object"} /\ more = [result |-> result]
      \/ given = Array(<<>>) /\ more = [result |-> Object(Nothing)]
      \/ /\ number.kind = "int64"
         /\ more = [result    |-> given.items[1],
                    update_id |-> ValueToType("uint64", number)]
  <2> HIDE DEF plain, given, number
  <2>1. \/ given.kind \in {"none", "object"}
        \/ given = Array(<<>>)
        \/ given.kind = "array" /\ Len(given.items) = 1 /\ number.kind = "int64"
    BY <1>0 DEF ResultFromMap, given, number
  <2>2. given = Array(<<>>) => given.kind \notin {"none", "object"} /\ Len(given.items) = 0
    BY DEF Array
  <2>3. CASE given.kind \in {"none", "object"}
    <3>1. ResultFromMap(v) = {[result |-> result]}
      BY <2>2, <2>3 DEF ResultFromMap, given, number
    <3>2. QED
      BY <1>0, <2>3, <3>1
  <2>4. CASE given = Array(<<>>)
    <3>1. ResultFromMap(v) = {[result |-> Object(Nothing)]}
      BY <2>2, <2>4 DEF ResultFromMap, given, number
    <3>2. QED
      BY <1>0, <2>4, <3>1
  <2>5. CASE given.kind = "array" /\ Len(given.items) = 1 /\ number.kind = "int64"
    <3>1. ResultFromMap(v) = {[result    |-> given.items[1],
                               update_id |-> ValueToType("uint64", number)]}
      BY <2>2, <2>5 DEF ResultFromMap, given, number
    <3>2. QED
      BY <1>0, <2>5, <3>1
  <2>6. QED
    BY <2>1, <2>3, <2>4, <2>5
<1>2. /\ DOMAIN more \subseteq {"result", "update_id"}
      /\ "result" \in DOMAIN more
      /\ more["result"].kind \in {"none", "object"}
      /\ more["result"] # None
  <2>1. Object(Nothing).kind = "object" /\ Object(Nothing) # None
    BY DEF Object, None
  <2>2. number.kind = "int64" => given.items[1].kind = "object" /\ given.items[1] # None
    <3> DEFINE item == given.items[1]
    <3>1. number = Field(item, "update_id")
      BY FindOne
    <3> HIDE DEF item
    <3>2. number.kind = "int64" => item.kind = "object" /\ item # None
      BY <3>1 DEF Field, None
    <3>3. QED
      BY <3>2 DEF item
  <2> HIDE DEF plain, given, number
  <2>3. QED
    BY <1>1, <2>1, <2>2
<1> HIDE DEF plain
<1>3. /\ DOMAIN (plain ++ more) = DOMAIN plain \cup DOMAIN more
      /\ \A n \in DOMAIN plain : (plain ++ more)[n] = plain[n]
      /\ \A n \in DOMAIN more \ DOMAIN plain : (plain ++ more)[n] = more[n]
  BY Over
<1>4. QED
  BY <1>0, <1>2, <1>3 DEF plain

LEMMA ResponseReturns ==
  ASSUME DocumentTyped, document # NoDocument, document.of = "TelegramResponse",
         NEW members \in Read("TelegramResponse", Given),
         Complete("TelegramResponse", members)
  PROVE  \E again \in Read("TelegramResponse",
                           Unwrapped("TelegramResponse",
                                     FieldsToValue("TelegramResponse", members))) :
           SameMembers("TelegramResponse", members, again)
<1> DEFINE of == "TelegramResponse"
           plain == Members(of, Given)
           c == Contents(of, members, NestedContents)
           w == Around(of, c)
           plainly == Members(of, w)
           again == plainly ++ [result |-> members["result"]]
<1>1. /\ VerifyFields(Entity[of], Given) # {} /\ members \in ResponseFromMap(Given)
  BY ReadIs
<1>2. of \in DOMAIN Entity /\ Settled(of, plain) /\ FromDocument(of, plain)
  BY <1>1, GivenSettled
<1>3. DOMAIN plain \subseteq {"ok", "error_code", "description"}
  BY <1>2, ResponseIs DEF FromDocument
<1>4. /\ DOMAIN members \subseteq DOMAIN plain \cup {"result", "update_id"}
      /\ \A n \in DOMAIN plain : n \in DOMAIN members /\ members[n] = plain[n]
      /\ "result" \in DOMAIN members
      /\ members["result"].kind \in {"none", "object"}
      /\ members["result"] # None
  <2> HIDE DEF plain
  <2>1. "result" \notin DOMAIN plain
    BY <1>3
  <2>2. QED
    BY <1>1, <2>1, ResponseHas DEF plain
<1>5. Simple(of) \subseteq {"ok", "error_code", "description"}
  BY ResponseIs DEF Simple
<1> HIDE DEF plain
<1>6. Settled(of, members)
  <2>1. DOMAIN members \cap Simple(of) \subseteq DOMAIN plain \cap Simple(of)
    BY <1>4, <1>5
  <2>2. QED
    BY <1>2, <1>4, <2>1 DEF Settled
<1>7. Writes(of, members, c)
  BY <1>2, ContentsWritten
<1>8. Unwrapped(of, FieldsToValue(of, members)) = w
  BY <1>2, UnwrappedIs
<1>9. Cardinality(DOMAIN Entity[of].requested \cap DOMAIN members) = Entity[of].req_fields
  BY WholeIs
<1>10. "result" \in DOMAIN c /\ c["result"] = members["result"]
  <2> DEFINE objects == ParseEntities(Entity[of], members, NestedContents)
             pairs == ParsePairs(Entity[of].pairs, members)
  <2>1. DOMAIN objects = {}
    <3>1. DOMAIN Entity[of].objects = {}
      BY ResponseIs
    <3>2. QED
      BY <3>1 DEF ParseEntities, WrittenObjects
  <2>2. "result" \in DOMAIN pairs /\ pairs["result"] = members["result"]
    BY <1>4, ResponseIs DEF ParsePairs
  <2>3. c = objects ++ pairs
    BY DEF Contents, ContainerMove
  <2> HIDE DEF objects, pairs, c
  <2>4. QED
    BY <2>1, <2>2, <2>3 DEF ++
<1> HIDE DEF c
<1>11. /\ VerifyFields(Entity[of], w) # {}
       /\ \A n \in (DOMAIN members \cap Simple(of)) \ LostInWriting(of) :
            n \in DOMAIN plainly /\ plainly[n] = members[n]
  BY <1>2, <1>6, <1>7, <1>9, ReadAgain
<1>12. Find(w, <<"result">>) = members["result"]
  <2>1. w = Object(c)
    BY ResponseIs DEF Around
  <2>2. Field(Object(c), "result") = c["result"]
    BY <1>10 DEF Field, Object
  <2>3. QED
    BY <1>10, <2>1, <2>2, FindOne
<1> HIDE DEF w
<1>13. "result" \notin DOMAIN plainly
  <2> DEFINE map == Accepted(Entity[of], w)
  <2>1. plainly = FieldsFromMap(of, map, Nested)
    BY <1>11, CreateIs
  <2> HIDE DEF map
  <2>2. ReadAs(of, map, plainly)
    BY <1>2, <2>1, NestedReads
  <2>3. "result" \notin DOMAIN Taken(of, map)
    BY ResponseIs, TakenIs
  <2>4. QED
    BY <2>2, <2>3 DEF ReadAs
<1>14. again \in Read(of, w)
  <2> DEFINE given == Find(w, <<"result">>)
  <2>1. given = members["result"] /\ given.kind \in {"none", "object"} /\ given # None
    BY <1>4, <1>12
  <2> HIDE DEF given
  <2>2. /\ given.kind \in {"none", "object"}
        /\ given # Array(<<>>) /\ given.kind # "array"
    BY <2>1 DEF Array
  <2>3. ResultFromMap(w) = {[result |-> IF given = None THEN Object(Nothing) ELSE given]}
    BY <2>2 DEF ResultFromMap, given
  <2>4. again \in ResponseFromMap(w)
    BY <2>1, <2>3 DEF ResponseFromMap
  <2>5. QED
    BY <1>11, <2>4 DEF Read
<1> HIDE DEF plainly
<1>15. /\ "result" \in DOMAIN again /\ again["result"] = members["result"]
       /\ \A n \in DOMAIN plainly : n \in DOMAIN again /\ again[n] = plainly[n]
  BY <1>13 DEF ++
<1> HIDE DEF again
<1>16. SameMembers(of, members, again)
  <2>1. LostInWriting(of) = {"description", "update_id"}
    BY DEF LostInWriting
  <2>2. DOMAIN plain \ LostInWriting(of) \subseteq Simple(of)
    BY <1>2, KeptSimple
  <2>3. DOMAIN members \ LostInWriting(of) \subseteq Simple(of) \cup {"result"}
    BY <1>4, <2>1, <2>2
  <2>4. DOMAIN Entity[of].nested = {}
    BY ResponseIs
  <2>5. QED
    BY <1>11, <1>15, <2>3, <2>4 DEF SameMembers
<1>17. QED
  BY <1>8, <1>14, <1>16

-----------------------------------------------------------------------------
(***************************************************************************)
(* The message, of which the chat and the document come back.              *)
(***************************************************************************)
\* The objects of a message and the keys they are written under.
LEMMA MessageObjectsAre ==
  /\ DOMAIN Message.objects = 1 .. 9
  /\ Message.objects[1] = "chat" /\ Message.objects[8] = "document"
  /\ Message.objects[5] = "forward_origin"
  /\ \A i \in 1 .. 9 : i # 1 => Message.objects[i] # "chat"
  /\ \A i \in 1 .. 9 : i # 8 => Message.objects[i] # "document"
  /\ \A i \in 1 .. 9 : i # 9 => Message.objects[i] # "photo"
  /\ Message.objects[9] = "photo"
<1>1. Message.objects = <<"chat", "from", "sender_chat", "sender_business_bot", "forward_origin",
    "reply_to_message", "via_bot", "document", "photo">>
  BY DEF Message, MessageObjects
<1>2. QED
  BY <1>1

\* The type of the entity at a place among the objects.
ObjectType(i) ==
  IF Message.objects[i] = "photo" THEN "PhotoSize" ELSE Message.nested[Message.objects[i]]

\* Nothing but the document has its key; the chat comes first under its own.
LEMMA ObjectKeys ==
  \A i \in (1 .. 9) \ {5} :
    /\ Entity[ObjectType(i)].wrap[1] \in {"chat", "user", "message", "document", "photosize"}
    /\ Entity[ObjectType(i)].wrap[1] = "document" <=> i = 8
    /\ i = 1 => Entity[ObjectType(i)].wrap[1] = "chat"
<1>1. Message.objects = <<"chat", "from", "sender_chat", "sender_business_bot", "forward_origin",
    "reply_to_message", "via_bot", "document", "photo">>
  BY DEF Message, MessageObjects
<1>2. Message.nested = MessageNested
  BY DEF Message
<1>3. /\ MessageNested["chat"] = "Chat" /\ MessageNested["sender_chat"] = "Chat"
      /\ MessageNested["from"] = "User" /\ MessageNested["sender_business_bot"] = "User"
      /\ MessageNested["via_bot"] = "User" /\ MessageNested["reply_to_message"] = "message"
      /\ MessageNested["document"] = "Document"
  BY DEF MessageNested, ++
<1>4. /\ Entity["Chat"] = Chat /\ Entity["User"] = User /\ Entity["message"] = Message
      /\ Entity["Document"] = Document /\ Entity["PhotoSize"] = PhotoSize
  BY DEF Entity
<1>5. /\ Chat.wrap = <<"chat">> /\ User.wrap = <<"user">> /\ Message.wrap = <<"message">>
      /\ Document.wrap = <<"document">> /\ PhotoSize.wrap = <<"photosize">>
  <2>1. Chat.wrap = <<"chat">>
    BY DEF Chat, Plain, ++
  <2>2. User.wrap = <<"user">>
    BY DEF User, Plain, ++
  <2>3. Message.wrap = <<"message">>
    BY DEF Message
  <2>4. Document.wrap = <<"document">>
    BY DEF Document, File, Plain, ++
  <2>5. PhotoSize.wrap = <<"photosize">>
    BY DEF PhotoSize, File, FileFields, Plain, ++
  <2>6. QED
    BY <2>1, <2>2, <2>3, <2>4, <2>5
<1> DEFINE key(i) == Entity[ObjectType(i)].wrap[1]
<1>6. /\ key(1) = "chat" /\ key(2) = "user" /\ key(3) = "chat" /\ key(4) = "user"
      /\ key(6) = "message" /\ key(7) = "user" /\ key(8) = "document" /\ key(9) = "photosize"
  <2>1. /\ ObjectType(1) = "Chat" /\ ObjectType(2) = "User" /\ ObjectType(3) = "Chat"
        /\ ObjectType(4) = "User" /\ ObjectType(6) = "message" /\ ObjectType(7) = "User"
        /\ ObjectType(8) = "Document" /\ ObjectType(9) = "PhotoSize"
    BY <1>1, <1>2, <1>3 DEF ObjectType
  <2>2. QED
    BY <1>4, <1>5, <2>1
<1>7. \A i \in (1 .. 9) \ {5} : i \in {1, 2, 3, 4, 6, 7, 8, 9}
  OBVIOUS
<1> HIDE DEF key
<1>8. QED
  BY <1>6, <1>7 DEF key

LEMMA FirstIs ==
  ASSUME NEW S \in SUBSET Int, NEW x \in S, \A y \in S : x <= y
  PROVE  Min(S) = x
<1>1. Min(S) = CHOOSE y \in S : \A z \in S : y <= z
  BY DEF Min
<1>2. \A y \in S : (\A z \in S : y <= z) => y = x
  BY SMT
<1>3. QED
  BY <1>1, <1>2

\* The chat and the document of a message are written under the keys they are
\* looked for; the other entities under keys that are not looked for.
LEMMA MessageEntities ==
  ASSUME NEW m, "forward_origin" \notin DOMAIN m
  PROVE  LET objects == ParseEntities(Message, m, NestedContents)
         IN  /\ DOMAIN objects \subseteq {"chat", "user", "message", "document", "photosize"}
             /\ "chat" \in DOMAIN m /\ m["chat"].kind # "array" =>
                  /\ "chat" \in DOMAIN objects
                  /\ objects["chat"] = Object(NestedContents("Chat", m["chat"].at))
             /\ "document" \in DOMAIN m /\ m["document"].kind # "array" =>
                  /\ "document" \in DOMAIN objects
                  /\ objects["document"] = Object(NestedContents("Document", m["document"].at))
<1> DEFINE member(i) == m[Message.objects[i]]
           all(i) == IF member(i).kind = "array" THEN member(i).items ELSE <<member(i)>>
           written == {i \in DOMAIN Message.objects :
                         Message.objects[i] \in DOMAIN m /\ all(i) # <<>>}
           key(i) == Entity[ObjectType(i)].wrap[1]
           first(k) == Min({i \in written : key(i) = k})
           objects == ParseEntities(Message, m, NestedContents)
<1>1. objects = [k \in {key(i) : i \in written} |->
                   Object(NestedContents(ObjectType(first(k)), Head(all(first(k))).at))]
  BY DEF ParseEntities, WrittenObjects, AllIn, FirstObject, KeyOf, TypeIn, ObjectType
<1>2. written \subseteq (1 .. 9) \ {5}
  BY MessageObjectsAre
<1>3. DOMAIN objects \subseteq {"chat", "user", "message", "document", "photosize"}
  BY <1>1, <1>2, ObjectKeys
<1>4. ASSUME "chat" \in DOMAIN m, m["chat"].kind # "array"
      PROVE  /\ "chat" \in DOMAIN objects
             /\ objects["chat"] = Object(NestedContents("Chat", m["chat"].at))
  <2>1. 1 \in written /\ all(1) = <<m["chat"]>> /\ key(1) = "chat"
    BY <1>4, MessageObjectsAre, ObjectKeys
  <2>2. ObjectType(1) = "Chat"
    BY MessageObjectsAre, MessageIs DEF ObjectType
  <2>3. first("chat") = 1
    <3> DEFINE S == {i \in written : key(i) = "chat"}
    <3> HIDE DEF written, key
    <3>0. S \subseteq written /\ 1 \in S
      BY <2>1
    <3> HIDE DEF S
    <3>1. S \in SUBSET Int /\ \A y \in S : 1 <= y
      BY <1>2, <3>0
    <3>2. Min(S) = 1
      BY <3>0, <3>1, FirstIs
    <3>3. QED
      BY <3>2 DEF S
  <2>4. Head(all(1)) = m["chat"]
    BY <2>1
  <2> DEFINE keys == {key(i) : i \in written}
             value(k) == Object(NestedContents(ObjectType(first(k)), Head(all(first(k))).at))
  <2>5. "chat" \in keys
    BY <2>1
  <2>6. value("chat") = Object(NestedContents("Chat", m["chat"].at))
    <3> HIDE DEF first, all
    <3>1. QED
      BY <2>2, <2>3, <2>4
  <2>7. objects = [k \in keys |-> value(k)]
    BY <1>1
  <2> HIDE DEF objects, keys, value
  <2>8. QED
    BY <2>5, <2>6, <2>7
<1>5. ASSUME "document" \in DOMAIN m, m["document"].kind # "array"
      PROVE  /\ "document" \in DOMAIN objects
             /\ objects["document"] = Object(NestedContents("Document", m["document"].at))
  <2>1. 8 \in written /\ all(8) = <<m["document"]>> /\ key(8) = "document"
    BY <1>5, MessageObjectsAre, ObjectKeys
  <2>2. ObjectType(8) = "Document"
    BY MessageObjectsAre, MessageIs DEF ObjectType
  <2>3. first("document") = 8
    <3> DEFINE S == {i \in written : key(i) = "document"}
    <3>0. \A i \in written : key(i) = "document" => i = 8
      BY <1>2, ObjectKeys
    <3> HIDE DEF written, key
    <3>1. S = {8}
      BY <2>1, <3>0
    <3> HIDE DEF S
    <3>2. Min(S) = 8
      <4>1. S \in SUBSET Int /\ 8 \in S /\ \A y \in S : 8 <= y
        BY <3>1
      <4>2. QED
        BY <4>1, FirstIs
    <3>3. QED
      BY <3>2 DEF S
  <2>4. Head(all(8)) = m["document"]
    BY <2>1
  <2> DEFINE keys == {key(i) : i \in written}
             value(k) == Object(NestedContents(ObjectType(first(k)), Head(all(first(k))).at))
  <2>5. "document" \in keys
    BY <2>1
  <2>6. value("document") = Object(NestedContents("Document", m["document"].at))
    <3> HIDE DEF first, all
    <3>1. QED
      BY <2>2, <2>3, <2>4
  <2>7. objects = [k \in keys |-> value(k)]
    BY <1>1
  <2> HIDE DEF objects, keys, value
  <2>8. QED
    BY <2>5, <2>6, <2>7
<1>6. QED
  BY <1>3, <1>4, <1>5

-----------------------------------------------------------------------------
\* An entity within a message that is written and read again.
LEMMA WithinReturns ==
  ASSUME NEW of \in DOMAIN Entity, of # "message", Entity[of].under = <<>>,
         NEW v, IsDocument(v),
         Cardinality(DOMAIN Entity[of].requested \cap DOMAIN Nested(of, v))
           = Entity[of].req_fields
  PROVE  LET m == Nested(of, v)
             again == Nested(of, Object(NestedContents(of, m)))
         IN  \A k \in DOMAIN m \ LostInWriting(of) :
               k \in DOMAIN again /\ again[k] = m[k]
<1> DEFINE m == Nested(of, v)
           c == NestedContents(of, m)
           map == Accepted(Entity[of], v)
<1>1. CASE VerifyFields(Entity[of], v) = {}
  <2>1. m = Nothing
    BY <1>1 DEF Nested, Create
  <2>2. DOMAIN m = {}
    BY <2>1 DEF Nothing
  <2> HIDE DEF m
  <2>3. QED
    BY <2>2 DEF m
<1>2. CASE VerifyFields(Entity[of], v) # {}
  <2>1. m = FieldsFromMap(of, map, Lower)
    BY <1>2, CreateIs
  <2>2. ReadAs(of, map, FieldsFromMap(of, map, Lower))
    <3> HIDE DEF map
    <3>1. QED
      BY LowerReads
  <2>3. \A n : Find(v, Append(Entity[of].under, n)) # None
               => IsValue(Find(v, Append(Entity[of].under, n)))
    <3>1. ASSUME NEW n PROVE Field(v, n) # None => IsValue(Field(v, n))
      BY DEF Field, IsDocument
    <3>2. ASSUME NEW n PROVE Find(v, Append(Entity[of].under, n)) = Field(v, n)
      <4>1. Append(<<>>, n) = <<n>>
        OBVIOUS
      <4>2. QED
        BY <4>1, FindOne
    <3>3. QED
      BY <3>1, <3>2
  <2>4. Settled(of, m) /\ FromDocument(of, m)
    BY <2>1, <2>2, <2>3, ReadSettled
  <2> HIDE DEF m
  <2>5. Writes(of, m, c)
    BY ContentsWritten
  <2>6. Around(of, c) = Object(c)
    BY DEF Around
  <2>7. Cardinality(DOMAIN Entity[of].requested \cap DOMAIN m) = Entity[of].req_fields
    BY DEF m
  <2> HIDE DEF c
  <2>8. \A n \in (DOMAIN m \cap Simple(of)) \ LostInWriting(of) :
          n \in DOMAIN Nested(of, Object(c)) /\ Nested(of, Object(c))[n] = m[n]
    BY <2>4, <2>5, <2>6, <2>7, ReadAgain
  <2>9. DOMAIN m \ LostInWriting(of) \subseteq Simple(of)
    BY <2>4, KeptSimple
  <2>10. QED
    BY <2>8, <2>9 DEF m, c
<1>3. QED
  BY <1>1, <1>2

\* Three are asked for, and all three are there.
LEMMA ThreeRequested ==
  /\ DOMAIN Message.requested = {"message_id", "date", "chat"}
  /\ Message.req_fields = 3
  /\ \A T \in SUBSET {"message_id", "date", "chat"} :
       Cardinality(T) = 3 => T = {"message_id", "date", "chat"}
<1>1. DOMAIN Message.requested = {"message_id", "date", "chat"} /\ Message.req_fields = 3
  BY DEF Message, Fields, ++
<1> DEFINE S == {"message_id", "date", "chat"}
<1>2. IsFiniteSet(S) /\ Cardinality(S) = 3
  <2>1. IsFiniteSet({"message_id"}) /\ Cardinality({"message_id"}) = 1
    BY FS_Singleton
  <2>2. IsFiniteSet({"message_id", "date"}) /\ Cardinality({"message_id", "date"}) = 2
    <3>1. {"message_id", "date"} = {"message_id"} \cup {"date"} /\ "date" \notin {"message_id"}
      OBVIOUS
    <3>2. QED
      BY <2>1, <3>1, FS_AddElement
  <2>3. S = {"message_id", "date"} \cup {"chat"} /\ "chat" \notin {"message_id", "date"}
    OBVIOUS
  <2>4. QED
    BY <2>2, <2>3, FS_AddElement
<1> HIDE DEF S
<1>3. \A T \in SUBSET S : Cardinality(T) = 3 => T = S
  BY <1>2, FullSubset
<1>4. QED
  BY <1>1, <1>3 DEF S

\* What of a message is simple.
LEMMA MessageSimple ==
  /\ Simple("message") \cap {"chat", "user", "message", "document", "photosize"} = {}
  /\ {"message_id", "date"} \subseteq Simple("message") \ LostInWriting("message")
  /\ DOMAIN Message.nested \ LostInWriting("message") = {"chat", "document"}
  /\ "photo" \in LostInWriting("message")
  /\ "allowed_updates" \notin Message.reads
  /\ "forward_origin" \notin Message.reads
  /\ {"chat", "document"} \subseteq Message.reads \cap DOMAIN Kinds(Message)
<1>1. LostInWriting("message") = {"from", "sender_chat", "sender_business_bot",
                                  "reply_to_message", "via_bot", "photo"}
  BY DEF LostInWriting
<1>2. Message.reads = MessageReads
  BY DEF Message
<1>3. /\ MessageReads \cap {"user", "message", "photosize", "allowed_updates",
                            "forward_origin"} = {}
      /\ {"message_id", "date", "chat", "document"} \subseteq MessageReads
  BY DEF MessageReads, MessageNested, MessageNumbers, MessageFlags, MessageTexts, ++
<1>4. {"message_id", "date", "chat", "document"} \subseteq DOMAIN Kinds(Message)
  <2>1. {"message_id", "date", "chat"} \subseteq DOMAIN Message.requested
    BY ThreeRequested
  <2>2. "document" \in DOMAIN Message.optional
    BY DEF Message, MessageOptional, MessageNested, Fields, ++
  <2>3. QED
    BY <2>1, <2>2 DEF Kinds, ++
<1>5. QED
  BY <1>1, <1>2, <1>3, <1>4, MessageIs DEF Simple, NoMember

\* The chat and the document of a message that was read.
LEMMA MessageTaken ==
  ASSUME DocumentTyped, document.of = "message",
         VerifyFields(Message, Given) # {},
         NEW n \in {"chat", "document"}, n \in DOMAIN Members("message", Given)
  PROVE  /\ Members("message", Given)[n] = Object(Nested(Message.nested[n], Field(Given, n)))
         /\ IsDocument(Field(Given, n))
<1> DEFINE map == Accepted(Message, Given)
           taken == Taken("message", map)
           m == FieldsFromMap("message", map, Nested)
           nested == Message.nested
<1>1. /\ document # NoDocument /\ "message" \in DOMAIN Entity
      /\ Members("message", Given) = m
  <2>1. document # NoDocument
    BY DEF NoDocument
  <2>2. "message" \in DOMAIN Entity
    BY DEF Entity
  <2>3. VerifyFields(Entity["message"], Given) # {}
    BY MessageIs
  <2>4. Members("message", Given)
          = FieldsFromMap("message", Accepted(Entity["message"], Given), Nested)
    BY <2>3, CreateIs
  <2>5. QED
    BY <2>1, <2>2, <2>4, MessageIs
<1>2. /\ ReadAs("message", map, m)
      /\ \A k \in DOMAIN taken \ Empty("message", map) :
           k \in DOMAIN nested => m[k] = Object(Nested(nested[k], taken[k]))
  <2> HIDE DEF map
  <2>1. ReadAs("message", map, m)
    BY <1>1, NestedReads
  <2> DEFINE inner == Entity["message"].nested
  <2>2. \A k \in DOMAIN taken \ Empty("message", map) :
          k \in DOMAIN inner => m[k] = Object(Nested(inner[k], taken[k]))
    BY <1>1, NestedReads
  <2>3. inner = nested
    BY MessageIs
  <2> HIDE DEF m, inner, nested, taken
  <2>4. QED
    BY <2>1, <2>2, <2>3
<1>3. n \in DOMAIN taken \ Empty("message", map)
  <2> HIDE DEF m, map
  <2>1. n \in DOMAIN m
    BY <1>1
  <2>2. QED
    BY <1>2, <2>1 DEF ReadAs
<1>4. taken[n] = Field(Given, n) /\ Field(Given, n).kind = "object"
  BY <1>1, <1>3, MessageIs, MessageKinds, TakenWhole DEF Integral
<1>5. IsDocument(Field(Given, n))
  <2>1. Field(Given, n) # None
    BY <1>4 DEF None
  <2>2. Find(Given, Append(Entity[document.of].under, n)) = Field(Given, n)
    <3>1. Append(Entity[document.of].under, n) = <<n>>
      BY MessageIs
    <3>2. QED
      BY <3>1, FindOne
  <2>3. QED
    BY <1>1, <2>1, <2>2, FoundInGiven
<1>6. n \in DOMAIN nested
  BY MessageIs
<1> HIDE DEF m, map, taken, nested
<1>7. m[n] = Object(Nested(nested[n], Field(Given, n)))
  BY <1>2, <1>3, <1>4, <1>6
<1>8. QED
  BY <1>1, <1>5, <1>7 DEF nested

\* What is written of a message.
LEMMA MessageWritten ==
  ASSUME NEW m, FromDocument("message", m),
         \A n \in {"chat", "document"} \cap DOMAIN m : m[n].kind = "object"
  PROVE  LET c == Contents("message", m, NestedContents)
         IN  /\ Writes("message", m, c)
             /\ \A n \in {"chat", "document"} \cap DOMAIN m :
                  /\ n \in DOMAIN c
                  /\ c[n] = Object(NestedContents(Message.nested[n], m[n].at))
<1> DEFINE c == Contents("message", m, NestedContents)
           objects == ParseEntities(Message, m, NestedContents)
           pairs == ParsePairs(Message.pairs, m)
<1>1. "message" \in DOMAIN Entity /\ Entity["message"] = Message
  BY DEF Entity
<1>2. c = objects ++ pairs
  BY <1>1 DEF Contents, ContainerMove
<1>3. "forward_origin" \notin DOMAIN m
  BY <1>1, MessageSimple DEF FromDocument
<1>4. /\ DOMAIN objects \subseteq {"chat", "user", "message", "document", "photosize"}
      /\ "chat" \in DOMAIN m =>
           /\ "chat" \in DOMAIN objects
           /\ objects["chat"] = Object(NestedContents("Chat", m["chat"].at))
      /\ "document" \in DOMAIN m =>
           /\ "document" \in DOMAIN objects
           /\ objects["document"] = Object(NestedContents("Document", m["document"].at))
  BY <1>3, MessageEntities
<1> HIDE DEF objects
<1>5. Writes("message", m, objects ++ pairs)
  <2>1. DOMAIN objects \cap Simple("message") = {}
    BY <1>4, MessageSimple
  <2>2. QED
    BY <1>1, <2>1, PairsWritten
<1> HIDE DEF pairs, c
<1>6. \A n \in {"chat", "document"} \cap DOMAIN m :
        n \in DOMAIN c /\ c[n] = objects[n]
  BY <1>2, <1>4 DEF ++
<1>7. Message.nested["chat"] = "Chat" /\ Message.nested["document"] = "Document"
  BY MessageIs
<1>8. QED
  BY <1>2, <1>4, <1>5, <1>6, <1>7 DEF c

LEMMA MessageReturns ==
  ASSUME DocumentTyped, document.of = "message",
         NEW members \in Read("message", Given), Complete("message", members)
  PROVE  \E again \in Read("message",
                           Unwrapped("message", FieldsToValue("message", members))) :
           SameMembers("message", members, again)
<1> DEFINE c == Contents("message", members, NestedContents)
           w == Object(c)
           map == Accepted(Message, w)
           taken == Taken("message", map)
           again == FieldsFromMap("message", map, Nested)
           kept == {"chat", "document"} \cap DOMAIN members
           nested == Message.nested
<1>1. /\ document # NoDocument /\ "message" \in DOMAIN Entity
      /\ Entity["message"] = Message /\ Message.under = <<>>
  BY MessageIs DEF NoDocument, Entity
<1>2. VerifyFields(Message, Given) # {} /\ members = Members("message", Given)
  BY <1>1, ReadIs
<1>3. Settled("message", members) /\ FromDocument("message", members)
  BY <1>1, <1>2, GivenSettled
<1>4. \A n \in kept : /\ members[n] = Object(Nested(nested[n], Field(Given, n)))
                      /\ IsDocument(Field(Given, n))
  <2>1. ASSUME NEW n \in kept
        PROVE  /\ members[n] = Object(Nested(nested[n], Field(Given, n)))
               /\ IsDocument(Field(Given, n))
    <3>1. n \in {"chat", "document"} /\ n \in DOMAIN Members("message", Given)
      BY <1>2, <2>1
    <3>2. /\ Members("message", Given)[n] = Object(Nested(nested[n], Field(Given, n)))
          /\ IsDocument(Field(Given, n))
      BY <1>2, <3>1, MessageTaken
    <3>3. QED
      BY <1>2, <3>2
  <2>2. QED
    BY <2>1
<1>5. \A n \in kept : members[n].kind = "object"
  BY <1>4 DEF Object
<1>6. /\ Writes("message", members, c)
      /\ \A n \in kept : /\ n \in DOMAIN c
                         /\ c[n] = Object(NestedContents(nested[n], members[n].at))
  BY <1>3, <1>5, MessageWritten
<1>7. Unwrapped("message", FieldsToValue("message", members)) = w
  BY <1>1, UnwrappedIs DEF Around
<1>8. /\ Cardinality(DOMAIN Message.requested \cap DOMAIN members) = Message.req_fields
      /\ \A n \in DOMAIN nested \cap DOMAIN members :
           Cardinality(DOMAIN Entity[nested[n]].requested \cap DOMAIN members[n].at)
           = Entity[nested[n]].req_fields
  BY <1>1, WholeIs
<1>9. {"message_id", "date", "chat"} \subseteq DOMAIN members
  <2>1. DOMAIN Message.requested \cap DOMAIN members \in SUBSET {"message_id", "date", "chat"}
    BY ThreeRequested
  <2>2. QED
    BY <1>8, <2>1, ThreeRequested
<1> HIDE DEF c, nested
<1>10. \A n : Find(w, Append(Message.under, n)) = IF n \in DOMAIN c THEN c[n] ELSE None
  <2>1. ASSUME NEW n
        PROVE  Find(w, Append(Message.under, n)) = IF n \in DOMAIN c THEN c[n] ELSE None
    <3>1. Append(Message.under, n) = <<n>>
      BY <1>1
    <3>2. Field(w, n) = IF n \in DOMAIN c THEN c[n] ELSE None
      BY DEF Field, Object
    <3>3. QED
      BY <3>1, <3>2, FindOne
  <2>2. QED
    BY <2>1
<1> HIDE DEF w
<1>11. Holds("message", members, w)
  <2>1. \A n \in (DOMAIN members \cap Simple("message")) \ LostInWriting("message") :
          Find(w, Append(Message.under, n)) = members[n]
    BY <1>6, <1>10 DEF Writes
  <2>2. DOMAIN Message.requested \ DOMAIN members = {}
    BY <1>9, ThreeRequested
  <2>3. \A n \in DOMAIN Message.requested : Kinds(Message)[n] = Message.requested[n]
    <3>1. Apart(Message)
      BY MessageLists DEF Lists
    <3>2. QED
      BY <3>1, KindsAre
  <2>4. \A n \in {"message_id", "date"} :
          /\ Find(w, Append(Message.under, n)) # None
          /\ Find(w, Append(Message.under, n)).kind \in Integral \cup {Message.requested[n]}
    <3>1. TAKE n \in {"message_id", "date"}
    <3>2. n \in (DOMAIN members \cap Simple("message")) \ LostInWriting("message")
      BY <1>9, MessageSimple
    <3>3. Stays(Kinds(Message)[n], members[n])
      BY <1>1, <1>3, <3>2 DEF Settled
    <3>4. Kinds(Message)[n] = Message.requested[n]
      BY <2>3, ThreeRequested
    <3>5. Find(w, Append(Message.under, n)) = members[n]
      BY <2>1, <3>2
    <3>6. QED
      BY <3>3, <3>4, <3>5 DEF Stays
  <2>5. /\ Find(w, Append(Message.under, "chat")) # None
        /\ Find(w, Append(Message.under, "chat")).kind = Message.requested["chat"]
    <3>1. Find(w, Append(Message.under, "chat")).kind = "object"
      <4>1. "chat" \in kept
        BY <1>9
      <4>2. "chat" \in DOMAIN c /\ c["chat"].kind = "object"
        <5>1. /\ "chat" \in DOMAIN c
              /\ c["chat"] = Object(NestedContents(nested["chat"], members["chat"].at))
          BY <1>6, <4>1
        <5>2. QED
          BY <5>1 DEF Object
      <4>3. Find(w, Append(Message.under, "chat")) = c["chat"]
        BY <1>10, <4>2
      <4>4. QED
        BY <4>2, <4>3
    <3>2. Message.requested["chat"] = "object"
      BY <2>3, MessageKinds, ThreeRequested
    <3>3. QED
      BY <3>1, <3>2 DEF None
  <2>6. QED
    BY <1>1, <2>1, <2>2, <2>4, <2>5, ThreeRequested DEF Holds
<1>12. VerifyFields(Message, w) # {}
  BY <1>1, <1>8, <1>11, HeldIsAccepted
<1>13. again = Members("message", w)
  BY <1>1, <1>12, CreateIs
<1> HIDE DEF map
<1>14. /\ ReadAs("message", map, again)
       /\ \A n \in DOMAIN taken \ Empty("message", map) :
            n \in DOMAIN nested => again[n] = Object(Nested(nested[n], taken[n]))
  <2>1. ReadAs("message", map, again)
    BY <1>1, NestedReads
  <2> DEFINE inner == Entity["message"].nested
  <2>2. \A k \in DOMAIN taken \ Empty("message", map) :
          k \in DOMAIN inner => again[k] = Object(Nested(inner[k], taken[k]))
    BY <1>1, NestedReads
  <2>3. inner = nested
    BY <1>1 DEF nested
  <2> HIDE DEF again, inner, taken
  <2>4. QED
    BY <2>1, <2>2, <2>3
<1> HIDE DEF again
<1>15. \A n \in (DOMAIN members \cap Simple("message")) \ LostInWriting("message") :
         n \in DOMAIN again /\ again[n] = members[n]
  BY <1>1, <1>3, <1>11, <1>14, HeldIsRead DEF map
<1>16. \A n \in kept :
         /\ n \in DOMAIN again
         /\ again[n] = Object(Nested(nested[n], c[n]))
  <2>1. TAKE n \in kept
  <2>2. c[n].kind = "object" /\ c[n] # None /\ n \in DOMAIN c
    <3>1. n \in DOMAIN c /\ c[n] = Object(NestedContents(nested[n], members[n].at))
      BY <1>6
    <3>2. c[n].kind = "object"
      BY <3>1 DEF Object
    <3>3. QED
      BY <3>1, <3>2 DEF None
  <2>3. Kinds(Message)[n] = "object"
    BY MessageKinds
  <2>4. n \in DOMAIN map
    <3>1. Find(w, Append(Message.under, n)) = c[n]
      BY <1>10, <2>2
    <3>2. Apart(Message)
      BY MessageLists DEF Lists
    <3>3. n \in DOMAIN Kinds(Message)
      BY MessageSimple
    <3>4. QED
      BY <2>2, <2>3, <3>1, <3>2, <3>3, AcceptedIs DEF map
  <2>5. map[n] = c[n]
    <3>1. Apart(Message)
      BY MessageLists DEF Lists
    <3>2. map[n] = Find(w, Append(Message.under, n))
      BY <2>4, <3>1, AcceptedIs DEF map
    <3>3. QED
      BY <1>10, <2>2, <3>2
  <2>6. ValueToType("object", c[n]) = c[n]
    BY <2>2 DEF ValueToType, Integral
  <2>7. n \in DOMAIN taken /\ taken[n] = c[n]
    BY <1>1, <2>2, <2>3, <2>4, <2>5, <2>6, MessageSimple, TakenIs
  <2>8. n \notin Empty("message", map) /\ n \in DOMAIN nested
    BY MessageIs DEF Empty, nested
  <2>9. n \in DOMAIN again
    BY <1>14, <2>7, <2>8 DEF ReadAs
  <2> HIDE DEF taken
  <2>10. QED
    BY <1>14, <2>7, <2>8, <2>9
<1>17. \A n \in kept : \A k \in DOMAIN members[n].at \ LostInWriting(nested[n]) :
         k \in DOMAIN again[n].at /\ again[n].at[k] = members[n].at[k]
  <2>1. TAKE n \in kept
  <2> DEFINE of == nested[n]
             v == Field(Given, n)
             m == Nested(of, v)
  <2>2. of \in DOMAIN Entity /\ of # "message" /\ Entity[of].under = <<>>
    <3>1. of \in {"Chat", "Document"}
      BY MessageIs DEF nested
    <3>2. {"Chat", "Document"} \subseteq DOMAIN Entity
      BY DEF Entity
    <3>3. Entity["Chat"].under = <<>> /\ Entity["Document"].under = <<>>
      <4>1. Entity["Chat"] = Chat
        BY DEF Entity
      <4>2. Chat.under = <<>>
        BY DEF Chat, Plain, ++
      <4>3. QED
        BY <4>1, <4>2, DocumentIs
    <3>4. QED
      BY <3>1, <3>2, <3>3
  <2>3. IsDocument(v) /\ members[n].at = m
    BY <1>4 DEF Object
  <2>4. Cardinality(DOMAIN Entity[of].requested \cap DOMAIN m) = Entity[of].req_fields
    <3>1. n \in DOMAIN nested \cap DOMAIN members
      BY MessageIs DEF nested
    <3>2. QED
      BY <1>8, <2>3, <3>1
  <2>5. again[n].at = Nested(of, Object(NestedContents(of, m)))
    <3>1. again[n] = Object(Nested(of, c[n]))
      BY <1>16
    <3>2. c[n] = Object(NestedContents(of, members[n].at))
      BY <1>6
    <3>3. again[n] = Object(Nested(of, Object(NestedContents(of, m))))
      BY <2>3, <3>1, <3>2
    <3> HIDE DEF m, of
    <3>4. QED
      BY <3>3 DEF Object
  <2> HIDE DEF of, v
  <2>6. \A k \in DOMAIN m \ LostInWriting(of) :
          /\ k \in DOMAIN Nested(of, Object(NestedContents(of, m)))
          /\ Nested(of, Object(NestedContents(of, m)))[k] = m[k]
    BY <2>2, <2>3, <2>4, WithinReturns
  <2> HIDE DEF m
  <2>7. QED
    BY <2>3, <2>5, <2>6 DEF of
<1>18. SameMembers("message", members, again)
  <2>1. \A n \in DOMAIN members \ LostInWriting("message") :
          n \in Simple("message") \/ n \in kept
    <3>1. \A n \in DOMAIN members : n \in Message.reads \cap DOMAIN Kinds(Message)
      BY <1>1, <1>3 DEF FromDocument
    <3>2. DOMAIN nested \ LostInWriting("message") = {"chat", "document"}
      BY MessageSimple DEF nested
    <3>3. QED
      BY <1>1, <3>1, <3>2, MessageSimple DEF Simple, NoMember, nested
  <2>2. \A n \in Simple("message") : n \notin DOMAIN nested
    BY <1>1 DEF Simple, nested
  <2>3. kept \subseteq DOMAIN nested
    BY MessageIs DEF nested
  <2>4. Entity["message"].nested = nested
    BY <1>1 DEF nested
  <2>5. QED
    BY <1>15, <1>16, <1>17, <2>1, <2>2, <2>3, <2>4 DEF SameMembers
<1>19. Read("message", w) = {again}
  BY <1>1, <1>12, <1>13 DEF Read
<1>20. QED
  BY <1>7, <1>18, <1>19

LEMMA AllReturns == DocumentTyped => RoundTrip
<1> SUFFICES ASSUME DocumentTyped, document # NoDocument,
                    NEW members \in Read(document.of, Given),
                    Complete(document.of, members)
             PROVE  \E again \in Read(document.of,
                                      Unwrapped(document.of,
                                                FieldsToValue(document.of, members))) :
                      SameMembers(document.of, members, again)
  BY DEF RoundTrip
<1>1. CASE document.of = "message"
  BY <1>1, MessageReturns
<1>2. CASE document.of = "TelegramResponse"
  BY <1>2, ResponseReturns
<1>3. CASE document.of \notin {"message", "TelegramResponse"}
  BY <1>3, PlainReturns
<1>4. QED
  BY <1>1, <1>2, <1>3

\* Whatever the fields hold: what is read of a document comes back when it is
\* written and read again, but for what is lost by name (see RoundTrip).
THEOREM EntitiesReturn == MessageSpec => []RoundTrip
  BY DocumentsTyped, AllReturns, PTL
=============================================================================
