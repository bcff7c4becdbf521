----------------------------- MODULE Arithmetic -----------------------------
(***************************************************************************)
(* Induction over the natural numbers, sums over finite sets, powers of    *)
(* two; then what the bit tricks and the index arithmetic of SplitOrder    *)
(* compute, for every word and every index.                                *)
(***************************************************************************)
EXTENDS SplitOrder, FiniteSetTheorems, WellFoundedInduction, TLAPS

LEMMA LessWellFounded == IsWellFoundedOn({s \in Nat \X Nat : s[1] < s[2]}, Nat)
  BY NatLessThanWellFounded DEF OpToRel

\* A set of naturals that is not empty has a least element.
LEMMA LeastNumber ==
  ASSUME NEW T, T \subseteq Nat, T # {}
  PROVE  \E x \in T : \A y \in T : x <= y
<1> DEFINE R == {s \in Nat \X Nat : s[1] < s[2]}
<1>1. IsWellFoundedOn(R, Nat)
  BY LessWellFounded
<1>2. \A x, y \in Nat : <<y, x>> \in R <=> y < x
  OBVIOUS
<1> HIDE DEF R
<1>3. PICK x \in T : \A y \in T : <<y, x>> \notin R
  BY <1>1, WFMin
<1>4. SUFFICES ASSUME NEW y \in T PROVE x <= y
  OBVIOUS
<1>5. x \in Nat /\ y \in Nat /\ ~ (y < x)
  BY <1>2, <1>3
<1>6. QED
  BY <1>5

\* A set that holds 0, and with every number below n the next one too, holds
\* all numbers up to n.
LEMMA UpTo ==
  ASSUME NEW S, NEW n \in Nat, 0 \in S,
         \A i \in 0 .. n - 1 : i \in S => i + 1 \in S
  PROVE  0 .. n \subseteq S
<1> DEFINE T == {i \in 0 .. n : i \notin S}
<1> SUFFICES ASSUME T # {} PROVE FALSE
  OBVIOUS
<1>1. PICK i \in T : \A j \in T : i <= j
  <2>1. T \subseteq Nat
    OBVIOUS
  <2> HIDE DEF T
  <2>2. QED
    BY <2>1, LeastNumber
<1>2. i \in 1 .. n /\ i \notin S
  BY <1>1
<1>3. i - 1 \in S
  BY <1>1, <1>2
<1>4. QED
  BY <1>2, <1>3

-----------------------------------------------------------------------------
(***************************************************************************)
(* MapThenSumSet of the community modules, over finite sets: the element   *)
(* that is taken first makes no difference.                                *)
(***************************************************************************)
Chosen(s) == CHOOSE x \in s : TRUE

\* The sums of F over the subsets of S, as the fold computes them.
IsSum(F, S, sum) ==
  sum = [s \in SUBSET S |->
           IF s = {} THEN 0 ELSE F[Chosen(s)] + sum[s \ {Chosen(s)}]]

\* The same, for subsets of at most i elements.
IsSumTo(F, S, i, sum) ==
  sum = [s \in SUBSET S |->
           IF s = {} \/ Cardinality(s) > i THEN 0
           ELSE F[Chosen(s)] + sum[s \ {Chosen(s)}]]

LEMMA Smaller ==
  ASSUME NEW S, IsFiniteSet(S), NEW s \in SUBSET S, NEW x \in s
  PROVE  /\ IsFiniteSet(s)
         /\ s \ {x} \in SUBSET S
         /\ Cardinality(s) \in Nat
         /\ Cardinality(s) <= Cardinality(S)
         /\ Cardinality(s \ {x}) = Cardinality(s) - 1
  BY FS_Subset, FS_CardinalityType, FS_RemoveElement

LEMMA ChosenIn ==
  ASSUME NEW s, s # {}
  PROVE  Chosen(s) \in s
  BY DEF Chosen

LEMMA SumsExist ==
  ASSUME NEW F, NEW S, IsFiniteSet(S)
  PROVE  \E sum : IsSum(F, S, sum)
<1> DEFINE T == {i \in Nat : \E sum : IsSumTo(F, S, i, sum)}
           n == Cardinality(S)
<1>1. n \in Nat
  BY FS_CardinalityType
<1>2. 0 \in T
  <2> DEFINE sum == [s \in SUBSET S |-> 0]
  <2>1. ASSUME NEW s \in SUBSET S, s # {} PROVE Cardinality(s) > 0
    <3>1. PICK x \in s : TRUE
      BY <2>1
    <3>2. /\ Cardinality(s) \in Nat /\ IsFiniteSet(s) 
      BY <3>1, Smaller
    <3>3. QED
      BY <2>1, <3>2, FS_EmptySet
  <2>2. IsSumTo(F, S, 0, sum)
    BY <2>1 DEF IsSumTo
  <2> HIDE DEF sum
  <2>3. QED
    BY <2>2
<1>3. ASSUME NEW i \in 0 .. n - 1, i \in T
      PROVE  i + 1 \in T
  <2>1. PICK f : IsSumTo(F, S, i, f)
    BY <1>3
  <2> DEFINE g == [s \in SUBSET S |->
                     IF s = {} \/ Cardinality(s) > i + 1 THEN 0
                     ELSE F[Chosen(s)] + f[s \ {Chosen(s)}]]
  <2>2. ASSUME NEW s \in SUBSET S, Cardinality(s) <= i
        PROVE  g[s] = f[s]
    <3>1. CASE s = {}
      BY <2>1, <3>1 DEF IsSumTo
    <3>2. CASE s # {}
      <4>1. Cardinality(s) \in Nat /\ i \in Nat
        BY <1>3, <3>2, ChosenIn, Smaller
      <4>2. ~ (Cardinality(s) > i) /\ ~ (Cardinality(s) > i + 1)
        BY <2>2, <4>1
      <4>3. f[s] = F[Chosen(s)] + f[s \ {Chosen(s)}]
        BY <2>1, <3>2, <4>2 DEF IsSumTo
      <4>4. QED
        BY <3>2, <4>2, <4>3
    <3>3. QED
      BY <3>1, <3>2
  <2>3. ASSUME NEW s \in SUBSET S, s # {}, ~ (Cardinality(s) > i + 1)
        PROVE  g[s \ {Chosen(s)}] = f[s \ {Chosen(s)}]
    <3>1. /\ Cardinality(s) \in Nat /\ s \ {Chosen(s)} \in SUBSET S
          /\ Cardinality(s \ {Chosen(s)}) = Cardinality(s) - 1
      BY <2>3, ChosenIn, Smaller
    <3>2. Cardinality(s \ {Chosen(s)}) <= i
      BY <1>3, <2>3, <3>1
    <3> HIDE DEF g
    <3>3. QED
      BY <2>2, <3>1, <3>2
  <2>4. IsSumTo(F, S, i + 1, g)
    <3>1. g = [s \in SUBSET S |->
                 IF s = {} \/ Cardinality(s) > i + 1 THEN 0
                 ELSE F[Chosen(s)] + g[s \ {Chosen(s)}]]
      <4> DEFINE h == [s \in SUBSET S |->
                         IF s = {} \/ Cardinality(s) > i + 1 THEN 0
                         ELSE F[Chosen(s)] + g[s \ {Chosen(s)}]]
      <4>1. ASSUME NEW s \in SUBSET S PROVE g[s] = h[s]
        BY <2>3
      <4>2. QED
        BY <4>1
    <3> HIDE DEF g
    <3>2. QED
      BY <3>1 DEF IsSumTo
  <2> HIDE DEF g
  <2>5. QED
    BY <1>3, <2>4
<1> HIDE DEF T
<1>4. n \in T
  BY <1>1, <1>2, <1>3, UpTo
<1>5. PICK sum : IsSumTo(F, S, n, sum)
  BY <1>4 DEF T
<1>6. ASSUME NEW s \in SUBSET S, s # {} PROVE ~ (Cardinality(s) > n)
  <2>1. Cardinality(s) \in Nat /\ Cardinality(s) <= n
    BY <1>6, ChosenIn, Smaller
  <2>2. QED
    BY <1>1, <2>1
<1>7. IsSum(F, S, sum)
  <2> HIDE DEF n
  <2> DEFINE h == [s \in SUBSET S |->
                     IF s = {} THEN 0 ELSE F[Chosen(s)] + sum[s \ {Chosen(s)}]]
  <2>1. ASSUME NEW s \in SUBSET S PROVE sum[s] = h[s]
    BY <1>5, <1>6 DEF IsSumTo
  <2>2. sum = h
    BY <1>5, <2>1 DEF IsSumTo
  <2>3. QED
    BY <2>2 DEF IsSum
<1>8. QED
  BY <1>7

\* Any element may be taken first.
LEMMA AnyFirst ==
  ASSUME NEW S, IsFiniteSet(S), NEW F \in [S -> Nat], NEW sum, IsSum(F, S, sum)
  PROVE  /\ sum[{}] = 0
         /\ \A s \in SUBSET S :
              /\ sum[s] \in Nat
              /\ \A x \in s : sum[s] = F[x] + sum[s \ {x}]
<1> DEFINE Right(s) == /\ sum[s] \in Nat
                       /\ \A x \in s : sum[s] = F[x] + sum[s \ {x}]
           T == {i \in Nat : \A s \in SUBSET S :
                               Cardinality(s) <= i => Right(s)}
           n == Cardinality(S)
<1>1. n \in Nat /\ \A s \in SUBSET S : Cardinality(s) \in 0 .. n
  BY FS_CardinalityType, FS_Subset
<1>2. sum[{}] = 0
  BY DEF IsSum
<1>3. 0 \in T
  <2>1. \A s \in SUBSET S : Cardinality(s) <= 0 => s = {}
    <3>1. \A s \in SUBSET S : Cardinality(s) <= 0 => Cardinality(s) = 0
      BY <1>1
    <3>2. QED
      BY <3>1, FS_Subset, FS_EmptySet
  <2>2. QED
    BY <1>2, <2>1
<1>4. ASSUME NEW i \in 0 .. n - 1, i \in T
      PROVE  i + 1 \in T
  <2> SUFFICES ASSUME NEW s \in SUBSET S, Cardinality(s) = i + 1
               PROVE  Right(s)
    <3>1. \A s \in SUBSET S :
            Cardinality(s) <= i + 1 => Cardinality(s) <= i \/ Cardinality(s) = i + 1
      BY <1>1
    <3>2. QED
      BY <1>1, <1>4, <3>1
  <2>1. s # {}
    <3>1. IsFiniteSet(s)
      BY FS_Subset
    <3>2. QED
      BY <1>1, <3>1, FS_EmptySet
  <2> DEFINE c == Chosen(s)
  <2>2. c \in s /\ sum[s] = F[c] + sum[s \ {c}]
    BY <2>1, ChosenIn DEF IsSum
  <2> HIDE DEF c
  <2>3. ASSUME NEW r \in SUBSET s, NEW x \in s, x \notin r
        PROVE  r \in SUBSET S /\ Right(r)
    <3>1. r \subseteq s \ {x} /\ s \ {x} \in SUBSET S
      BY <2>3
    <3>2. IsFiniteSet(s \ {x}) /\ Cardinality(s \ {x}) = i
      BY <1>1, <3>1, Smaller, FS_Subset
    <3>3. Cardinality(r) <= i
      BY <3>1, <3>2, FS_Subset
    <3> HIDE DEF Right
    <3>4. QED
      BY <1>4, <2>3, <3>3
  <2> HIDE DEF Right
  <2>4. \A x \in s : sum[s \ {x}] \in Nat /\ F[x] \in Nat
    <3>1. \A x \in s : Right(s \ {x})
      BY <2>3
    <3>2. QED
      BY <3>1 DEF Right
  <2>5. ASSUME NEW x \in s, x # c
        PROVE  sum[s] = F[x] + sum[s \ {x}]
    <3> DEFINE r == (s \ {c}) \ {x}
    <3>1. Right(s \ {c}) /\ Right(s \ {x}) /\ Right(r)
      BY <2>2, <2>3
    <3>2. r = (s \ {x}) \ {c}
      OBVIOUS
    <3> HIDE DEF r
    <3>3. sum[s \ {c}] = F[x] + sum[r]
      BY <2>2, <2>5, <3>1 DEF Right, r
    <3>4. sum[s \ {x}] = F[c] + sum[r]
      BY <2>2, <2>5, <3>1, <3>2 DEF Right
    <3>5. sum[r] \in Nat
      BY <3>1 DEF Right
    <3>6. QED
      BY <2>2, <2>4, <3>3, <3>4, <3>5
  <2>6. sum[s] \in Nat
    BY <2>2, <2>4
  <2>7. \A x \in s : sum[s] = F[x] + sum[s \ {x}]
    BY <2>2, <2>5
  <2>8. QED
    BY <2>6, <2>7 DEF Right
<1> HIDE DEF T
<1>5. 0 .. n \subseteq T
  BY <1>1, <1>3, <1>4, UpTo
<1>6. QED
  BY <1>1, <1>2, <1>5 DEF T

\* The sum over a set does not depend on the set whose subsets are summed.
LEMMA SumsAgree ==
  ASSUME NEW S, IsFiniteSet(S), NEW R \in SUBSET S, NEW F, NEW G,
         \A x \in R : F[x] = G[x],
         NEW sum, IsSum(F, S, sum), NEW part, IsSum(G, R, part)
  PROVE  sum[R] = part[R]
<1> DEFINE T == {i \in Nat : \A s \in SUBSET R :
                               Cardinality(s) <= i => sum[s] = part[s]}
           n == Cardinality(R)
<1>1. IsFiniteSet(R) /\ n \in Nat /\ \A s \in SUBSET R : Cardinality(s) \in 0 .. n
  BY FS_CardinalityType, FS_Subset
<1>2. 0 \in T
  <2>1. \A s \in SUBSET R : Cardinality(s) <= 0 => Cardinality(s) = 0
    BY <1>1
  <2>2. \A s \in SUBSET R : Cardinality(s) <= 0 => s = {}
    BY <1>1, <2>1, FS_Subset, FS_EmptySet
  <2>3. sum[{}] = part[{}]
    BY DEF IsSum
  <2>4. QED
    BY <2>2, <2>3
<1>3. ASSUME NEW i \in 0 .. n - 1, i \in T
      PROVE  i + 1 \in T
  <2>1. ASSUME NEW s \in SUBSET R, Cardinality(s) <= i + 1, s # {}
        PROVE  sum[s] = part[s]
    <3> DEFINE c == Chosen(s)
    <3>1. c \in s
      BY <2>1, ChosenIn
    <3>2. sum[s] = F[c] + sum[s \ {c}] /\ part[s] = G[c] + part[s \ {c}]
      BY <2>1 DEF IsSum
    <3> HIDE DEF c
    <3>3. s \ {c} \in SUBSET R /\ Cardinality(s \ {c}) <= i
      <4>1. Cardinality(s) \in Nat /\ Cardinality(s \ {c}) = Cardinality(s) - 1
        BY <1>1, <3>1, Smaller
      <4>2. QED
        BY <1>1, <2>1, <4>1
    <3>4. sum[s \ {c}] = part[s \ {c}]
      BY <1>3, <3>3
    <3>5. QED
      BY <3>1, <3>2, <3>4
  <2>2. sum[{}] = part[{}]
    BY DEF IsSum
  <2>3. \A s \in SUBSET R : Cardinality(s) <= i + 1 => sum[s] = part[s]
    BY <2>1, <2>2
  <2>4. i + 1 \in Nat
    BY <1>1
  <2>5. QED
    BY <2>3, <2>4
<1> HIDE DEF T
<1>4. n \in T
  BY <1>1, <1>2, <1>3, UpTo
<1>5. QED
  BY <1>1, <1>4 DEF T

-----------------------------------------------------------------------------
(***************************************************************************)
(* Powers of two.                                                          *)
(***************************************************************************)
Doubled(n) == 2 ^ n \in Nat \ {0} /\ 2 ^ (n + 1) = 2 * 2 ^ n

\* The powers that an index can have in it, one by one.
LEMMA EachDoubled ==
  /\ Doubled(0)  /\ Doubled(1)  /\ Doubled(2)  /\ Doubled(3)  /\ Doubled(4)
  /\ Doubled(5)  /\ Doubled(6)  /\ Doubled(7)  /\ Doubled(8)  /\ Doubled(9)
  /\ Doubled(10) /\ Doubled(11) /\ Doubled(12) /\ Doubled(13) /\ Doubled(14)
  /\ Doubled(15) /\ Doubled(16) /\ Doubled(17) /\ Doubled(18) /\ Doubled(19)
  /\ Doubled(20) /\ Doubled(21) /\ Doubled(22) /\ Doubled(23) /\ Doubled(24)
  /\ Doubled(25) /\ Doubled(26) /\ Doubled(27) /\ Doubled(28) /\ Doubled(29)
  BY DEF Doubled

LEMMA Doubles ==
  ASSUME NEW n \in WordBits
  PROVE  2 ^ n \in Nat \ {0} /\ 2 ^ (n + 1) = 2 * 2 ^ n
<1>1. Doubled(n)
  BY EachDoubled DEF WordBits
<1>2. QED
  BY <1>1 DEF Doubled

LEMMA Powers ==
  /\ 2 ^ 0 = 1
  /\ \A n \in 0 .. 30 : 2 ^ n \in Nat \ {0}
<1>1. 2 ^ 0 = 1 /\ 2 ^ 30 \in Nat \ {0}
  OBVIOUS
<1>2. \A n \in 0 .. 29 : 2 ^ n \in Nat \ {0}
  BY Doubles DEF WordBits
<1>3. QED
  BY <1>1, <1>2

\* The smaller power divides the larger one.
LEMMA PowerDivides ==
  ASSUME NEW n \in 0 .. 30, NEW m \in n .. 30
  PROVE  \E z \in Nat \ {0} : 2 ^ m = 2 ^ n * z
<1> DEFINE T == {k \in Nat : \E z \in Nat \ {0} : 2 ^ (n + k) = 2 ^ n * z}
<1>1. 0 \in T
  BY Powers
<1>2. ASSUME NEW k \in 0 .. (m - n) - 1, k \in T
      PROVE  k + 1 \in T
  <2>1. PICK z \in Nat \ {0} : 2 ^ (n + k) = 2 ^ n * z
    BY <1>2
  <2>2. n + k \in WordBits /\ (n + k) + 1 = n + (k + 1)
    BY DEF WordBits
  <2>3. 2 ^ (n + (k + 1)) = 2 * 2 ^ (n + k)
    BY <2>2, Doubles
  <2>4. 2 ^ n \in Nat
    BY Powers
  <2> HIDE DEF T
  <2>5. 2 ^ (n + (k + 1)) = 2 ^ n * (2 * z)
    <3>1. \A p \in Nat : 2 * (p * z) = p * (2 * z)
      OBVIOUS
    <3>2. QED
      BY <2>1, <2>3, <2>4, <3>1
  <2>6. 2 * z \in Nat \ {0} /\ k + 1 \in Nat
    OBVIOUS
  <2>7. QED
    BY <2>5, <2>6 DEF T
<1> HIDE DEF T
<1>3. m - n \in Nat
  OBVIOUS
<1>4. m - n \in T
  BY <1>1, <1>2, <1>3, UpTo
<1>5. n + (m - n) = m
  OBVIOUS
<1>6. QED
  BY <1>4, <1>5 DEF T

LEMMA PowerGrows ==
  ASSUME NEW n \in 0 .. 30, NEW m \in n .. 30
  PROVE  2 ^ n <= 2 ^ m
<1>1. PICK z \in Nat \ {0} : 2 ^ m = 2 ^ n * z
  BY PowerDivides
<1>2. \A p \in Nat : p <= p * z
  OBVIOUS
<1>3. QED
  BY <1>1, <1>2, Powers

LEMMA PowerGrowsMore ==
  ASSUME NEW n \in 0 .. 30, NEW m \in n + 1 .. 30
  PROVE  2 ^ n < 2 ^ m
<1>1. n \in WordBits /\ n + 1 \in 0 .. 30
  BY DEF WordBits
<1>2. 2 ^ (n + 1) <= 2 ^ m
  BY <1>1, PowerGrows
<1>3. 2 ^ n \in Nat \ {0} /\ 2 ^ (n + 1) = 2 * 2 ^ n
  BY <1>1, Doubles
<1>4. m \in 0 .. 30
  OBVIOUS
<1>5. 2 ^ m \in Nat
  BY <1>4, Powers
<1>6. QED
  BY <1>2, <1>3, <1>5

-----------------------------------------------------------------------------
(***************************************************************************)
(* Division by powers of two.                                              *)
(***************************************************************************)
LEMMA DivMod ==
  ASSUME NEW i \in Nat, NEW p \in Nat \ {0}
  PROVE  /\ i = p * (i \div p) + (i % p)
         /\ i \div p \in Nat
         /\ i % p \in 0 .. p - 1
  OBVIOUS

LEMMA DivModUnique ==
  ASSUME NEW i \in Nat, NEW p \in Nat \ {0}, NEW q \in Nat, NEW r \in 0 .. p - 1,
         i = p * q + r
  PROVE  i \div p = q /\ i % p = r
  OBVIOUS

\* A digit more.
LEMMA NextBit ==
  ASSUME NEW i \in Nat, NEW p \in Nat \ {0}
  PROVE  i % (2 * p) = IF (i \div p) % 2 = 1 THEN (i % p) + p ELSE i % p
<1> DEFINE q == i \div p
           r == i % p
           h == q \div 2
           e == q % 2
<1>1. i = p * q + r /\ q \in Nat /\ r \in 0 .. p - 1
  BY DivMod
<1>2. q = 2 * h + e /\ h \in Nat /\ e \in 0 .. 1
  BY <1>1
<1> HIDE DEF q, r, h, e
<1>3. p * q = (2 * p) * h + p * e
  <2>1. p * (2 * h + e) = (2 * p) * h + p * e
    BY <1>2
  <2>2. QED
    BY <1>2, <2>1
<1>4. 2 * p \in Nat \ {0}
  OBVIOUS
<1>5. CASE e = 0
  <2>1. i = (2 * p) * h + r /\ r \in 0 .. 2 * p - 1
    BY <1>1, <1>3, <1>5, <1>2
  <2>2. i % (2 * p) = r
    BY <1>2, <1>4, <2>1, DivModUnique
  <2>3. QED
    BY <1>5, <2>2 DEF e, q, r
<1>6. CASE e = 1
  <2>1. i = (2 * p) * h + (r + p) /\ r + p \in 0 .. 2 * p - 1
    BY <1>1, <1>3, <1>6, <1>2
  <2>2. i % (2 * p) = r + p
    BY <1>2, <1>4, <2>1, DivModUnique
  <2>3. QED
    BY <1>6, <2>2 DEF e, q, r
<1>7. QED
  BY <1>2, <1>5, <1>6

\* The digits of a remainder.
LEMMA BitOfRest ==
  ASSUME NEW i \in Nat, NEW p \in Nat \ {0}, NEW z \in Nat \ {0}
  PROVE  ((i % ((2 * p) * z)) \div p) % 2 = (i \div p) % 2
<1> DEFINE m == (2 * p) * z
           h == i \div m
           r == i % m
           t == r \div p
           u == r % p
<1>1. m \in Nat \ {0}
  OBVIOUS
<1> HIDE DEF m
<1>2. i = m * h + r /\ h \in Nat /\ r \in Nat
  BY <1>1, DivMod
<1>3. r = p * t + u /\ t \in Nat /\ u \in 0 .. p - 1
  BY <1>2, DivMod
<1>4. m * h = p * (2 * (z * h))
  <2>1. \A a \in Nat : ((2 * p) * z) * a = p * (2 * (z * a))
    OBVIOUS
  <2> HIDE DEF h
  <2>2. QED
    BY <1>2, <2>1 DEF m
<1>5. z * h \in Nat
  BY <1>2
<1> HIDE DEF h, r, t, u
<1>6. i = p * (2 * (z * h) + t) + u
  <2>1. \A a \in Nat : p * a + p * t = p * (a + t)
    BY <1>3
  <2>2. QED
    BY <1>2, <1>3, <1>4, <1>5, <2>1
<1>7. i \div p = 2 * (z * h) + t
  <2>1. 2 * (z * h) + t \in Nat
    BY <1>3, <1>5
  <2>2. QED
    BY <1>3, <1>6, <2>1, DivModUnique
<1>8. \A a \in Nat : (2 * a + t) % 2 = t % 2
  BY <1>3
<1>9. (i \div p) % 2 = t % 2
  BY <1>5, <1>7, <1>8
<1>10. QED
  BY <1>9 DEF t, r, m

-----------------------------------------------------------------------------
(***************************************************************************)
(* The bits of an index.                                                   *)
(***************************************************************************)
\* A remainder by a power keeps the bits below it (get_global_index).
LEMMA WordRest ==
  ASSUME NEW i \in Nat, NEW m \in 0 .. 30
  PROVE  Word(i % 2 ^ m) = {b \in Word(i) : b < m}
<1>1. 2 ^ m \in Nat \ {0} /\ i % 2 ^ m \in 0 .. 2 ^ m - 1
  BY Powers, DivMod
<1>2. ASSUME NEW b \in WordBits, b < m
      PROVE  ((i % 2 ^ m) \div 2 ^ b) % 2 = (i \div 2 ^ b) % 2
  <2>1. b + 1 \in 0 .. 30 /\ m \in b + 1 .. 30
    BY <1>2 DEF WordBits
  <2>2. PICK z \in Nat \ {0} : 2 ^ m = 2 ^ (b + 1) * z
    BY <2>1, PowerDivides
  <2>3. 2 ^ m = (2 * 2 ^ b) * z /\ 2 ^ b \in Nat \ {0}
    BY <2>2, Doubles
  <2>4. ((i % ((2 * 2 ^ b) * z)) \div 2 ^ b) % 2 = (i \div 2 ^ b) % 2
    BY <2>3, BitOfRest
  <2>5. QED
    BY <2>3, <2>4
<1>3. ASSUME NEW b \in WordBits, ~ (b < m)
      PROVE  ((i % 2 ^ m) \div 2 ^ b) % 2 = 0
  <2>1. m \in 0 .. 30 /\ b \in m .. 30 /\ b \in 0 .. 30
    BY <1>3 DEF WordBits
  <2>2. 2 ^ m <= 2 ^ b /\ 2 ^ b \in Nat \ {0}
    BY <2>1, PowerGrows, Powers
  <2>3. (i % 2 ^ m) = 2 ^ b * 0 + (i % 2 ^ m) /\ (i % 2 ^ m) \in 0 .. 2 ^ b - 1
    BY <1>1, <2>2
  <2>4. (i % 2 ^ m) \div 2 ^ b = 0
    BY <1>1, <2>2, <2>3, DivModUnique
  <2>5. QED
    BY <2>4
<1>4. \A b \in WordBits :
        ((i % 2 ^ m) \div 2 ^ b) % 2 = 1 <=> (i \div 2 ^ b) % 2 = 1 /\ b < m
  BY <1>2, <1>3
<1>5. QED
  BY <1>4 DEF Word

\* A remainder by the next power.
LEMMA RestNext ==
  ASSUME NEW i \in Nat, NEW m \in WordBits
  PROVE  i % 2 ^ (m + 1) =
           IF m \in Word(i) THEN (i % 2 ^ m) + 2 ^ m ELSE i % 2 ^ m
<1>1. 2 ^ m \in Nat \ {0} /\ 2 ^ (m + 1) = 2 * 2 ^ m
  BY Doubles
<1>2. QED
  BY <1>1, NextBit DEF Word

-----------------------------------------------------------------------------
(***************************************************************************)
(* From bits to numbers.                                                   *)
(***************************************************************************)
LEMMA WordFinite ==
  ASSUME NEW v \in SUBSET WordBits
  PROVE  IsFiniteSet(v)
<1>1. 0 \in Int /\ 29 \in Int
  OBVIOUS
<1>2. IsFiniteSet(0 .. 29)
  BY <1>1, FS_Interval
<1>3. QED
  BY <1>2, FS_Subset DEF WordBits

Values == [b \in WordBits |-> 2 ^ b]

\* Number is a sum.
LEMMA NumberSum ==
  ASSUME NEW v \in SUBSET WordBits
  PROVE  \E sum : IsSum(Values, v, sum) /\ Number(v) = sum[v]
<1> DEFINE Folds(iter) ==
             iter = [s \in SUBSET v |->
                       IF s = {} THEN 0
                       ELSE 2 ^ (CHOOSE x \in s : TRUE)
                            + iter[s \ {CHOOSE x \in s : TRUE}]]
<1>1. Number(v) = (CHOOSE iter : Folds(iter))[v]
  BY DEF Number, MapThenSumSet, MapThenFoldSet
<1>2. ASSUME NEW iter PROVE IsSum(Values, v, iter) <=> Folds(iter)
  <2>1. \A s \in SUBSET v : s # {} => Values[Chosen(s)] = 2 ^ Chosen(s)
    BY ChosenIn DEF Values
  <2>2. [s \in SUBSET v |->
           IF s = {} THEN 0 ELSE Values[Chosen(s)] + iter[s \ {Chosen(s)}]]
        = [s \in SUBSET v |->
           IF s = {} THEN 0 ELSE 2 ^ Chosen(s) + iter[s \ {Chosen(s)}]]
    BY <2>1
  <2>3. QED
    BY <2>2 DEF IsSum, Chosen
<1> HIDE DEF Folds
<1>3. \E iter : Folds(iter)
  BY <1>2, SumsExist, WordFinite
<1>4. Folds(CHOOSE iter : Folds(iter))
  BY <1>3
<1>5. QED
  BY <1>1, <1>2, <1>4

LEMMA Numbers ==
  /\ Number({}) = 0
  /\ \A v \in SUBSET WordBits :
       /\ Number(v) \in Nat
       /\ \A b \in v : Number(v) = 2 ^ b + Number(v \ {b})
<1>1. IsFiniteSet(WordBits) /\ WordBits \in SUBSET WordBits
  BY WordFinite
<1>2. PICK sum : IsSum(Values, WordBits, sum)
  BY <1>1, SumsExist
<1>3. Values \in [WordBits -> Nat] /\ \A b \in WordBits : Values[b] = 2 ^ b
  BY Powers DEF WordBits, Values
<1>4. ASSUME NEW v \in SUBSET WordBits PROVE Number(v) = sum[v]
  <2>1. PICK part : IsSum(Values, v, part) /\ Number(v) = part[v]
    BY NumberSum
  <2>2. QED
    BY <1>1, <1>2, <2>1, SumsAgree
<1>5. /\ sum[{}] = 0
      /\ \A s \in SUBSET WordBits :
           sum[s] \in Nat /\ \A x \in s : sum[s] = Values[x] + sum[s \ {x}]
  BY <1>1, <1>2, <1>3, AnyFirst
<1>6. \A v \in SUBSET WordBits : \A b \in v : v \ {b} \in SUBSET WordBits
  OBVIOUS
<1>7. QED
  BY <1>3, <1>4, <1>5, <1>6

\* An index is the number of its bits.
LEMMA NumberOfRest ==
  ASSUME NEW i \in Nat, NEW m \in 0 .. 30
  PROVE  Number({b \in Word(i) : b < m}) = i % 2 ^ m
<1> DEFINE Low(k) == {b \in Word(i) : b < k}
           T == {k \in Nat : Number(Low(k)) = i % 2 ^ k}
<1>1. \A k \in Int : Low(k) \in SUBSET WordBits
  BY DEF Word
<1>2. 0 \in T
  <2>1. Low(0) = {}
    BY DEF Word, WordBits
  <2>2. i % 1 = 0
    OBVIOUS
  <2>3. QED
    BY <2>1, <2>2, Numbers, Powers
<1>3. ASSUME NEW k \in 0 .. m - 1, k \in T
      PROVE  k + 1 \in T
  <2>1. k \in WordBits /\ k + 1 \in Nat
    BY DEF WordBits
  <2>2. CASE k \in Word(i)
    <3>1. Low(k + 1) \ {k} = Low(k) /\ k \in Low(k + 1)
      BY <2>1, <2>2 DEF Word, WordBits
    <3> HIDE DEF Low
    <3>2. Number(Low(k + 1)) = 2 ^ k + Number(Low(k))
      BY <1>1, <3>1, Numbers
    <3>3. i % 2 ^ (k + 1) = (i % 2 ^ k) + 2 ^ k
      BY <2>1, <2>2, RestNext
    <3>4. i % 2 ^ k \in Nat /\ 2 ^ k \in Nat
      BY <2>1, Doubles, DivMod
    <3>5. QED
      BY <1>3, <2>1, <3>2, <3>3, <3>4
  <2>3. CASE k \notin Word(i)
    <3>1. \A b \in Word(i) : b \in Int
      BY DEF Word, WordBits
    <3>2. Low(k + 1) = Low(k)
      BY <2>1, <2>3, <3>1
    <3> HIDE DEF Low
    <3>3. QED
      BY <1>3, <2>1, <2>3, <3>2, RestNext
  <2>4. QED
    BY <2>2, <2>3
<1> HIDE DEF T
<1>4. m \in T
  BY <1>2, <1>3, UpTo
<1>5. QED
  BY <1>4 DEF T

LEMMA NumberOfWord ==
  ASSUME NEW i \in Indexes
  PROVE  Number(Word(i)) = i
<1>1. i \in Nat /\ i % 2 ^ 30 = i
  BY DEF Indexes
<1>2. {b \in Word(i) : b < 30} = Word(i)
  BY DEF Word, WordBits
<1>3. Number({b \in Word(i) : b < 30}) = i % 2 ^ 30
  <2>1. 30 \in 0 .. 30
    OBVIOUS
  <2>2. QED
    BY <1>1, <2>1, NumberOfRest
<1>4. QED
  BY <1>1, <1>2, <1>3

\* Different indexes have different bits.
LEMMA WordInjective ==
  ASSUME NEW i \in Indexes, NEW j \in Indexes, Word(i) = Word(j)
  PROVE  i = j
  BY NumberOfWord

-----------------------------------------------------------------------------
(***************************************************************************)
(* The top bit, and the parent of a bucket.                                *)
(***************************************************************************)
LEMMA TopBit ==
  ASSUME NEW S \in SUBSET Bits, S # {}
  PROVE  Max(S) \in S /\ \A b \in S : b <= Max(S)
<1> DEFINE T == {63 - b : b \in S}
<1>1. T \subseteq Nat /\ T # {}
  <2>1. \A b \in S : b \in 0 .. 63
    BY DEF Bits
  <2>2. QED
    BY <2>1
<1> HIDE DEF T
<1>2. PICK t \in T : \A u \in T : t <= u
  BY <1>1, LeastNumber
<1>3. PICK x \in S : t = 63 - x
  BY <1>2 DEF T
<1>4. ASSUME NEW b \in S PROVE x >= b
  <2>1. 63 - x <= 63 - b
    BY <1>2, <1>3 DEF T
  <2>2. QED
    BY <2>1 DEF Bits
<1>5. \A b \in S : Max(S) >= b /\ Max(S) \in S
  BY <1>4 DEF Max
<1>6. QED
  BY <1>5 DEF Bits

LEMMA TopIs ==
  ASSUME NEW S \in SUBSET Bits, NEW x \in S, \A b \in S : b <= x
  PROVE  Max(S) = x
<1>1. Max(S) \in S /\ \A b \in S : b <= Max(S)
  BY TopBit
<1>2. x <= Max(S) /\ Max(S) <= x
  BY <1>1
<1>3. x \in Int /\ Max(S) \in Int
  <2>1. \A b \in S : b \in Int
    BY DEF Bits
  <2>2. QED
    BY <1>1, <2>1
<1>4. QED
  BY <1>2, <1>3

LEMMA IndexesAre ==
  ASSUME NEW i \in Indexes
  PROVE  i \in Nat /\ Word(i) \in SUBSET WordBits /\ Word(i) \in SUBSET Bits
  BY DEF Indexes, Word, WordBits, Bits

LEMMA WordBelow ==
  ASSUME NEW i \in Indexes, NEW m \in 0 .. 30
  PROVE  i < 2 ^ m <=> \A b \in Word(i) : b < m
<1>1. i \in Nat /\ 2 ^ m \in Nat \ {0}
  BY Powers, IndexesAre
<1>2. CASE i < 2 ^ m
  <2>1. i % 2 ^ m = i
    <3>1. \A p \in Nat \ {0} : i < p => i % p = i
      BY <1>1
    <3>2. QED
      BY <1>1, <1>2, <3>1
  <2>2. Word(i) = {b \in Word(i) : b < m}
    BY <1>1, <2>1, WordRest
  <2>3. QED
    BY <1>2, <2>2
<1>3. CASE \A b \in Word(i) : b < m
  <2>1. {b \in Word(i) : b < m} = Word(i)
    BY <1>3
  <2>2. i = i % 2 ^ m
    BY <1>1, <2>1, NumberOfRest, NumberOfWord
  <2>3. i % 2 ^ m \in 0 .. 2 ^ m - 1
    BY <1>1, DivMod
  <2>4. QED
    BY <1>1, <1>3, <2>2, <2>3
<1>4. QED
  BY <1>2, <1>3

\* get_parent_index: the top bit goes.
LEMMA TopOfWord ==
  ASSUME NEW i \in Indexes, i > 0
  PROVE  /\ Msb(Word(i)) \in Word(i)
         /\ Msb(Word(i)) \in WordBits
         /\ \A b \in Word(i) : b <= Msb(Word(i))
         /\ Max(Word(i)) = Msb(Word(i))
         /\ 2 ^ Msb(Word(i)) <= i
         /\ i < 2 ^ (Msb(Word(i)) + 1)
         /\ ParentIndex(i) = i % 2 ^ Msb(Word(i))
<1> DEFINE m == Max(Word(i))
<1>0. /\ Word(i) \in SUBSET WordBits /\ Word(i) \in SUBSET Bits
      /\ \A b \in Word(i) : b \in 0 .. 29
  BY IndexesAre DEF WordBits
<1>1. Word(i) # {}
  <2>1. Number(Word(i)) # 0
    BY NumberOfWord, IndexesAre
  <2>2. QED
    BY <2>1, Numbers
<1>2. m \in Word(i) /\ \A b \in Word(i) : b <= m
  BY <1>0, <1>1, TopBit
<1>3. Msb(Word(i)) = m
  <2> HIDE DEF m
  <2>1. m \in Word(i) \cup {0} /\ Word(i) \cup {0} \in SUBSET Bits
    BY <1>0, <1>2 DEF Bits
  <2>2. \A b \in Word(i) \cup {0} : b <= m
    BY <1>0, <1>2
  <2>3. QED
    BY <2>1, <2>2, TopIs DEF Msb
<1> HIDE DEF m
<1>4. m \in 0 .. 29 /\ m \in 0 .. 30 /\ m + 1 \in 0 .. 30
  BY <1>0, <1>2 DEF WordBits
<1>5. i < 2 ^ (m + 1)
  <2>1. \A b \in Word(i) : b < m + 1
    BY <1>0, <1>2, <1>4 DEF WordBits
  <2>2. QED
    BY <1>4, <2>1, WordBelow
<1>6. 2 ^ m <= i
  <2>1. ~ (i < 2 ^ m)
    <3>1. i < 2 ^ m => \A b \in Word(i) : b < m
      BY <1>4, WordBelow
    <3>2. ~ (m < m)
      BY <1>4
    <3>3. QED
      BY <1>2, <3>1, <3>2
  <2>2. i \in Nat /\ 2 ^ m \in Nat
    BY <1>4, Powers, IndexesAre
  <2>3. QED
    BY <2>1, <2>2
<1>7. ParentIndex(i) = i % 2 ^ m
  <2>1. CASE i <= 1
    <3>1. i = 1
      BY <2>1 DEF Indexes
    <3>2. m = 0
      <4>1. SUFFICES ASSUME m >= 1 PROVE FALSE
        BY <1>4
      <4>2. 0 \in 0 .. 30 /\ m \in 0 + 1 .. 30
        BY <1>4, <4>1
      <4>3. 2 ^ 0 < 2 ^ m
        BY <4>2, PowerGrowsMore
      <4>4. QED
        BY <1>4, <1>6, <3>1, <4>3, Powers
    <3>3. 1 % 1 = 0
      OBVIOUS
    <3>4. QED
      BY <3>1, <3>2, <3>3, Powers DEF ParentIndex
  <2>2. CASE ~ (i <= 1)
    <3>1. Word(i) \ {m} = {b \in Word(i) : b < m}
      BY <1>0, <1>2, <1>4 DEF WordBits
    <3>2. Number({b \in Word(i) : b < m}) = i % 2 ^ m
      BY <1>4, NumberOfRest, IndexesAre
    <3>3. QED
      BY <1>3, <2>2, <3>1, <3>2 DEF ParentIndex
  <2>3. QED
    BY <2>1, <2>2
<1>8. QED
  BY <1>0, <1>2, <1>3, <1>5, <1>6, <1>7 DEF m

-----------------------------------------------------------------------------
(***************************************************************************)
(* The order of words.                                                     *)
(***************************************************************************)
\* v and w part at m: the one has the bit and the other has not.
Part(v, w, m) ==
  /\ m \in w \ v
  /\ \A b \in Bits : b > m => (b \in v <=> b \in w)

LEMMA LessParts ==
  ASSUME NEW v \in SUBSET Bits, NEW w \in SUBSET Bits
  PROVE  Less(v, w) <=> \E m \in Bits : Part(v, w, m)
<1> DEFINE D == (v \cup w) \ (v \cap w)
<1>1. D \in SUBSET Bits
  OBVIOUS
<1>2. ASSUME Less(v, w)
      PROVE  \E m \in Bits : Part(v, w, m)
  <2>1. D # {} /\ Max(D) \in w
    BY <1>2 DEF Less
  <2> HIDE DEF D
  <2>2. Max(D) \in D /\ \A b \in D : b <= Max(D)
    BY <1>1, <2>1, TopBit
  <2>3. Max(D) \in w \ v
    BY <2>1, <2>2 DEF D
  <2>4. ASSUME NEW b \in Bits, b > Max(D)
        PROVE  b \in v <=> b \in w
    <3>1. b \notin D
      <4>1. Max(D) \in Bits
        BY <1>1, <2>2
      <4>2. \A x \in Bits : b > x => ~ (b <= x)
        BY DEF Bits
      <4>3. QED
        BY <2>2, <2>4, <4>1, <4>2
    <3>2. QED
      BY <3>1 DEF D
  <2>5. QED
    BY <1>1, <2>2, <2>3, <2>4 DEF Part
<1>3. ASSUME NEW m \in Bits, Part(v, w, m)
      PROVE  Less(v, w)
  <2>1. m \in D /\ m \in w /\ m \notin v
    BY <1>3 DEF Part
  <2>2. \A b \in D : b <= m
    <3> SUFFICES ASSUME NEW b \in D, ~ (b <= m) PROVE FALSE
      OBVIOUS
    <3>1. b \in Bits /\ b > m
      BY <1>1 DEF Bits
    <3>2. QED
      BY <1>3, <3>1 DEF Part
  <2> HIDE DEF D
  <2>3. Max(D) = m
    BY <1>1, <2>1, <2>2, TopIs
  <2>4. QED
    BY <2>1, <2>3 DEF Less, D
<1>4. QED
  BY <1>2, <1>3

\* It is a strict linear order.
LEMMA LessOrders ==
  ASSUME NEW u \in SUBSET Bits, NEW v \in SUBSET Bits, NEW w \in SUBSET Bits
  PROVE  /\ ~ Less(u, u)
         /\ Less(u, v) /\ Less(v, w) => Less(u, w)
         /\ u = v \/ Less(u, v) \/ Less(v, u)
<1>1. ~ Less(u, u)
  BY DEF Less
<1>2. ASSUME Less(u, v), Less(v, w) PROVE Less(u, w)
  <2>1. PICK m \in Bits : Part(u, v, m)
    BY <1>2, LessParts
  <2>2. PICK n \in Bits : Part(v, w, n)
    BY <1>2, LessParts
  <2>3. CASE m > n
    <3>1. Part(u, w, m)
      BY <2>1, <2>2, <2>3 DEF Part, Bits
    <3>2. QED
      BY <3>1, LessParts
  <2>4. CASE ~ (m > n)
    <3>1. Part(u, w, n)
      BY <2>1, <2>2, <2>4 DEF Part, Bits
    <3>2. QED
      BY <3>1, LessParts
  <2>5. QED
    BY <2>3, <2>4
<1>3. ASSUME u # v PROVE Less(u, v) \/ Less(v, u)
  <2> DEFINE D == (u \cup v) \ (u \cap v)
  <2>1. D \in SUBSET Bits /\ D # {} /\ D = (v \cup u) \ (v \cap u)
    BY <1>3
  <2>2. Max(D) \in u \/ Max(D) \in v
    <3> HIDE DEF D
    <3>1. Max(D) \in D
      BY <2>1, TopBit
    <3>2. QED
      BY <3>1 DEF D
  <2>3. QED
    BY <1>3, <2>1, <2>2 DEF Less
<1>4. QED
  BY <1>1, <1>2, <1>3

-----------------------------------------------------------------------------
(***************************************************************************)
(* reverse_bit_order                                                       *)
(***************************************************************************)
\* Where the bit at b comes from when groups of n bits change places.
Swap(b, n) == IF (b \div n) % 2 = 0 THEN b + n ELSE b - n

LEMMA Shifted ==
  ASSUME NEW v \in SUBSET Bits, NEW n \in Nat, NEW b \in Bits
  PROVE  /\ b \in Shr(v, n) <=> b + n \in v
         /\ b \in Shl(v, n) <=> b - n \in v
<1>1. \A c \in v : c \in Int
  BY DEF Bits
<1>2. b \in Shr(v, n) <=> b + n \in v
  BY <1>1 DEF Shr, Bits
<1>3. b \in Shl(v, n) <=> b - n \in v
  BY <1>1 DEF Shl, Bits
<1>4. QED
  BY <1>2, <1>3

LEMMA SwapOnce ==
  ASSUME NEW v \in SUBSET Half, NEW n \in {1, 2, 4, 8, 16}, NEW b \in Half
  PROVE  /\ Swap(b, n) \in Half
         /\ b \in SwapGroups(v, n) <=> Swap(b, n) \in v
         /\ SwapGroups(v, n) \in SUBSET Half
<1> DEFINE mask == {c \in Half : (c \div n) % 2 = 0}
<1>1. Half \subseteq Bits /\ v \in SUBSET Bits /\ v \cap mask \in SUBSET Bits
  BY DEF Half, Bits
<1>2. b \in Bits /\ b \in 0 .. 31 /\ n \in Nat
  BY <1>1 DEF Half
<1>3. /\ (b \div n) % 2 = 0 => b + n \in 0 .. 31 /\ ~ (((b - n) \div n) % 2 = 0)
      /\ ~ ((b \div n) % 2 = 0) =>
           b - n \in 0 .. 31 /\ ((b - n) \div n) % 2 = 0
  <2>1. CASE n = 1
    BY <1>2, <2>1
  <2>2. CASE n = 2
    BY <1>2, <2>2
  <2>3. CASE n = 4
    BY <1>2, <2>3
  <2>4. CASE n = 8
    BY <1>2, <2>4
  <2>5. CASE n = 16
    BY <1>2, <2>5
  <2>6. QED
    BY <2>1, <2>2, <2>3, <2>4, <2>5
<1>4. b \in SwapGroups(v, n) <=>
        \/ b \in Shr(v, n) /\ b \in mask
        \/ b \in Shl(v \cap mask, n)
  BY DEF SwapGroups
<1>5. b \in Shr(v, n) <=> b + n \in v
  BY <1>1, <1>2, Shifted
<1>6. b \in Shl(v \cap mask, n) <=> b - n \in v /\ b - n \in mask
  <2> HIDE DEF mask
  <2>1. b \in Shl(v \cap mask, n) <=> b - n \in v \cap mask
    BY <1>1, <1>2, Shifted
  <2>2. QED
    BY <2>1
<1>7. SwapGroups(v, n) \in SUBSET Half
  BY DEF SwapGroups
<1>8. QED
  BY <1>2, <1>3, <1>4, <1>5, <1>6, <1>7 DEF Swap, Half

\* The five exchanges take the bit at b from the other end.
LEMMA SwapAll ==
  ASSUME NEW b \in Half
  PROVE  Swap(Swap(Swap(Swap(Swap(b, 16), 8), 4), 2), 1) = 31 - b
  BY DEF Swap, Half

LEMMA ReversedHalf ==
  ASSUME NEW v \in SUBSET Half
  PROVE  /\ ReverseHalf(v) \in SUBSET Half
         /\ \A b \in Half : b \in ReverseHalf(v) <=> 31 - b \in v
<1> DEFINE w1 == SwapGroups(v, 1)
           w2 == SwapGroups(w1, 2)
           w3 == SwapGroups(w2, 4)
           w4 == SwapGroups(w3, 8)
           w5 == SwapGroups(w4, 16)
<1>1. ReverseHalf(v) = w5
  BY DEF ReverseHalf
<1>2. 0 \in Half
  BY DEF Half
<1>3. w1 \in SUBSET Half
  BY <1>2, SwapOnce
<1> HIDE DEF w1
<1>4. w2 \in SUBSET Half
  BY <1>2, <1>3, SwapOnce
<1> HIDE DEF w2
<1>5. w3 \in SUBSET Half
  BY <1>2, <1>4, SwapOnce
<1> HIDE DEF w3
<1>6. w4 \in SUBSET Half
  BY <1>2, <1>5, SwapOnce
<1> HIDE DEF w4
<1>7. w5 \in SUBSET Half
  BY <1>2, <1>6, SwapOnce
<1> HIDE DEF w5
<1>8. ASSUME NEW b \in Half
      PROVE  b \in w5 <=> 31 - b \in v
  <2> DEFINE b5 == Swap(b, 16)
             b4 == Swap(b5, 8)
             b3 == Swap(b4, 4)
             b2 == Swap(b3, 2)
             b1 == Swap(b2, 1)
  <2>1. b5 \in Half /\ (b \in w5 <=> b5 \in w4)
    BY <1>6, SwapOnce DEF w5
  <2> HIDE DEF b5
  <2>2. b4 \in Half /\ (b5 \in w4 <=> b4 \in w3)
    BY <1>5, <2>1, SwapOnce DEF w4
  <2> HIDE DEF b4
  <2>3. b3 \in Half /\ (b4 \in w3 <=> b3 \in w2)
    BY <1>4, <2>2, SwapOnce DEF w3
  <2> HIDE DEF b3
  <2>4. b2 \in Half /\ (b3 \in w2 <=> b2 \in w1)
    BY <1>3, <2>3, SwapOnce DEF w2
  <2> HIDE DEF b2
  <2>5. b2 \in w1 <=> b1 \in v
    BY <2>4, SwapOnce DEF w1
  <2>6. b1 = 31 - b
    BY SwapAll DEF b5, b4, b3, b2
  <2>7. QED
    BY <2>1, <2>2, <2>3, <2>4, <2>5, <2>6
<1>9. QED
  BY <1>1, <1>7, <1>8

\* All 64 bits are reversed.
LEMMA Reversed ==
  ASSUME NEW v \in SUBSET Bits
  PROVE  ReverseBitOrder(v) = {63 - b : b \in v}
<1> DEFINE high == Shr(v, 32)
           low  == v \cap Half
           up   == ReverseHalf(low)
<1>0. Half \subseteq Bits /\ 32 \in Nat
  BY DEF Half, Bits
<1>1. high \in SUBSET Half /\ low \in SUBSET Half
  <2>1. \A b \in v : b \in 0 .. 63
    BY DEF Bits
  <2>2. QED
    BY <2>1 DEF Shr, Half
<1>2. \A b \in Half : b \in high <=> b + 32 \in v
  BY <1>0, Shifted
<1>3. /\ ReverseHalf(high) \in SUBSET Half
      /\ \A b \in Half : b \in ReverseHalf(high) <=> 31 - b \in high
      /\ up \in SUBSET Half
      /\ \A b \in Half : b \in up <=> 31 - b \in low
  BY <1>1, ReversedHalf
<1>4. \A b \in Half : 31 - b \in Half
  BY DEF Half
<1>5. ReverseBitOrder(v) = ReverseHalf(high) \cup Shl(up, 32)
  BY DEF ReverseBitOrder
<1>6. \A b \in Bits : b \in Shl(up, 32) <=> b - 32 \in up
  BY <1>0, <1>3, Shifted
<1>7. ReverseBitOrder(v) \subseteq Bits
  BY <1>0, <1>3, <1>5 DEF Shl
<1> HIDE DEF high, low, up
<1>8. ASSUME NEW b \in Bits
      PROVE  b \in ReverseBitOrder(v) <=> 63 - b \in v
  <2>1. CASE b \in Half
    <3>1. b - 32 \notin up
      BY <1>3, <2>1 DEF Half
    <3>2. b \in ReverseHalf(high) <=> (31 - b) + 32 \in v
      BY <1>2, <1>3, <1>4, <2>1
    <3>3. (31 - b) + 32 = 63 - b
      BY DEF Bits
    <3>4. QED
      BY <1>5, <1>6, <3>1, <3>2, <3>3
  <2>2. CASE b \notin Half
    <3>1. b - 32 \in Half
      BY <2>2 DEF Half, Bits
    <3>2. b - 32 \in up <=> 31 - (b - 32) \in low
      BY <1>3, <3>1
    <3>3. 31 - (b - 32) = 63 - b /\ 31 - (b - 32) \in Half
      BY <3>1 DEF Half, Bits
    <3>4. b \notin ReverseHalf(high)
      BY <1>3, <2>2
    <3>5. QED
      BY <1>5, <1>6, <3>2, <3>3, <3>4 DEF low
  <2>3. QED
    BY <2>1, <2>2
<1>9. \A b \in Bits : b \in {63 - c : c \in v} <=> 63 - b \in v
  <2>1. \A c \in v : c \in Int
    BY DEF Bits
  <2>2. QED
    BY <2>1 DEF Bits
<1>10. {63 - b : b \in v} \subseteq Bits
  BY DEF Bits
<1>11. QED
  BY <1>7, <1>8, <1>9, <1>10

-----------------------------------------------------------------------------
(***************************************************************************)
(* log2_64                                                                 *)
(***************************************************************************)
\* The bits down to k - 1 places below the top are set.
Filled(v, t, k) ==
  /\ v \in SUBSET Bits /\ t \in v
  /\ \A b \in v : b <= t
  /\ \A b \in Bits : b <= t /\ b > t - k => b \in v

LEMMA SpreadFills ==
  ASSUME NEW v, NEW t, NEW k \in 1 .. 32, Filled(v, t, k)
  PROVE  Filled(Spread(v, k), t, 2 * k)
<1>1. /\ v \in SUBSET Bits /\ t \in v /\ t \in Bits
      /\ \A b \in v : b <= t
      /\ \A b \in Bits : b <= t /\ b > t - k => b \in v
  BY DEF Filled
<1>2. \A b \in Bits : b \in Shr(v, k) <=> b + k \in v
  BY <1>1, Shifted
<1>3. Shr(v, k) \in SUBSET Bits
  <2>1. \A c \in v : c \in 0 .. 63
    BY <1>1 DEF Bits
  <2>2. QED
    BY <2>1 DEF Shr, Bits
<1>4. \A b \in Shr(v, k) : b <= t
  <2>1. \A b \in Bits : b + k <= t => b <= t
    BY <1>1 DEF Bits
  <2>2. QED
    BY <1>1, <1>2, <1>3, <2>1
<1>5. ASSUME NEW b \in Bits, b <= t, b > t - 2 * k
      PROVE  b \in v \/ b \in Shr(v, k)
  <2>1. CASE b > t - k
    BY <1>1, <1>5, <2>1
  <2>2. CASE ~ (b > t - k)
    <3>1. b + k \in Bits /\ b + k <= t /\ b + k > t - k
      BY <1>1, <1>5, <2>2 DEF Bits
    <3>2. QED
      BY <1>1, <1>2, <3>1
  <2>3. QED
    BY <2>1, <2>2
<1>6. QED
  BY <1>1, <1>3, <1>4, <1>5 DEF Filled, Spread

LEMMA Smeared ==
  ASSUME NEW v \in SUBSET Bits, v # {}
  PROVE  Smear(v) = 0 .. Max(v)
<1> DEFINE t  == Max(v)
           w1 == Spread(v, 1)
           w2 == Spread(w1, 2)
           w3 == Spread(w2, 4)
           w4 == Spread(w3, 8)
           w5 == Spread(w4, 16)
           w6 == Spread(w5, 32)
<1>1. t \in v /\ t \in Bits /\ \A b \in v : b <= t
  BY TopBit
<1>2. Filled(v, t, 1)
  <2> HIDE DEF t
  <2>1. \A b \in Bits : b <= t /\ b > t - 1 => b = t
    BY <1>1 DEF Bits
  <2>2. QED
    BY <1>1, <2>1 DEF Filled
<1>3. Smear(v) = w6
  BY DEF Smear
<1> HIDE DEF t
<1>4. Filled(w1, t, 2 * 1)
  BY <1>2, SpreadFills
<1> HIDE DEF w1
<1>5. Filled(w2, t, 2 * 2)
  BY <1>4, SpreadFills
<1> HIDE DEF w2
<1>6. Filled(w3, t, 2 * 4)
  BY <1>5, SpreadFills
<1> HIDE DEF w3
<1>7. Filled(w4, t, 2 * 8)
  BY <1>6, SpreadFills
<1> HIDE DEF w4
<1>8. Filled(w5, t, 2 * 16)
  BY <1>7, SpreadFills
<1> HIDE DEF w5
<1>9. Filled(w6, t, 2 * 32)
  BY <1>8, SpreadFills
<1> HIDE DEF w6
<1>10. \A b \in 0 .. t : b \in w6
  BY <1>1, <1>9 DEF Filled, Bits
<1>11. \A b \in w6 : b \in 0 .. t
  BY <1>1, <1>9 DEF Filled, Bits
<1>12. QED
  BY <1>3, <1>10, <1>11 DEF t

\* The magic number, bit by bit.
MagicBits ==
  {1, 6, 7, 11, 13, 17, 18, 19, 22, 25, 27, 28, 31, 32, 34, 37,
   38, 39, 40, 42, 44, 46, 47, 48, 50, 51, 53, 54, 55, 56, 57, 58}

LEMMA Digits ==
  ASSUME NEW d \in 0 .. 15
  PROVE  /\ 0 \in Word(d) <=> d % 2 = 1
         /\ 1 \in Word(d) <=> (d \div 2) % 2 = 1
         /\ 2 \in Word(d) <=> (d \div 4) % 2 = 1
         /\ 3 \in Word(d) <=> (d \div 8) % 2 = 1
<1>1. 2 ^ 0 = 1 /\ 2 ^ 1 = 2 /\ 2 ^ 2 = 4 /\ 2 ^ 3 = 8
  OBVIOUS
<1>2. d \div 1 = d
  OBVIOUS
<1>3. QED
  BY <1>1, <1>2 DEF Word, WordBits

\* A digit of the magic number, and its bits.
Row(q) ==
  LET d == <<0, 7, 14, 13, 13, 5, 14, 5, 9, 10, 4, 14, 2, 8, 12, 2>>[16 - q]
  IN  /\ d \in 0 .. 15
      /\ d % 2 = 1 <=> 4 * q \in MagicBits
      /\ (d \div 2) % 2 = 1 <=> 4 * q + 1 \in MagicBits
      /\ (d \div 4) % 2 = 1 <=> 4 * q + 2 \in MagicBits
      /\ (d \div 8) % 2 = 1 <=> 4 * q + 3 \in MagicBits

LEMMA EachRow ==
  /\ Row(0)  /\ Row(1)  /\ Row(2)  /\ Row(3)
  /\ Row(4)  /\ Row(5)  /\ Row(6)  /\ Row(7)
  /\ Row(8)  /\ Row(9)  /\ Row(10) /\ Row(11)
  /\ Row(12) /\ Row(13) /\ Row(14) /\ Row(15)
<1>1. Row(0)  /\ Row(1)  /\ Row(2)  /\ Row(3)
  BY DEF Row, MagicBits
<1>2. Row(4)  /\ Row(5)  /\ Row(6)  /\ Row(7)
  BY DEF Row, MagicBits
<1>3. Row(8)  /\ Row(9)  /\ Row(10) /\ Row(11)
  BY DEF Row, MagicBits
<1>4. Row(12) /\ Row(13) /\ Row(14) /\ Row(15)
  BY DEF Row, MagicBits
<1>5. QED
  BY <1>1, <1>2, <1>3, <1>4

LEMMA MagicIs == Magic = MagicBits
<1> DEFINE digits == <<0, 7, 14, 13, 13, 5, 14, 5, 9, 10, 4, 14, 2, 8, 12, 2>>
<1>1. ASSUME NEW b \in Bits
      PROVE  b % 4 \in Word(digits[16 - b \div 4]) <=> b \in MagicBits
  <2> DEFINE q == b \div 4
             r == b % 4
             d == digits[16 - q]
  <2>1. q \in 0 .. 15 /\ r \in 0 .. 3 /\ b = 4 * q + r
    BY DEF Bits
  <2> HIDE DEF q, r
  <2>2. Row(q)
    BY <2>1, EachRow
  <2>3. /\ d \in 0 .. 15
        /\ d % 2 = 1 <=> 4 * q \in MagicBits
        /\ (d \div 2) % 2 = 1 <=> 4 * q + 1 \in MagicBits
        /\ (d \div 4) % 2 = 1 <=> 4 * q + 2 \in MagicBits
        /\ (d \div 8) % 2 = 1 <=> 4 * q + 3 \in MagicBits
    BY <2>2 DEF Row
  <2> HIDE DEF d
  <2>4. r \in Word(d) <=> 4 * q + r \in MagicBits
    <3>1. 4 * q + 0 = 4 * q
      BY <2>1
    <3>2. r = 0 \/ r = 1 \/ r = 2 \/ r = 3
      BY <2>1
    <3>3. QED
      BY <2>3, <3>1, <3>2, Digits
  <2>5. QED
    BY <2>1, <2>4 DEF q, r, d
<1>2. Magic = {b \in Bits : b % 4 \in Word(digits[16 - b \div 4])}
  BY DEF Magic
<1>3. MagicBits \subseteq Bits
  BY DEF MagicBits, Bits
<1>4. QED
  BY <1>1, <1>2, <1>3

\* The six bits of the product that are left, when the single bit is at t.
Window(t) ==
  (IF 58 - t \in MagicBits THEN 1 ELSE 0)
  + (IF 59 - t \in MagicBits THEN 2 ELSE 0)
  + (IF 60 - t \in MagicBits THEN 4 ELSE 0)
  + (IF 61 - t \in MagicBits THEN 8 ELSE 0)
  + (IF 62 - t \in MagicBits THEN 16 ELSE 0)
  + (IF 63 - t \in MagicBits THEN 32 ELSE 0)

LEMMA Windows ==
  /\ Window(0) = 1 /\ Window(1) = 3 /\ Window(2) = 7 /\ Window(3) = 15
  /\ Window(4) = 31 /\ Window(5) = 63 /\ Window(6) = 62 /\ Window(7) = 61
  /\ Window(8) = 59 /\ Window(9) = 54 /\ Window(10) = 45 /\ Window(11) = 27
  /\ Window(12) = 55 /\ Window(13) = 46 /\ Window(14) = 29 /\ Window(15) = 58
  /\ Window(16) = 53 /\ Window(17) = 42 /\ Window(18) = 21 /\ Window(19) = 43
  /\ Window(20) = 23 /\ Window(21) = 47 /\ Window(22) = 30 /\ Window(23) = 60
  /\ Window(24) = 57 /\ Window(25) = 50 /\ Window(26) = 37 /\ Window(27) = 11
  /\ Window(28) = 22 /\ Window(29) = 44 /\ Window(30) = 25 /\ Window(31) = 51
  /\ Window(32) = 38 /\ Window(33) = 13 /\ Window(34) = 26 /\ Window(35) = 52
  /\ Window(36) = 41 /\ Window(37) = 18 /\ Window(38) = 36 /\ Window(39) = 9
  /\ Window(40) = 19 /\ Window(41) = 39 /\ Window(42) = 14 /\ Window(43) = 28
  /\ Window(44) = 56 /\ Window(45) = 49 /\ Window(46) = 34 /\ Window(47) = 5
  /\ Window(48) = 10 /\ Window(49) = 20 /\ Window(50) = 40 /\ Window(51) = 17
  /\ Window(52) = 35 /\ Window(53) = 6 /\ Window(54) = 12 /\ Window(55) = 24
  /\ Window(56) = 48 /\ Window(57) = 33 /\ Window(58) = 2 /\ Window(59) = 4
  /\ Window(60) = 8 /\ Window(61) = 16 /\ Window(62) = 32 /\ Window(63) = 0
<1>1. /\ Window(0) = 1 /\ Window(1) = 3 /\ Window(2) = 7 /\ Window(3) = 15
      /\ Window(4) = 31 /\ Window(5) = 63 /\ Window(6) = 62 /\ Window(7) = 61
  BY DEF Window, MagicBits
<1>2. /\ Window(8) = 59 /\ Window(9) = 54 /\ Window(10) = 45 /\ Window(11) = 27
      /\ Window(12) = 55 /\ Window(13) = 46 /\ Window(14) = 29 /\ Window(15) = 58
  BY DEF Window, MagicBits
<1>3. /\ Window(16) = 53 /\ Window(17) = 42 /\ Window(18) = 21 /\ Window(19) = 43
      /\ Window(20) = 23 /\ Window(21) = 47 /\ Window(22) = 30 /\ Window(23) = 60
  BY DEF Window, MagicBits
<1>4. /\ Window(24) = 57 /\ Window(25) = 50 /\ Window(26) = 37 /\ Window(27) = 11
      /\ Window(28) = 22 /\ Window(29) = 44 /\ Window(30) = 25 /\ Window(31) = 51
  BY DEF Window, MagicBits
<1>5. /\ Window(32) = 38 /\ Window(33) = 13 /\ Window(34) = 26 /\ Window(35) = 52
      /\ Window(36) = 41 /\ Window(37) = 18 /\ Window(38) = 36 /\ Window(39) = 9
  BY DEF Window, MagicBits
<1>6. /\ Window(40) = 19 /\ Window(41) = 39 /\ Window(42) = 14 /\ Window(43) = 28
      /\ Window(44) = 56 /\ Window(45) = 49 /\ Window(46) = 34 /\ Window(47) = 5
  BY DEF Window, MagicBits
<1>7. /\ Window(48) = 10 /\ Window(49) = 20 /\ Window(50) = 40 /\ Window(51) = 17
      /\ Window(52) = 35 /\ Window(53) = 6 /\ Window(54) = 12 /\ Window(55) = 24
  BY DEF Window, MagicBits
<1>8. /\ Window(56) = 48 /\ Window(57) = 33 /\ Window(58) = 2 /\ Window(59) = 4
      /\ Window(60) = 8 /\ Window(61) = 16 /\ Window(62) = 32 /\ Window(63) = 0
  BY DEF Window, MagicBits
<1>9. QED
  BY <1>1, <1>2, <1>3, <1>4, <1>5, <1>6, <1>7, <1>8

\* The table, read at those places.
Found(t) == Tab64[Window(t) + 1] = t

LEMMA EachFound ==
  /\ Found(0) /\ Found(1) /\ Found(2) /\ Found(3) /\ Found(4) /\ Found(5) /\ Found(6) /\ Found(7)
  /\ Found(8) /\ Found(9) /\ Found(10) /\ Found(11) /\ Found(12) /\ Found(13) /\ Found(14) /\ Found(15)
  /\ Found(16) /\ Found(17) /\ Found(18) /\ Found(19) /\ Found(20) /\ Found(21) /\ Found(22) /\ Found(23)
  /\ Found(24) /\ Found(25) /\ Found(26) /\ Found(27) /\ Found(28) /\ Found(29) /\ Found(30) /\ Found(31)
  /\ Found(32) /\ Found(33) /\ Found(34) /\ Found(35) /\ Found(36) /\ Found(37) /\ Found(38) /\ Found(39)
  /\ Found(40) /\ Found(41) /\ Found(42) /\ Found(43) /\ Found(44) /\ Found(45) /\ Found(46) /\ Found(47)
  /\ Found(48) /\ Found(49) /\ Found(50) /\ Found(51) /\ Found(52) /\ Found(53) /\ Found(54) /\ Found(55)
  /\ Found(56) /\ Found(57) /\ Found(58) /\ Found(59) /\ Found(60) /\ Found(61) /\ Found(62) /\ Found(63)
  BY Windows DEF Found, Tab64

LEMMA TableFinds ==
  ASSUME NEW t \in Bits
  PROVE  Tab64[Window(t) + 1] = t
<1>1. Found(t)
  BY EachFound DEF Bits
<1>2. QED
  BY <1>1 DEF Found

\* The weight of a bit.
Weighs(b, p) == 2 ^ b = p

LEMMA Weights ==
  /\ Weighs(0, 1) /\ Weighs(1, 2)  /\ Weighs(2, 4)
  /\ Weighs(3, 8) /\ Weighs(4, 16) /\ Weighs(5, 32)
  BY DEF Weighs

LEMMA OneBit ==
  ASSUME NEW w \in SUBSET WordBits, NEW b \in WordBits, NEW p, Weighs(b, p)
  PROVE  Number(w) = (IF b \in w THEN p ELSE 0) + Number(w \ {b})
<1>1. w \ {b} \in SUBSET WordBits /\ Number(w) \in Nat
  BY Numbers
<1>2. CASE b \in w
  BY <1>2, Numbers DEF Weighs
<1>3. CASE b \notin w
  <2>1. w \ {b} = w
    BY <1>3
  <2>2. QED
    BY <1>1, <1>3, <2>1
<1>4. QED
  BY <1>2, <1>3

\* The number of six bits.
LEMMA SixBits ==
  ASSUME NEW v \in SUBSET (0 .. 5)
  PROVE  Number(v) = (IF 0 \in v THEN 1 ELSE 0) + (IF 1 \in v THEN 2 ELSE 0)
                     + (IF 2 \in v THEN 4 ELSE 0) + (IF 3 \in v THEN 8 ELSE 0)
                     + (IF 4 \in v THEN 16 ELSE 0) + (IF 5 \in v THEN 32 ELSE 0)
<1> DEFINE v1 == v \ {0}
           v2 == v1 \ {1}
           v3 == v2 \ {2}
           v4 == v3 \ {3}
           v5 == v4 \ {4}
           v6 == v5 \ {5}
<1>1. /\ v \in SUBSET WordBits /\ v1 \in SUBSET WordBits
      /\ v2 \in SUBSET WordBits /\ v3 \in SUBSET WordBits
      /\ v4 \in SUBSET WordBits /\ v5 \in SUBSET WordBits
  BY DEF WordBits
<1>2. 0 .. 5 \subseteq WordBits
  BY DEF WordBits
<1>3. /\ 1 \in v1 <=> 1 \in v
      /\ 2 \in v2 <=> 2 \in v
      /\ 3 \in v3 <=> 3 \in v
      /\ 4 \in v4 <=> 4 \in v
      /\ 5 \in v5 <=> 5 \in v
      /\ v6 = {}
  OBVIOUS
<1> HIDE DEF v1, v2, v3, v4, v5, v6
<1>4. Number(v) = (IF 0 \in v THEN 1 ELSE 0) + Number(v1)
  <2>1. Number(v) = (IF 0 \in v THEN 1 ELSE 0) + Number(v \ {0})
    BY <1>1, <1>2, Weights, OneBit
  <2>2. QED
    BY <1>3, <2>1 DEF v1
<1>5. Number(v1) = (IF 1 \in v THEN 2 ELSE 0) + Number(v2)
  <2>1. Number(v1) = (IF 1 \in v1 THEN 2 ELSE 0) + Number(v1 \ {1})
    BY <1>1, <1>2, Weights, OneBit
  <2>2. QED
    BY <1>3, <2>1 DEF v2
<1>6. Number(v2) = (IF 2 \in v THEN 4 ELSE 0) + Number(v3)
  <2>1. Number(v2) = (IF 2 \in v2 THEN 4 ELSE 0) + Number(v2 \ {2})
    BY <1>1, <1>2, Weights, OneBit
  <2>2. QED
    BY <1>3, <2>1 DEF v3
<1>7. Number(v3) = (IF 3 \in v THEN 8 ELSE 0) + Number(v4)
  <2>1. Number(v3) = (IF 3 \in v3 THEN 8 ELSE 0) + Number(v3 \ {3})
    BY <1>1, <1>2, Weights, OneBit
  <2>2. QED
    BY <1>3, <2>1 DEF v4
<1>8. Number(v4) = (IF 4 \in v THEN 16 ELSE 0) + Number(v5)
  <2>1. Number(v4) = (IF 4 \in v4 THEN 16 ELSE 0) + Number(v4 \ {4})
    BY <1>1, <1>2, Weights, OneBit
  <2>2. QED
    BY <1>3, <2>1 DEF v5
<1>9. Number(v5) = (IF 5 \in v THEN 32 ELSE 0) + Number(v6)
  <2>1. Number(v5) = (IF 5 \in v5 THEN 32 ELSE 0) + Number(v5 \ {5})
    BY <1>1, <1>2, Weights, OneBit
  <2>2. QED
    BY <1>3, <2>1 DEF v6
<1>10. Number(v6) = 0
  BY <1>3, Numbers
<1>11. QED
  BY <1>4, <1>5, <1>6, <1>7, <1>8, <1>9, <1>10

\* log2_64 finds the top bit.
LEMMA Log2IsTop ==
  ASSUME NEW v \in SUBSET Bits, v # {}
  PROVE  Log2_64(v) = Max(v)
<1> DEFINE t       == Max(v)
           top     == Smear(v) \ Shr(Smear(v), 1)
           product == UNION {Shl(Magic, b) : b \in top}
           index   == Shr(product, 58)
<1>1. t \in Bits
  BY TopBit
<1>2. Smear(v) = 0 .. t
  BY Smeared
<1> HIDE DEF t
<1>3. top = {t}
  <2>1. 0 .. t \in SUBSET Bits /\ 1 \in Nat
    BY <1>1 DEF Bits
  <2>2. \A b \in Bits : b \in Shr(0 .. t, 1) <=> b + 1 \in 0 .. t
    BY <2>1, Shifted
  <2>3. \A b \in 0 .. t : b + 1 \in 0 .. t <=> b # t
    BY <1>1 DEF Bits
  <2>4. t \in 0 .. t
    BY <1>1 DEF Bits
  <2>5. QED
    BY <1>2, <2>1, <2>2, <2>3, <2>4
<1> HIDE DEF top
<1>4. product = Shl(Magic, t)
  BY <1>3
<1>5. Magic \in SUBSET Bits /\ t \in Nat /\ 58 \in Nat
  BY <1>1 DEF Magic, Bits
<1>6. Shl(Magic, t) \in SUBSET Bits
  BY DEF Shl
<1> HIDE DEF product
<1>7. index \in SUBSET (0 .. 5)
  <2>1. \A c \in product : c \in 0 .. 63
    BY <1>4, <1>6 DEF Bits
  <2>2. QED
    BY <2>1 DEF Shr
<1>8. ASSUME NEW b \in 0 .. 5
      PROVE  b \in index <=> (b + 58) - t \in Magic
  <2>1. b \in Bits /\ b + 58 \in Bits
    BY DEF Bits
  <2>2. b \in index <=> b + 58 \in product
    BY <1>4, <1>5, <1>6, <2>1, Shifted
  <2>3. b + 58 \in Shl(Magic, t) <=> (b + 58) - t \in Magic
    BY <1>5, <2>1, Shifted
  <2>4. QED
    BY <1>4, <2>2, <2>3
<1> HIDE DEF index
<1>9. /\ 0 \in index <=> 58 - t \in MagicBits
      /\ 1 \in index <=> 59 - t \in MagicBits
      /\ 2 \in index <=> 60 - t \in MagicBits
      /\ 3 \in index <=> 61 - t \in MagicBits
      /\ 4 \in index <=> 62 - t \in MagicBits
      /\ 5 \in index <=> 63 - t \in MagicBits
  BY <1>8, MagicIs
<1>10. Number(index) = Window(t)
  <2>1. Number(index) =
          (IF 0 \in index THEN 1 ELSE 0) + (IF 1 \in index THEN 2 ELSE 0)
          + (IF 2 \in index THEN 4 ELSE 0) + (IF 3 \in index THEN 8 ELSE 0)
          + (IF 4 \in index THEN 16 ELSE 0) + (IF 5 \in index THEN 32 ELSE 0)
    BY <1>7, SixBits
  <2>2. QED
    BY <1>9, <2>1 DEF Window
<1>11. Log2_64(v) = Tab64[Number(index) + 1]
  BY DEF Log2_64, index, product, top
<1>12. QED
  BY <1>1, <1>10, <1>11, TableFinds DEF t

-----------------------------------------------------------------------------
(***************************************************************************)
(* The reversed hashes.  Their order is that of the words read from the    *)
(* lowest bit on, and a key comes right behind a dummy with its bits.      *)
(***************************************************************************)
\* From below, v and w first differ at t.
DiffersAt(v, w, t) ==
  /\ t \in w \ v
  /\ \A u \in WordBits : u < t => (u \in v <=> u \in w)

LEMMA HashBits ==
  ASSUME NEW i \in Indexes
  PROVE  /\ DummyHash(i) \in SUBSET Bits
         /\ RHash(i) \in SUBSET Bits
         /\ \A b \in Bits :
              /\ b \in DummyHash(i) <=> 63 - b \in Word(i)
              /\ b \in RHash(i) <=> b = 0 \/ 63 - b \in Word(i)
         /\ 0 \notin DummyHash(i)
<1>1. Word(i) \in SUBSET WordBits /\ Word(i) \in SUBSET Bits
  BY IndexesAre
<1>2. Word(i) \cup {63} \in SUBSET Bits
  BY <1>1 DEF Bits
<1>3. /\ DummyHash(i) = {63 - b : b \in Word(i)}
      /\ RHash(i) = {63 - b : b \in Word(i) \cup {63}}
  BY <1>1, <1>2, Reversed DEF DummyHash, RHash, SetUpperBit
<1>4. \A v \in SUBSET Bits :
        /\ {63 - b : b \in v} \in SUBSET Bits
        /\ \A c \in Bits : c \in {63 - b : b \in v} <=> 63 - c \in v
  <2> SUFFICES ASSUME NEW v \in SUBSET Bits
               PROVE  /\ {63 - b : b \in v} \in SUBSET Bits
                      /\ \A c \in Bits : c \in {63 - b : b \in v} <=> 63 - c \in v
    OBVIOUS
  <2>1. \A b \in v : b \in 0 .. 63
    BY DEF Bits
  <2>2. QED
    BY <2>1 DEF Bits
<1>5. \A b \in Bits : 63 - b \in Word(i) \cup {63} <=> b = 0 \/ 63 - b \in Word(i)
  BY DEF Bits
<1>6. 63 \notin Word(i) /\ 0 \in Bits
  BY <1>1 DEF WordBits, Bits
<1>7. QED
  BY <1>1, <1>2, <1>3, <1>4, <1>5, <1>6

LEMMA WordOf ==
  ASSUME NEW i \in Indexes, NEW u \in WordBits
  PROVE  /\ 63 - u \in Bits
         /\ 63 - u \in DummyHash(i) <=> u \in Word(i)
         /\ 63 - u \in RHash(i) <=> u \in Word(i)
<1>1. 63 - u \in Bits /\ 63 - (63 - u) = u /\ 63 - u # 0
  BY DEF WordBits, Bits
<1>2. QED
  BY <1>1, HashBits

LEMMA DummyOrder ==
  ASSUME NEW i \in Indexes, NEW j \in Indexes
  PROVE  Less(DummyHash(i), DummyHash(j)) <=>
           \E t \in WordBits : DiffersAt(Word(i), Word(j), t)
<1>1. \A b \in Word(j) \cup Word(i) : b \in WordBits
  BY IndexesAre
<1>2. ASSUME NEW m \in Bits, Part(DummyHash(i), DummyHash(j), m)
      PROVE  \E t \in WordBits : DiffersAt(Word(i), Word(j), t)
  <2>1. 63 - m \in Word(j) \ Word(i)
    BY <1>2, HashBits DEF Part
  <2>2. ASSUME NEW u \in WordBits, u < 63 - m
        PROVE  u \in Word(i) <=> u \in Word(j)
    <3>1. 63 - u > m
      BY <2>2 DEF WordBits, Bits
    <3>2. QED
      BY <1>2, <3>1, WordOf DEF Part
  <2>3. QED
    BY <1>1, <2>1, <2>2 DEF DiffersAt
<1>3. ASSUME NEW t \in WordBits, DiffersAt(Word(i), Word(j), t)
      PROVE  Part(DummyHash(i), DummyHash(j), 63 - t) /\ 63 - t \in Bits
  <2>1. 63 - t \in DummyHash(j) \ DummyHash(i) /\ 63 - t \in Bits
    BY <1>3, WordOf DEF DiffersAt
  <2>2. ASSUME NEW b \in Bits, b > 63 - t
        PROVE  b \in DummyHash(i) <=> b \in DummyHash(j)
    <3>1. 63 - b \in WordBits /\ 63 - b < t
      BY <2>2 DEF WordBits, Bits
    <3>2. QED
      BY <1>3, <3>1, HashBits DEF DiffersAt
  <2>3. QED
    BY <2>1, <2>2 DEF Part
<1>4. QED
  BY <1>2, <1>3, HashBits, LessParts

\* The dummies of different buckets differ.
LEMMA DummiesDiffer ==
  ASSUME NEW i \in Indexes, NEW j \in Indexes, DummyHash(i) = DummyHash(j)
  PROVE  i = j
<1>1. \A u \in WordBits : u \in Word(i) <=> u \in Word(j)
  BY WordOf
<1>2. Word(i) = Word(j)
  BY <1>1, IndexesAre
<1>3. QED
  BY <1>2, WordInjective

LEMMA KeysDiffer ==
  ASSUME NEW i \in Indexes, NEW j \in Indexes, RHash(i) = RHash(j)
  PROVE  i = j
<1>1. \A u \in WordBits : u \in Word(i) <=> u \in Word(j)
  BY WordOf
<1>2. Word(i) = Word(j)
  BY <1>1, IndexesAre
<1>3. QED
  BY <1>2, WordInjective

LEMMA KeyBehindDummy ==
  ASSUME NEW i \in Indexes, NEW k \in Indexes
  PROVE  /\ Less(DummyHash(i), RHash(k)) <=>
              i = k \/ Less(DummyHash(i), DummyHash(k))
         /\ Less(RHash(k), DummyHash(i)) <=> Less(DummyHash(k), DummyHash(i))
         /\ Less(RHash(k), RHash(i)) <=> Less(DummyHash(k), DummyHash(i))
         /\ DummyHash(i) # RHash(k)
<1>1. /\ DummyHash(i) \in SUBSET Bits /\ RHash(i) \in SUBSET Bits
      /\ DummyHash(k) \in SUBSET Bits /\ RHash(k) \in SUBSET Bits
      /\ 0 \notin DummyHash(i) /\ 0 \notin DummyHash(k)
      /\ 0 \in RHash(i) /\ 0 \in RHash(k)
      /\ 0 \in Bits
  <2>1. 0 \in Bits
    BY DEF Bits
  <2>2. QED
    BY <2>1, HashBits
<1>2. \A b \in Bits :
        b # 0 => /\ b \in RHash(k) <=> b \in DummyHash(k)
                 /\ b \in RHash(i) <=> b \in DummyHash(i)
  BY HashBits
<1>3. \A b, m \in Bits : b > m => b # 0
  BY DEF Bits
<1>4. \A m \in Bits :
        Part(DummyHash(i), DummyHash(k), m) => Part(DummyHash(i), RHash(k), m)
  BY <1>1, <1>2, <1>3 DEF Part
<1>5. ASSUME NEW m \in Bits, Part(DummyHash(i), RHash(k), m)
      PROVE  i = k \/ Part(DummyHash(i), DummyHash(k), m)
  <2>1. CASE m = 0
    <3>1. \A b \in Bits : b # 0 => b > 0
      BY DEF Bits
    <3>2. \A b \in Bits : b \in DummyHash(i) <=> b \in DummyHash(k)
      BY <1>1, <1>2, <1>5, <2>1, <3>1 DEF Part
    <3>3. DummyHash(i) = DummyHash(k)
      BY <1>1, <3>2
    <3>4. QED
      BY <3>3, DummiesDiffer
  <2>2. CASE m # 0
    BY <1>1, <1>2, <1>3, <1>5, <2>2 DEF Part
  <2>3. QED
    BY <2>1, <2>2
<1>6. ASSUME i = k
      PROVE  Part(DummyHash(i), RHash(k), 0)
  BY <1>1, <1>2, <1>3, <1>6 DEF Part
<1>7. Less(DummyHash(i), RHash(k)) <=>
        i = k \/ Less(DummyHash(i), DummyHash(k))
  BY <1>1, <1>4, <1>5, <1>6, LessParts
<1>8. \A m \in Bits :
        Part(RHash(k), DummyHash(i), m) <=> Part(DummyHash(k), DummyHash(i), m)
  BY <1>1, <1>2, <1>3 DEF Part
<1>9. \A m \in Bits :
        Part(RHash(k), RHash(i), m) <=> Part(DummyHash(k), DummyHash(i), m)
  BY <1>1, <1>2, <1>3 DEF Part
<1>10. Less(RHash(k), DummyHash(i)) <=> Less(DummyHash(k), DummyHash(i))
  BY <1>1, <1>8, LessParts
<1>11. Less(RHash(k), RHash(i)) <=> Less(DummyHash(k), DummyHash(i))
  BY <1>1, <1>9, LessParts
<1>12. QED
  BY <1>1, <1>7, <1>10, <1>11

-----------------------------------------------------------------------------
(***************************************************************************)
(* Buckets in the list: a bucket of the table is followed by what it holds *)
(* before any other bucket of the table.                                   *)
(***************************************************************************)
LEMMA RestIs ==
  ASSUME NEW i \in Indexes, NEW m \in 0 .. 30
  PROVE  /\ i % 2 ^ m \in Indexes
         /\ i % 2 ^ m \in 0 .. 2 ^ m - 1
         /\ i < 2 ^ m => i % 2 ^ m = i
         /\ Word(i % 2 ^ m) = {b \in Word(i) : b < m}
<1>1. i \in Nat /\ 2 ^ m \in Nat \ {0}
  BY IndexesAre, Powers
<1>2. i % 2 ^ m \in 0 .. 2 ^ m - 1 /\ i \div 2 ^ m \in Nat
  BY <1>1, DivMod
<1>3. i % 2 ^ m <= i
  BY <1>1
<1>4. i < 2 ^ m => i % 2 ^ m = i
  BY <1>1
<1>5. i % 2 ^ m \in Indexes
  BY <1>1, <1>2, <1>3 DEF Indexes
<1>6. QED
  BY <1>1, <1>2, <1>4, <1>5, WordRest

LEMMA RestBefore ==
  ASSUME NEW i \in Indexes, NEW m \in 0 .. 30
  PROVE  i % 2 ^ m = i \/ Less(DummyHash(i % 2 ^ m), DummyHash(i))
<1> DEFINE r == i % 2 ^ m
           T == Word(i) \ Word(r)
<1>1. r \in Indexes /\ Word(r) = {b \in Word(i) : b < m}
  BY RestIs
<1>2. CASE T = {}
  <2>1. Word(r) = Word(i)
    BY <1>1, <1>2
  <2>2. QED
    BY <1>1, <2>1, WordInjective
<1>3. CASE T # {}
  <2>1. T \subseteq Nat /\ T \subseteq WordBits
    BY IndexesAre DEF WordBits
  <2> HIDE DEF T
  <2>2. PICK t \in T : \A u \in T : t <= u
    BY <1>3, <2>1, LeastNumber
  <2>3. \A u \in WordBits : u < t => u \notin T
    BY <2>1, <2>2 DEF WordBits
  <2> HIDE DEF r
  <2>4. DiffersAt(Word(r), Word(i), t)
    BY <1>1, <2>2, <2>3 DEF DiffersAt, T
  <2>5. QED
    BY <1>1, <2>1, <2>4, DummyOrder DEF r
<1>4. QED
  BY <1>2, <1>3

\* No bucket of a table of 2^m lies between an index and its rest.
LEMMA NoneBetween ==
  ASSUME NEW i \in Indexes, NEW m \in 0 .. 30,
         NEW b \in Indexes, b < 2 ^ m, Less(DummyHash(b), DummyHash(i))
  PROVE  b = i % 2 ^ m \/ Less(DummyHash(b), DummyHash(i % 2 ^ m))
<1> DEFINE r == i % 2 ^ m
<1>1. r \in Indexes /\ Word(r) = {c \in Word(i) : c < m}
  BY RestIs
<1>2. \A c \in Word(b) : c < m
  BY WordBelow
<1> HIDE DEF r
<1>3. PICK t \in WordBits : DiffersAt(Word(b), Word(i), t)
  BY DummyOrder
<1>4. CASE t < m
  <2>1. \A u \in WordBits : u < t => u < m
    BY <1>4 DEF WordBits
  <2>2. DiffersAt(Word(b), Word(r), t)
    BY <1>1, <1>3, <1>4, <2>1 DEF DiffersAt
  <2>3. QED
    BY <1>1, <2>2, DummyOrder DEF r
<1>5. CASE ~ (t < m)
  <2>1. \A u \in WordBits : u < m => u < t
    BY <1>5 DEF WordBits
  <2>2. \A u \in WordBits : u \in Word(b) <=> u \in Word(r)
    BY <1>1, <1>2, <1>3, <2>1 DEF DiffersAt
  <2>3. Word(b) = Word(r)
    BY <1>1, <2>2, IndexesAre
  <2>4. QED
    BY <1>1, <2>3, WordInjective DEF r
<1>6. QED
  BY <1>4, <1>5

-----------------------------------------------------------------------------
(***************************************************************************)
(* Segments.                                                               *)
(***************************************************************************)
\* The bounds of a segment.
LEMMA SegmentBounds ==
  ASSUME NEW i \in Indexes
  PROVE  /\ TableSegment(i) \in 0 .. 30
         /\ TableSegment(i) = 0 <=> i = 0
         /\ TableSegment(i) = 1 => i \in {1, 2}
         /\ TableSegment(i) > 1 =>
              /\ 2 ^ (TableSegment(i) - 1) < i
              /\ i <= 2 ^ TableSegment(i)
<1>1. i \in Nat /\ Word(i) \in SUBSET Bits /\ Word(i) \in SUBSET WordBits
  BY IndexesAre
<1>2. CASE i <= 1
  BY <1>1, <1>2 DEF TableSegment
<1>3. CASE i > 1
  <2> DEFINE m == Msb(Word(i))
  <2>1. /\ m \in Word(i) /\ m \in 0 .. 29 /\ Max(Word(i)) = m
        /\ 2 ^ m <= i /\ i < 2 ^ (m + 1) /\ ParentIndex(i) = i % 2 ^ m
    BY <1>1, <1>3, TopOfWord DEF WordBits
  <2>2. Log2_64(Word(i)) = m
    BY <1>1, <2>1, Log2IsTop
  <2> HIDE DEF m
  <2>3. 2 ^ m \in Nat \ {0} /\ 2 ^ (m + 1) \in Nat
    <3>1. m \in 0 .. 30 /\ m + 1 \in 0 .. 30
      BY <2>1
    <3>2. QED
      BY <3>1, Powers
  <2>4. m > 0
    <3>1. m = 0 => 2 ^ (m + 1) = 2
      OBVIOUS
    <3>2. QED
      BY <1>1, <1>3, <2>1, <3>1
  <2>5. CASE Cardinality(Word(i)) = 1
    <3>1. TableSegment(i) = m
      BY <1>1, <1>3, <2>1, <2>2, <2>5 DEF TableSegment
    <3>2. Word(i) = {m}
      <4>1. IsFiniteSet(Word(i))
        BY <1>1, WordFinite
      <4>2. PICK x : Word(i) = {x}
        BY <2>5, <4>1, FS_Singleton
      <4>3. QED
        BY <2>1, <4>2
    <3>3. i = 2 ^ m
      <4>1. Number(Word(i)) = 2 ^ m + Number(Word(i) \ {m})
        BY <1>1, <2>1, Numbers
      <4>2. Word(i) \ {m} = {}
        BY <3>2
      <4>3. QED
        BY <2>3, <4>1, <4>2, Numbers, NumberOfWord
    <3>4. m = 1 => i = 2
      BY <3>3
    <3>5. m > 1 => 2 ^ (m - 1) < i
      <4>1. m > 1 => m - 1 \in 0 .. 30 /\ m \in (m - 1) + 1 .. 30
        BY <2>1
      <4>2. QED
        BY <3>3, <4>1, PowerGrowsMore
    <3>6. QED
      BY <1>1, <1>3, <2>1, <2>3, <2>4, <3>1, <3>3, <3>4, <3>5
  <2>6. CASE Cardinality(Word(i)) # 1
    <3>1. TableSegment(i) = m + 1
      BY <1>1, <1>3, <2>1, <2>2, <2>6 DEF TableSegment
    <3>2. i # 2 ^ m
      <4> SUFFICES ASSUME i = 2 ^ m PROVE FALSE
        OBVIOUS
      <4>1. i % 2 ^ m = 0
        BY <2>3
      <4>2. {b \in Word(i) : b < m} = Word(0)
        <5>1. m \in 0 .. 30
          BY <2>1
        <5>2. QED
          BY <4>1, <5>1, RestIs
      <4>3. Word(0) = {}
        <5>1. \A p \in Nat \ {0} : ~ ((0 \div p) % 2 = 1)
          OBVIOUS
        <5>2. \A b \in WordBits : 2 ^ b \in Nat \ {0}
          BY Doubles
        <5>3. \A b \in WordBits : ~ ((0 \div 2 ^ b) % 2 = 1)
          BY <5>1, <5>2
        <5>4. QED
          BY <5>3 DEF Word
      <4>4. \A b \in Word(i) : b = m
        <5>1. \A b \in Word(i) : b <= m /\ b \in 0 .. 29
          BY <1>1, <1>3, TopOfWord DEF m, WordBits
        <5>2. QED
          BY <2>1, <4>2, <4>3, <5>1
      <4>5. Word(i) = {m}
        BY <2>1, <4>4
      <4>6. QED
        BY <2>6, <4>5, FS_Singleton
    <3>3. 2 ^ m < i /\ i <= 2 ^ (m + 1)
      BY <1>1, <2>1, <2>3, <3>2
    <3>4. (m + 1) - 1 = m
      BY <2>1
    <3>5. QED
      BY <1>1, <1>3, <2>1, <2>4, <3>1, <3>3, <3>4
  <2>7. QED
    BY <2>5, <2>6
<1>4. QED
  BY <1>1, <1>2, <1>3

\* A table of 2^s buckets has them in the segments up to s.
LEMMA SegmentsOfTable ==
  ASSUME NEW i \in Indexes, NEW s \in 0 .. 30, i < 2 ^ s
  PROVE  TableSegment(i) <= s
<1> DEFINE g == TableSegment(i)
<1>0. g \in 0 .. 30
  BY SegmentBounds
<1>1. /\ g = 1 => i \in {1, 2}
      /\ g > 1 => 2 ^ (g - 1) < i
  BY SegmentBounds
<1> HIDE DEF g
<1>2. SUFFICES ASSUME g > s PROVE FALSE
  BY <1>0 DEF g
<1>3. CASE g = 1
  <2>1. s = 0
    BY <1>2, <1>3
  <2>2. QED
    BY <1>1, <1>3, <2>1, Powers
<1>4. CASE g > 1
  <2>1. g - 1 \in 0 .. 30 /\ g - 1 \in s .. 30
    BY <1>0, <1>2, <1>4
  <2>2. 2 ^ s <= 2 ^ (g - 1)
    BY <2>1, PowerGrows
  <2>3. 2 ^ s \in Nat /\ 2 ^ (g - 1) \in Nat /\ i \in Nat
    BY <2>1, Powers, IndexesAre
  <2>4. QED
    BY <1>1, <1>4, <2>2, <2>3
<1>5. QED
  BY <1>0, <1>2, <1>3, <1>4

\* A place of its own in its segment.
LEMMA Places ==
  ASSUME NEW i \in Indexes
  PROVE  /\ TableIndex(i) \in 0 .. TableSize(TableSegment(i)) - 1
         /\ \A j \in Indexes :
              TableSegment(j) = TableSegment(i) /\ TableIndex(j) = TableIndex(i)
                => j = i
<1> DEFINE g == TableSegment(i)
<1>1. \A j \in Indexes : TableSegment(j) = 0 => TableIndex(j) = 0 /\ j = 0
  BY SegmentBounds DEF TableIndex
<1>2. \A j \in Indexes :
        TableSegment(j) = 1 => TableIndex(j) = j - 1 /\ j \in {1, 2}
  BY SegmentBounds DEF TableIndex
<1>3. \A j \in Indexes :
        TableSegment(j) # 0 /\ TableSegment(j) # 1 =>
          TableIndex(j) = j - 2 ^ (TableSegment(j) - 1) - 1
  BY DEF TableIndex, TableSize
<1>4. /\ g \in 0 .. 30
      /\ g > 1 => 2 ^ (g - 1) < i /\ i <= 2 ^ g
  BY SegmentBounds
<1>5. i \in Nat /\ \A j \in Indexes : j \in Nat
  BY IndexesAre
<1>6. CASE g = 0
  BY <1>1, <1>6 DEF TableSize
<1>7. CASE g = 1
  BY <1>2, <1>7 DEF TableSize
<1>8. CASE g > 1
  <2>1. g - 1 \in WordBits /\ (g - 1) + 1 = g
    BY <1>4, <1>8 DEF WordBits
  <2>2. 2 ^ (g - 1) \in Nat \ {0} /\ 2 ^ g = 2 * 2 ^ (g - 1)
    BY <2>1, Doubles
  <2>3. TableSize(g) = 2 ^ (g - 1)
    BY <1>8 DEF TableSize
  <2>4. \A j \in Indexes :
          TableSegment(j) = g => TableIndex(j) = j - 2 ^ (g - 1) - 1
    BY <1>3, <1>8
  <2>5. TableIndex(i) = i - 2 ^ (g - 1) - 1
    BY <2>4
  <2> HIDE DEF g
  <2>6. TableIndex(i) \in 0 .. TableSize(g) - 1
    BY <1>4, <1>5, <1>8, <2>2, <2>3, <2>5
  <2>7. \A j \in Indexes :
          j - 2 ^ (g - 1) - 1 = i - 2 ^ (g - 1) - 1 => j = i
    BY <1>5, <2>2
  <2>8. QED
    BY <2>4, <2>5, <2>6, <2>7 DEF g
<1>9. QED
  BY <1>4, <1>6, <1>7, <1>8
=============================================================================
