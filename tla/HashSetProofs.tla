---------------------------- MODULE HashSetProofs ----------------------------
(***************************************************************************)
(* With one thread the list is sorted, size() is right, and the table      *)
(* implements a set.                                                       *)
(***************************************************************************)
EXTENDS HashTableProofs

\* At most one thread uses the table (client.cpp's updated_set has one).
Alone == \A p, q \in Threads : p = q

\* What is asked of the list is said of the nodes behind the ghost.
ChainInv == ListInv /\ Beginning /\ Sorted

LEMMA ChainFacts ==
  ASSUME ChainInv
  PROVE  /\ next \in [Nodes -> Links]
         /\ used \in 3 .. MaxNodes /\ MaxNodes \in Nat
         /\ Reachable = Chained \cup {First, Ghost}
         /\ Chained \subseteq 2 .. used - 1
         /\ Chained \subseteq Nodes
         /\ {First, Ghost, 2} \subseteq Nodes
         /\ First \notin Chained /\ Ghost \notin Chained /\ NULL \notin Nodes
         /\ 2 \in Chained
         /\ \A n \in Chained :
              /\ next[n] \in Links
              /\ item[n].rank \in Nat
              /\ next[n].to \in Chained \cup {NULL}
              /\ next[n].to # n
<1>1. /\ next \in [Nodes -> Links]
      /\ used \in 3 .. MaxNodes /\ MaxNodes \in Nat
      /\ 0 .. used - 1 \subseteq Nodes
      /\ {First, Ghost, 2} \subseteq Nodes
      /\ NULL \notin Nodes
      /\ item \in [Nodes -> [rank : Ranks, key : Buckets \cup Keys,
                             dummy : BOOLEAN]]
  BY Typed, Constants DEF ChainInv, ListInv, First, Ghost
<1>2. /\ First \in Reachable /\ Reachable \subseteq Nodes
      /\ \A n \in Reachable : next[n].to \in Reachable \cup {NULL}
  BY <1>1, ReachableClosed DEF Reachable, Closed
<1>3. \A n \in 0 .. used - 1 : next[n].to \in 1 .. used - 1 \cup {NULL}
  BY DEF ChainInv, ListInv, Known, Linked
<1>4. Reachable \subseteq 0 .. used - 1
  <2>1. First \in 0 .. used - 1 /\ Closed(next, 0 .. used - 1)
    BY <1>1, <1>3 DEF First, Closed
  <2>2. QED
    BY <1>1, <2>1, ReachableLeast DEF Reachable
<1>5. next[First].to = Ghost /\ next[Ghost].to = 2
  BY DEF ChainInv, Beginning, Link
<1>6. Ghost \in Reachable /\ 2 \in Reachable
  BY <1>1, <1>2, <1>5
<1>7. /\ Reachable = Chained \cup {First, Ghost}
      /\ First \notin Chained /\ Ghost \notin Chained
      /\ 2 \in Chained
      /\ Chained \subseteq Nodes
  BY <1>2, <1>6 DEF Chained, First, Ghost
<1>8. Chained \subseteq 2 .. used - 1
  BY <1>1, <1>4, <1>7 DEF First, Ghost
<1>9. \A n \in Nodes : item[n].rank \in Nat
  BY <1>1, RankOrder
<1>10. ASSUME NEW n \in Chained
       PROVE  next[n].to \in Chained \cup {NULL} /\ next[n].to # n
  <2>1. next[n].to \in Reachable \cup {NULL} /\ item[n].rank \in Nat
    BY <1>2, <1>7, <1>9
  <2>2. next[n].to # NULL => item[n].rank < item[next[n].to].rank
    BY DEF ChainInv, Sorted
  <2>3. next[n].to # First
    <3>1. n \in 0 .. used - 1
      BY <1>4, <1>7
    <3>2. QED
      BY <1>1, <1>3, <3>1 DEF First
  <2>4. next[n].to # Ghost
    <3>1. item[Ghost].rank = 0
      BY DEF ChainInv, Beginning, Item
    <3>2. QED
      BY <1>1, <2>1, <2>2, <3>1
  <2>5. QED
    BY <1>1, <1>7, <2>1, <2>2, <2>3, <2>4
<1>11. QED
  BY <1>1, <1>7, <1>8, <1>9, <1>10

\* Only one node leads to another.
LEMMA OneBefore ==
  ASSUME ChainInv, NEW n \in Chained, NEW m \in Chained,
         next[n].to = next[m].to, next[n].to # NULL
  PROVE  n = m
<1>1. /\ item[n].rank \in Nat /\ item[m].rank \in Nat
      /\ next[n].to \in Chained /\ item[next[n].to].rank \in Nat
  BY ChainFacts
<1>2. /\ item[n].rank < item[next[n].to].rank
      /\ item[m].rank < item[next[n].to].rank
      /\ item[n].rank < item[m].rank => item[next[n].to].rank <= item[m].rank
      /\ item[m].rank < item[n].rank => item[next[n].to].rank <= item[n].rank
      /\ item[n].rank = item[m].rank => n = m
  BY DEF ChainInv, Sorted
<1>3. QED
  BY <1>1, <1>2

\* A node is live if a link to it has no mark.
LEMMA LiveChained ==
  ASSUME ChainInv
  PROVE  Live = {Ghost, 2} \cup
                ({next[m].to : m \in {n \in Chained : ~ next[n].marked}} \ {NULL})
<1>1. /\ Reachable = Chained \cup {First, Ghost}
      /\ next[First] = Link(Ghost, FALSE) /\ next[Ghost] = Link(2, FALSE)
      /\ {First, Ghost, 2} \subseteq Nodes /\ NULL \notin Nodes
  BY ChainFacts DEF ChainInv, Beginning
<1>2. QED
  BY <1>1 DEF Live, Link

\* A key is in the set if an unmarked link leads to its node.
Holds(m, k) ==
  /\ m \in Chained /\ next[m].to # NULL /\ ~ next[m].marked
  /\ ~ item[next[m].to].dummy /\ item[next[m].to].rank = HighRank[k]

LEMMA NodeOfKey ==
  ASSUME ChainInv, Labelled, NEW n \in Chained, NEW k \in Keys
  PROVE  /\ item[n].rank = HighRank[k] => ~ item[n].dummy
         /\ ~ item[n].dummy => (item[n].rank = HighRank[k] <=> item[n].key = k)
<1>1. n \in 2 .. used - 1
  BY ChainFacts
<1>2. IF item[n].dummy
      THEN item[n].key \in Buckets /\ item[n].rank = LowRank[item[n].key]
      ELSE item[n].key \in Keys /\ item[n].rank = HighRank[item[n].key]
  BY <1>1 DEF Labelled
<1>3. /\ \A l \in Keys : HighRank[k] = HighRank[l] => k = l
      /\ \A b \in Buckets : HighRank[k] # LowRank[b]
  BY RankOrder
<1>4. QED
  BY <1>2, <1>3

LEMMA MemberHeld ==
  ASSUME ChainInv, Labelled, NEW k \in Keys
  PROVE  k \in Members <=> \E m \in Chained : Holds(m, k)
<1>1. item[Ghost].dummy /\ item[2].dummy
  BY DEF ChainInv, Beginning, Item
<1>2. k \in Members <=> \E n \in Live : ~ item[n].dummy /\ item[n].key = k
  BY DEF Members
<1>3. k \in Members <=>
        \E m \in Chained : /\ next[m].to # NULL /\ ~ next[m].marked
                           /\ ~ item[next[m].to].dummy /\ item[next[m].to].key = k
  BY <1>1, <1>2, LiveChained
<1>4. \A m \in Chained : next[m].to # NULL => next[m].to \in Chained
  BY ChainFacts
<1>5. \A m \in Chained : next[m].to # NULL /\ ~ item[next[m].to].dummy =>
        (item[next[m].to].key = k <=> item[next[m].to].rank = HighRank[k])
  BY <1>4, NodeOfKey
<1>6. QED
  BY <1>3, <1>5 DEF Holds

\* The answer of a search: between a node before the key's place and one not
\* before it, the key is there or nowhere.
LEMMA SearchTells ==
  ASSUME ChainInv, Labelled, NEW k \in Keys, NEW prev \in Chained,
         item[prev].rank < HighRank[k], ~ next[prev].marked,
         next[prev].to = NULL \/ HighRank[k] <= item[next[prev].to].rank
  PROVE  k \in Members <=> Holds(prev, k)
<1> SUFFICES ASSUME NEW m \in Chained, Holds(m, k) PROVE Holds(prev, k)
  BY MemberHeld
<1> DEFINE n == next[m].to
<1>1. n \in Chained /\ item[n].rank = HighRank[k]
  BY ChainFacts DEF Holds
<1> HIDE DEF n
<1>2. next[prev].to # NULL /\ item[next[prev].to].rank <= item[n].rank
  BY <1>1 DEF ChainInv, Sorted
<1>3. next[prev].to \in Chained /\ item[next[prev].to].rank \in Nat /\ HighRank[k] \in Int
  BY <1>2, ChainFacts, Ranked
<1>4. item[next[prev].to].rank = HighRank[k]
  BY <1>1, <1>2, <1>3
<1>5. ~ item[next[prev].to].dummy
  BY <1>3, <1>4, NodeOfKey
<1>6. QED
  BY <1>2, <1>4, <1>5 DEF Holds

-----------------------------------------------------------------------------
\* What the list holds, with the members of Live spelled out.
LEMMA LiveIs ==
  /\ \A x : x \in Live <=> /\ x # NULL
                           /\ \E m \in Reachable : next[m].to = x /\ ~ next[m].marked
  /\ \A x : x \in Live' <=>
       /\ x # NULL
       /\ \E m \in Reachable' : next'[m].to = x /\ ~ next'[m].marked
  /\ \A k : k \in Members <=> \E n \in Live : ~ item[n].dummy /\ item[n].key = k
  /\ \A k : k \in Members' <=> \E n \in Live' : ~ item'[n].dummy /\ item'[n].key = k
  BY DEF Live, Members

\* A deleted node is unlinked: the list is sorted as before, and holds the
\* same nodes that are not deleted.
LEMMA UnlinkChain ==
  ASSUME ChainInv, NEW prev \in Chained, next[prev].marked,
         next[prev].to # NULL, ~ item[next[prev].to].dummy,
         next' = [next EXCEPT ![prev] = next[next[prev].to]],
         item' = item, used' = used
  PROVE  /\ Chained' = Chained \ {next[prev].to}
         /\ next[prev].to # prev
         /\ Beginning' /\ Sorted'
         /\ Live' = Live /\ Members' = Members
<1> DEFINE node == next[prev].to
<1>1. /\ next \in [Nodes -> Links]
      /\ Reachable = Chained \cup {First, Ghost}
      /\ Chained \subseteq Nodes
      /\ {First, Ghost, 2} \subseteq Nodes
      /\ First \notin Chained /\ Ghost \notin Chained /\ NULL \notin Nodes
      /\ \A n \in Chained :
           /\ next[n] \in Links
           /\ item[n].rank \in Nat
           /\ next[n].to \in Chained \cup {NULL}
           /\ next[n].to # n
  BY ChainFacts
<1>2. /\ next[First] = Link(Ghost, FALSE) /\ next[Ghost] = Link(2, FALSE)
      /\ item[2].dummy /\ item[Ghost].dummy
  BY DEF ChainInv, Beginning, Item
<1>3. /\ node \in Chained /\ node # prev /\ node # 2
      /\ next[node].to # node
      /\ \A n \in Chained \ {prev} : next[n].to # node
  BY <1>1, <1>2, OneBefore
<1>4. /\ next' \in [Nodes -> Links]
      /\ next'[prev] = next[node]
      /\ \A n \in Nodes \ {prev} : next'[n] = next[n]
  BY <1>1, <1>3
<1> HIDE DEF node
<1>5. Reachable' = Reachable \ {node}
  <2> DEFINE after == next'
  <2>1. /\ prev \in ReachableBy(next) /\ node \in Nodes /\ node # First
        /\ node # prev /\ after[prev].to = next[node].to
    BY <1>1, <1>3, <1>4 DEF Reachable
  <2>2. /\ \A n \in ReachableBy(next) : next[n].to = node <=> n = prev
        /\ \A n \in ReachableBy(next) \ {prev} : after[n].to = next[n].to
    <3> SUFFICES ASSUME NEW n \in Reachable \ {prev}
                 PROVE  next'[n].to = next[n].to /\ next[n].to # node
      BY DEF Reachable, node
    <3>1. n \in Nodes /\ next'[n] = next[n]
      BY <1>1, <1>4
    <3>2. next[n].to # node
      BY <1>1, <1>2, <1>3 DEF Link
    <3>3. QED
      BY <3>1, <3>2
  <2>3. next \in [Nodes -> Links] /\ after \in [Nodes -> Links]
    BY <1>1, <1>4
  <2> HIDE DEF after
  <2>4. ReachableBy(after) = ReachableBy(next) \ {node}
    BY <2>1, <2>2, <2>3, UnlinkReach
  <2>5. QED
    BY <2>4 DEF Reachable, after
<1>6. Chained' = Chained \ {node}
  BY <1>1, <1>5 DEF Chained
<1>7. Beginning'
  <2>1. First # prev /\ Ghost # prev
    BY <1>1
  <2>2. QED
    BY <1>1, <1>4, <2>1 DEF ChainInv, Beginning
<1>8. Sorted'
  <2>1. /\ \A n, m \in Chained : item[n].rank = item[m].rank => n = m
        /\ \A n \in Chained :
             /\ IF next[n].to = NULL THEN ~ next[n].marked
                ELSE item[n].rank < item[next[n].to].rank
             /\ \A m \in Chained : item[n].rank < item[m].rank =>
                  next[n].to # NULL /\ item[next[n].to].rank <= item[m].rank
    BY DEF ChainInv, Sorted
  <2>2. \A n, m \in Chained \ {node} : item'[n].rank = item'[m].rank => n = m
    BY <2>1
  <2>3. ASSUME NEW n \in Chained \ {node}
        PROVE  /\ IF next'[n].to = NULL THEN ~ next'[n].marked
                  ELSE item'[n].rank < item'[next'[n].to].rank
               /\ \A m \in Chained \ {node} : item'[n].rank < item'[m].rank =>
                    next'[n].to # NULL /\ item'[next'[n].to].rank <= item'[m].rank
    <3>1. CASE n # prev
      BY <1>1, <1>4, <2>1, <3>1
    <3>2. CASE n = prev
      <4>1. next'[n] = next[node] /\ item[n].rank < item[node].rank
        BY <1>1, <1>3, <1>4, <2>1, <3>2 DEF node
      <4>2. ASSUME NEW m \in Chained \ {node}, item[n].rank < item[m].rank
            PROVE  item[node].rank < item[m].rank
        <5>1. item[node].rank <= item[m].rank
          BY <2>1, <3>2, <4>2 DEF node
        <5>2. item[node].rank # item[m].rank
          BY <1>3, <2>1, <4>2
        <5>3. QED
          BY <1>1, <1>3, <5>1, <5>2
      <4>3. /\ item[n].rank \in Nat /\ item[node].rank \in Nat
            /\ next[node].to # NULL => item[next[node].to].rank \in Nat
        BY <1>1, <1>3
      <4>4. IF next[node].to = NULL THEN ~ next[node].marked
            ELSE item[node].rank < item[next[node].to].rank
        BY <1>3, <2>1
      <4>5. IF next[node].to = NULL THEN ~ next[node].marked
            ELSE item[n].rank < item[next[node].to].rank
        BY <4>1, <4>3, <4>4
      <4>6. \A m \in Chained \ {node} : item[n].rank < item[m].rank =>
              next[node].to # NULL /\ item[next[node].to].rank <= item[m].rank
        BY <1>3, <2>1, <4>2
      <4>7. QED
        BY <4>1, <4>5, <4>6
    <3>3. QED
      BY <3>1, <3>2
  <2>4. QED
    BY <1>6, <2>2, <2>3 DEF Sorted
<1>9. Live' = Live
  <2>1. ASSUME NEW x, x \in Live PROVE x \in Live'
    <3>1. PICK m \in Reachable : next[m].to = x /\ ~ next[m].marked /\ x # NULL
      BY <2>1, LiveIs
    <3>2. m # prev /\ m \in Nodes
      BY <1>1, <3>1
    <3>3. CASE m = node
      BY <1>1, <1>3, <1>4, <1>5, <3>1, <3>3, LiveIs
    <3>4. CASE m # node
      BY <1>4, <1>5, <3>1, <3>2, <3>4, LiveIs
    <3>5. QED
      BY <3>3, <3>4
  <2>2. ASSUME NEW x, x \in Live' PROVE x \in Live
    <3>1. PICK m \in Reachable' : next'[m].to = x /\ ~ next'[m].marked /\ x # NULL
      BY <2>2, LiveIs
    <3>2. m \in Reachable /\ m # node /\ m \in Nodes
      BY <1>1, <1>5, <3>1
    <3>3. CASE m = prev
      BY <1>1, <1>3, <1>4, <3>1, <3>3, LiveIs
    <3>4. CASE m # prev
      BY <1>4, <3>1, <3>2, <3>4, LiveIs
    <3>5. QED
      BY <3>3, <3>4
  <2>3. QED
    BY <2>1, <2>2
<1>10. Members' = Members
  BY <1>9 DEF Members
<1>11. QED
  BY <1>3, <1>6, <1>7, <1>8, <1>9, <1>10 DEF node

\* A node is linked in where its rank belongs.
LEMMA InsertChain ==
  ASSUME ChainInv, NEW prev \in Chained, ~ next[prev].marked,
         NEW new \in [rank : Ranks, key : Buckets \cup Keys, dummy : BOOLEAN],
         used \in Nodes,
         next' = [next EXCEPT ![used] = next[prev], ![prev] = Link(used, FALSE)],
         item' = [item EXCEPT ![used] = new], used' = used + 1,
         item[prev].rank < new.rank,
         next[prev].to # NULL => new.rank < item[next[prev].to].rank
  PROVE  /\ Chained' = Chained \cup {used}
         /\ used \notin Chained /\ used \notin Live
         /\ Beginning' /\ Sorted'
         /\ Live' = Live \cup {used}
         /\ Members' = IF new.dummy THEN Members ELSE Members \cup {new.key}
<1>1. /\ next \in [Nodes -> Links]
      /\ used \in 3 .. MaxNodes /\ MaxNodes \in Nat
      /\ Reachable = Chained \cup {First, Ghost}
      /\ Chained \subseteq 2 .. used - 1
      /\ Chained \subseteq Nodes
      /\ {First, Ghost, 2} \subseteq Nodes
      /\ First \notin Chained /\ Ghost \notin Chained /\ NULL \notin Nodes
      /\ 2 \in Chained
      /\ \A n \in Chained :
           /\ next[n] \in Links
           /\ item[n].rank \in Nat
           /\ next[n].to \in Chained \cup {NULL}
           /\ next[n].to # n
      /\ item \in [Nodes -> [rank : Ranks, key : Buckets \cup Keys,
                             dummy : BOOLEAN]]
      /\ new.rank \in Nat
  BY ChainFacts, Typed, RankOrder DEF ChainInv, ListInv
<1>2. /\ next[First] = Link(Ghost, FALSE) /\ next[Ghost] = Link(2, FALSE)
      /\ \A n \in {First, Ghost, 2} : item[n] = Item(0, 0, TRUE)
  BY DEF ChainInv, Beginning
<1>3. /\ used \notin Chained /\ used # First /\ used # Ghost /\ used # 2
      /\ used # prev /\ used # NULL /\ prev \in Nodes
  BY <1>1 DEF First, Ghost
<1>4. /\ next' \in [Nodes -> Links]
      /\ next'[used] = next[prev]
      /\ next'[prev] = Link(used, FALSE)
      /\ \A n \in Nodes \ {used, prev} : next'[n] = next[n]
      /\ item'[used] = new
      /\ \A n \in Nodes \ {used} : item'[n] = item[n]
  <2>1. Link(used, FALSE) \in Links
    BY LinkFields DEF Pointers
  <2>2. QED
    BY <1>1, <1>3, <2>1
<1>5. Reachable' = Reachable \cup {used}
  <2> DEFINE after == next'
  <2>1. /\ prev \in ReachableBy(next) /\ used \in Nodes \ ReachableBy(next)
        /\ \A n \in ReachableBy(next) \ {prev} : after[n].to = next[n].to
        /\ after[prev].to = used /\ after[used].to = next[prev].to
    BY <1>1, <1>3, <1>4 DEF Reachable, Link
  <2>2. next \in [Nodes -> Links] /\ after \in [Nodes -> Links]
    BY <1>1, <1>4
  <2> HIDE DEF after
  <2>3. ReachableBy(after) = ReachableBy(next) \cup {used}
    BY <2>1, <2>2, InsertReach
  <2>4. QED
    BY <2>3 DEF Reachable, after
<1>6. Chained' = Chained \cup {used}
  BY <1>1, <1>3, <1>5 DEF Chained
<1>7. Beginning'
  <2>1. First # prev /\ Ghost # prev
    BY <1>1
  <2>2. QED
    BY <1>1, <1>2, <1>3, <1>4, <2>1 DEF Beginning
<1>8. /\ \A n, m \in Chained : item[n].rank = item[m].rank => n = m
      /\ \A n \in Chained :
           /\ IF next[n].to = NULL THEN ~ next[n].marked
              ELSE item[n].rank < item[next[n].to].rank
           /\ \A m \in Chained : item[n].rank < item[m].rank =>
                next[n].to # NULL /\ item[next[n].to].rank <= item[m].rank
  BY DEF ChainInv, Sorted
\* The new rank parts the others.
<1>9. \A m \in Chained :
        /\ item[m].rank # new.rank
        /\ new.rank < item[m].rank => item[prev].rank < item[m].rank
        /\ item[m].rank < new.rank => item[m].rank <= item[prev].rank
  <2> SUFFICES ASSUME NEW m \in Chained
               PROVE  /\ item[m].rank # new.rank
                      /\ new.rank < item[m].rank => item[prev].rank < item[m].rank
                      /\ item[m].rank < new.rank => item[m].rank <= item[prev].rank
    OBVIOUS
  <2>1. item[prev].rank < item[m].rank =>
          next[prev].to # NULL /\ item[next[prev].to].rank <= item[m].rank
    BY <1>8
  <2>2. item[m].rank \in Nat /\ item[prev].rank \in Nat
        /\ (next[prev].to # NULL => item[next[prev].to].rank \in Nat)
    BY <1>1
  <2>3. QED
    BY <1>1, <2>1, <2>2
<1>10. Sorted'
  <2>1. \A n, m \in Chained \cup {used} : item'[n].rank = item'[m].rank => n = m
    <3>1. \A n \in Chained : item'[n] = item[n]
      BY <1>1, <1>3, <1>4
    <3>2. QED
      BY <1>4, <1>8, <1>9, <3>1
  <2>2. ASSUME NEW n \in Chained \cup {used}
        PROVE  /\ IF next'[n].to = NULL THEN ~ next'[n].marked
                  ELSE item'[n].rank < item'[next'[n].to].rank
               /\ \A m \in Chained \cup {used} : item'[n].rank < item'[m].rank =>
                    next'[n].to # NULL /\ item'[next'[n].to].rank <= item'[m].rank
    <3>0. \A m \in Chained : item'[m] = item[m] /\ item[m].rank \in Nat
      BY <1>1, <1>3, <1>4
    <3>1. CASE n = used
      <4>1. next'[n] = next[prev] /\ item'[n] = new
        BY <1>4, <3>1
      <4>2. IF next[prev].to = NULL THEN ~ next[prev].marked
            ELSE /\ new.rank < item[next[prev].to].rank
                 /\ next[prev].to \in Chained
        BY <1>1
      <4>3. ASSUME NEW m \in Chained, new.rank < item[m].rank
            PROVE  next[prev].to # NULL /\ item[next[prev].to].rank <= item[m].rank
        BY <1>8, <1>9, <4>3
      <4>4. ~ (new.rank < new.rank)
        BY <1>1
      <4>5. QED
        BY <1>4, <3>0, <4>1, <4>2, <4>3, <4>4
    <3>2. CASE n = prev
      <4>1. next'[n].to = used /\ item'[n] = item[prev]
        BY <1>4, <3>0, <3>2 DEF Link
      <4>2. ASSUME NEW m \in Chained, item[prev].rank < item[m].rank
            PROVE  new.rank <= item[m].rank
        BY <1>1, <1>9, <3>0, <4>2
      <4>3. new.rank <= new.rank /\ used # NULL /\ item'[used] = new
        BY <1>1, <1>3, <1>4
      <4>4. \A m \in Chained \cup {used} : item'[n].rank < item'[m].rank =>
              new.rank <= item'[m].rank
        BY <3>0, <4>1, <4>2, <4>3
      <4>5. QED
        BY <4>1, <4>3, <4>4
    <3>3. CASE n \in Chained \ {prev}
      <4>1. next'[n] = next[n] /\ item'[n] = item[n]
        BY <1>1, <1>3, <1>4, <3>0, <3>3
      <4>2. next[n].to # NULL => next[n].to \in Chained
        BY <1>1, <3>3
      <4>3. ASSUME item[n].rank < new.rank
            PROVE  next[n].to # NULL /\ item[next[n].to].rank <= new.rank
        <5>1. item[n].rank <= item[prev].rank /\ item[n].rank # item[prev].rank
          BY <1>8, <1>9, <3>3, <4>3
        <5>2. item[n].rank < item[prev].rank
          BY <3>0, <3>3, <5>1
        <5>3. next[n].to # NULL /\ item[next[n].to].rank <= item[prev].rank
          BY <1>8, <3>3, <5>2
        <5>4. /\ item[next[n].to].rank \in Nat /\ item[prev].rank \in Nat
              /\ new.rank \in Nat
          BY <1>1, <3>0, <4>2, <5>3
        <5>5. QED
          BY <5>3, <5>4
      <4>4. QED
        BY <1>4, <1>8, <3>0, <3>3, <4>1, <4>2, <4>3
    <3>4. QED
      BY <3>1, <3>2, <3>3
  <2>3. QED
    BY <1>6, <2>1, <2>2 DEF Sorted
<1>11. Live' = Live \cup {used} /\ used \notin Live
  <2>1. /\ \A m \in Reachable : next[m].to # used /\ m # used /\ m \in Nodes
        /\ prev \in Reachable
    BY <1>1, <1>2, <1>3 DEF Link
  <2>2. ASSUME NEW x, x \in Live PROVE x \in Live' /\ x # used
    <3>1. PICK m \in Reachable : next[m].to = x /\ ~ next[m].marked /\ x # NULL
      BY <2>2, LiveIs
    <3>2. x # used /\ m \in Reachable' /\ used \in Reachable'
      BY <1>5, <2>1, <3>1
    <3>3. m = prev => next'[used].to = x /\ ~ next'[used].marked
      BY <1>4, <3>1
    <3>4. m # prev => next'[m] = next[m]
      BY <1>4, <2>1, <3>1
    <3>5. QED
      BY <3>1, <3>2, <3>3, <3>4, LiveIs
  <2>3. used \in Live'
    BY <1>1, <1>3, <1>4, <1>5, LiveIs DEF Link
  <2>4. ASSUME NEW x, x \in Live' PROVE x \in Live \cup {used}
    <3>1. PICK m \in Reachable' : next'[m].to = x /\ ~ next'[m].marked /\ x # NULL
      BY <2>4, LiveIs
    <3>2. CASE m = prev
      BY <1>4, <3>1, <3>2 DEF Link
    <3>3. CASE m = used
      <4>1. next[prev].to = x /\ ~ next[prev].marked
        BY <1>4, <3>1, <3>3
      <4>2. QED
        BY <2>1, <3>1, <4>1, LiveIs
    <3>4. CASE m # prev /\ m # used
      <4>1. m \in Reachable /\ next'[m] = next[m]
        BY <1>4, <1>5, <2>1, <3>1, <3>4
      <4>2. QED
        BY <3>1, <4>1, LiveIs
    <3>5. QED
      BY <3>2, <3>3, <3>4
  <2>5. QED
    BY <2>2, <2>3, <2>4
<1>12. Members' = IF new.dummy THEN Members ELSE Members \cup {new.key}
  <2>1. \A n \in Live : item'[n] = item[n]
    <3>1. Live \subseteq Nodes
      <4>1. \A m \in Reachable : next[m].to \in Nodes \cup {NULL}
        <5>1. next[First].to \in Nodes /\ next[Ghost].to \in Nodes
          BY <1>1, <1>2 DEF Link
        <5>2. \A m \in Chained : next[m].to \in Nodes \cup {NULL}
          BY <1>1
        <5>3. QED
          BY <1>1, <5>1, <5>2
      <4>2. QED
        BY <4>1, LiveIs
    <3>2. QED
      BY <1>4, <1>11, <3>1
  <2>2. \A k : k \in Members' <=>
          (k \in Members \/ (~ new.dummy /\ new.key = k))
    BY <1>4, <1>11, <2>1, LiveIs
  <2>3. QED
    BY <2>2
<1>13. QED
  BY <1>3, <1>6, <1>7, <1>10, <1>11, <1>12

\* The node of a key is deleted: its key is not held any more.
LEMMA MarkChain ==
  ASSUME ChainInv, Labelled, NEW k \in Keys, NEW prev \in Chained, Holds(prev, k),
         next' = [next EXCEPT ![prev].marked = TRUE], item' = item, used' = used
  PROVE  /\ Chained' = Chained
         /\ Beginning' /\ Sorted'
         /\ next[prev].to \in Live /\ Live' = Live \ {next[prev].to}
         /\ k \in Members /\ Members' = Members \ {k}
<1> DEFINE node == next[prev].to
<1>1. /\ next \in [Nodes -> Links]
      /\ Reachable = Chained \cup {First, Ghost}
      /\ Chained \subseteq Nodes
      /\ {First, Ghost, 2} \subseteq Nodes
      /\ First \notin Chained /\ Ghost \notin Chained /\ NULL \notin Nodes
      /\ \A n \in Chained :
           /\ next[n] \in Links
           /\ next[n].to \in Chained \cup {NULL}
  BY ChainFacts
<1>2. /\ next[First] = Link(Ghost, FALSE) /\ next[Ghost] = Link(2, FALSE)
      /\ item[2].dummy /\ item[Ghost].dummy
  BY DEF ChainInv, Beginning, Item
<1>3. /\ node \in Chained /\ ~ item[node].dummy /\ item[node].rank = HighRank[k]
      /\ ~ next[prev].marked
      /\ node # 2 /\ node # Ghost
      /\ \A n \in Reachable \ {prev} : next[n].to # node
  <2>1. /\ node \in Chained /\ ~ item[node].dummy /\ item[node].rank = HighRank[k]
        /\ ~ next[prev].marked /\ node # NULL
    BY <1>1 DEF Holds
  <2>2. \A n \in Chained \ {prev} : next[n].to # node
    BY <2>1, OneBefore
  <2>3. QED
    BY <1>1, <1>2, <2>1, <2>2 DEF Link
<1>4. /\ next' \in [Nodes -> Links]
      /\ next'[prev].marked
      /\ \A n \in Nodes : next'[n].to = next[n].to
      /\ \A n \in Nodes \ {prev} : next'[n] = next[n]
  <2>1. [next[prev] EXCEPT !.marked = TRUE] \in Links
    BY <1>1, LinkFields
  <2>2. QED
    BY <1>1, <2>1 DEF Links
<1> HIDE DEF node
<1>5. Reachable' = Reachable
  <2> DEFINE after == next'
  <2>1. /\ next \in [Nodes -> Links] /\ after \in [Nodes -> Links]
        /\ \A n \in ReachableBy(next) : after[n].to = next[n].to
    BY <1>1, <1>4 DEF Reachable
  <2> HIDE DEF after
  <2>2. ReachableBy(after) = ReachableBy(next)
    BY <2>1, SameReach
  <2>3. QED
    BY <2>2 DEF Reachable, after
<1>6. Chained' = Chained
  BY <1>5 DEF Chained
<1>7. Beginning'
  <2>1. First # prev /\ Ghost # prev
    BY <1>1
  <2>2. QED
    BY <1>1, <1>4, <2>1 DEF ChainInv, Beginning
<1>8. Sorted'
  <2>1. /\ \A n, m \in Chained : item[n].rank = item[m].rank => n = m
        /\ \A n \in Chained :
             /\ IF next[n].to = NULL THEN ~ next[n].marked
                ELSE item[n].rank < item[next[n].to].rank
             /\ \A m \in Chained : item[n].rank < item[m].rank =>
                  next[n].to # NULL /\ item[next[n].to].rank <= item[m].rank
    BY DEF ChainInv, Sorted
  <2>2. \A n \in Chained : next'[n].to = next[n].to
                           /\ (next'[n].to = NULL => ~ next'[n].marked)
    BY <1>1, <1>3, <1>4, <2>1 DEF node
  <2>3. QED
    BY <1>6, <2>1, <2>2 DEF Sorted
<1>9. node \in Live /\ Live' = Live \ {node}
  <2>0. prev \in Reachable /\ node \in Live
    BY <1>1, <1>3, LiveIs DEF node
  <2>1. ASSUME NEW x, x \in Live, x # node PROVE x \in Live'
    <3>1. PICK m \in Reachable : next[m].to = x /\ ~ next[m].marked /\ x # NULL
      BY <2>1, LiveIs
    <3>2. m # prev /\ m \in Nodes
      BY <1>1, <2>1, <3>1 DEF node
    <3>3. QED
      BY <1>4, <1>5, <3>1, <3>2, LiveIs
  <2>2. ASSUME NEW x, x \in Live' PROVE x \in Live /\ x # node
    <3>1. PICK m \in Reachable : next'[m].to = x /\ ~ next'[m].marked /\ x # NULL
      BY <1>5, <2>2, LiveIs
    <3>2. m # prev /\ m \in Nodes
      BY <1>1, <1>4, <3>1
    <3>3. next'[m] = next[m] /\ next[m].to # node
      BY <1>3, <1>4, <3>1, <3>2
    <3>4. QED
      BY <3>1, <3>3, LiveIs
  <2>3. QED
    BY <2>0, <2>1, <2>2
<1>10. k \in Members /\ Members' = Members \ {k}
  <2>1. \A n \in Live : ~ item[n].dummy => n \in Chained
    <3>1. \A n \in Live : n \in {Ghost, 2} \cup Chained
      BY <1>1, LiveChained
    <3>2. QED
      BY <1>2, <3>1
  <2>2. item[node].key = k
    BY <1>3, NodeOfKey
  <2>3. \A n \in Live : ~ item[n].dummy /\ item[n].key = k => n = node
    <3> SUFFICES ASSUME NEW n \in Live, ~ item[n].dummy, item[n].key = k
                 PROVE  n = node
      OBVIOUS
    <3>1. n \in Chained /\ item[n].rank = HighRank[k]
      BY <2>1, NodeOfKey
    <3>2. QED
      BY <1>3, <3>1 DEF ChainInv, Sorted
  <2>4. \A l : l \in Members' <=> l \in Members /\ l # k
    BY <1>9, <2>2, <2>3, LiveIs
  <2>5. k \in Members
    BY <1>3, <1>9, <2>2, LiveIs
  <2>6. QED
    BY <2>4, <2>5
<1>11. QED
  BY <1>6, <1>7, <1>8, <1>9, <1>10 DEF node

-----------------------------------------------------------------------------
\* The first list is one.
LEMMA InitSetInv == Init => SetInv
<1> SUFFICES ASSUME Init PROVE SetInv
  OBVIOUS
<1>1. ListInv /\ Reachable = 0 .. used - 1
  BY InitListInv, FirstList
<1>2. /\ next = [n \in Nodes |-> CASE n = First -> Link(Ghost, FALSE)
                                   [] n = Ghost -> Link(2, FALSE)
                                   [] OTHER     -> Nil]
      /\ used = 3 /\ {0, 1, 2} \subseteq Nodes /\ 0 .. used - 1 = {0, 1, 2}
      /\ 2 .. used - 1 = {2}
      /\ item = [n \in Nodes |-> Item(0, 0, TRUE)]
      /\ NULL \notin Nodes
  BY Constants DEF Init, ListInit
<1>3. /\ next[0] = Link(1, FALSE) /\ next[1] = Link(2, FALSE) /\ next[2] = Nil
      /\ \A n \in {0, 1, 2} : item[n] = Item(0, 0, TRUE)
  BY <1>2 DEF First, Ghost
<1>4. Chained = {2}
  BY <1>1, <1>2 DEF Chained, First, Ghost
<1>5. Beginning
  BY <1>3 DEF Beginning, First, Ghost
<1>6. Labelled
  BY <1>2, <1>3, RankOrder, Constants DEF Labelled, Item
<1>7. Sorted
  <2>1. next[2].to = NULL /\ ~ next[2].marked /\ ~ (item[2].rank < item[2].rank)
    BY <1>3 DEF Nil, Link, Item
  <2>2. QED
    BY <1>4, <2>1 DEF Sorted
<1>8. Deletion
  BY <1>3, <1>4 DEF Init, Deletion, Nil, Link
<1>9. Anchored
  BY <1>4 DEF Init, Anchored, NoCall
<1>10. Position
  BY DEF Init, ListInit, Position, Placed, SearchPcs
<1>11. Purpose
  BY DEF Init, ListInit, Purpose, Intends, NoCall
<1>12. QED
  BY <1>1, <1>5, <1>6, <1>7, <1>8, <1>9, <1>10, <1>11 DEF SetInv

\* Three steps change the list.
ListChanges(p) == Unlink(p) \/ LinkNode(p) \/ MarkRemoved(p)

LEMMA Stays ==
  ASSUME NEW p \in Threads, TableStep(p) \/ ListStep(p), ~ ListChanges(p)
  PROVE  /\ next' = next /\ item' = item /\ used' = used
         /\ Chained' = Chained /\ Live' = Live /\ Members' = Members
<1>1. next' = next /\ item' = item /\ used' = used
  <2>1. CASE TableStep(p)
    BY <2>1
       DEF TableStep, Insert, FindOrRemove, Return, LoadCurrent, CheckFactor, Grow,
           Publish, FindPath, PassBucket, MissBucket, ClaimBucket, SearchDummy,
           StoreHead, SearchKey, BeginSearch, FindEnds, InsertRefused, InsertGoesOn,
           RemoveRefused, RemoveClaims, LinkFails, CountDummy, CountKey, MarkFails,
           CountRemoved, Count, listVars
  <2>2. CASE ListStep(p)
    BY <2>2
       DEF ListChanges, ListStep, SearchStep, Search, SearchLoad, SearchChanged,
           SearchProtect, Help, SearchAgain, Recheck, Examine, LoadLink, InsertLoad,
           LoadRemoved, RemoveLoad, listVars
  <2>3. QED
    BY <2>1, <2>2
<1>2. Reachable' = Reachable
  BY <1>1 DEF Reachable
<1>3. QED
  BY <1>1, <1>2 DEF Chained, Live, Members
\* With one thread a search is where Position says.
LEMMA UnlinkFacts ==
  ASSUME SetInv, NEW p \in Threads, SearchStep(p), Unlink(p)
  PROVE  LET prev == local[p].prev
             node == next[prev].to
         IN
         /\ prev \in Chained /\ next[prev].marked
         /\ node # NULL /\ node \in Chained /\ ~ item[node].dummy
         /\ next' = [next EXCEPT ![prev] = next[node]]
         /\ item' = item /\ used' = used /\ counter' = counter
         /\ pc[p] = "unlink" /\ pc' = [pc EXCEPT ![p] = "recheck"]
         /\ local' = [local EXCEPT ![p].curr = next[node]]
         /\ local[p].nxt = next[node]
         /\ call' = call /\ bhead' = bhead /\ removed' = removed
         /\ result' = result
<1> DEFINE prev == local[p].prev
           node == next[prev].to
<1>1. pc[p] = "unlink" /\ pc' = [pc EXCEPT ![p] = "recheck"]
  BY DEF Unlink, Goto
<1>2. /\ prev \in Chained /\ next[prev].marked
      /\ local[p].curr = next[prev] /\ local[p].nxt = next[node]
  BY <1>1 DEF SetInv, Position, Placed, SearchPcs
<1>3. node # NULL /\ node \in Chained /\ ~ item[node].dummy
  <2>1. node # NULL
    BY <1>2 DEF SetInv, Sorted
  <2>2. ~ item[node].dummy
    BY <1>2, <2>1 DEF SetInv, Deletion
  <2>3. node \in Chained
    BY <1>2, <2>1, ChainFacts DEF SetInv, ChainInv
  <2>4. QED
    BY <2>1, <2>2, <2>3
<1>4. /\ next' = [next EXCEPT ![prev] = next[node]]
      /\ item' = item /\ used' = used /\ counter' = counter
      /\ local' = [local EXCEPT ![p].curr = next[node]]
      /\ call' = call /\ bhead' = bhead /\ removed' = removed
      /\ result' = result
  BY <1>2 DEF Unlink, SearchStep, tableVars
<1>5. QED
  BY <1>1, <1>2, <1>3, <1>4

\* The head of a bucket, and the parent of one that is made, are dummies.
LEMMA DummyHeads ==
  ASSUME ListInv, Anchored
  PROVE  /\ \A b \in Buckets : bhead[b] # NULL =>
              /\ bhead[b] \in Chained /\ item[bhead[b]].dummy
              /\ item[bhead[b]].rank <= LowRank[b]
         /\ \A p \in Threads : call[p].parent # NULL =>
              call[p].parent \in Chained /\ item[call[p].parent].dummy
  BY DEF ListInv, Heads, Serves, Anchored

LEMMA UnlinkSet ==
  ASSUME SetInv, Alone, NEW p \in Threads, SearchStep(p), Unlink(p)
  PROVE  /\ Beginning' /\ Labelled' /\ Sorted' /\ Deletion' /\ Anchored'
         /\ Position' /\ Purpose'
<1> DEFINE prev == local[p].prev
           node == next[prev].to
<1>1. /\ prev \in Chained /\ next[prev].marked
      /\ node # NULL /\ node \in Chained /\ ~ item[node].dummy
      /\ next' = [next EXCEPT ![prev] = next[node]]
      /\ item' = item /\ used' = used
      /\ pc[p] = "unlink" /\ pc' = [pc EXCEPT ![p] = "recheck"]
      /\ local' = [local EXCEPT ![p].curr = next[node]]
      /\ local[p].nxt = next[node]
      /\ call' = call /\ bhead' = bhead /\ removed' = removed
      /\ result' = result
  BY UnlinkFacts
<1>2. /\ Chained' = Chained \ {node} /\ node # prev
      /\ Beginning' /\ Sorted' /\ Members' = Members
  BY <1>1, UnlinkChain DEF SetInv, ChainInv
<1>3. /\ next \in [Nodes -> Links] /\ Chained \subseteq Nodes
      /\ \A q \in Threads : q = p
      /\ pc \in [Threads -> Pcs] /\ local \in [Threads -> Locals]
  BY ChainFacts, Typed DEF SetInv, ChainInv, ListInv, Alone
<1>4. /\ next'[prev] = next[node]
      /\ \A n \in Chained \ {prev} : next'[n] = next[n]
  BY <1>1, <1>3
<1>5. /\ pc'[p] = "recheck"
      /\ local'[p].start = local[p].start /\ local'[p].prev = prev
      /\ local'[p].strict = local[p].strict /\ local'[p].goal = local[p].goal
      /\ local'[p].curr = next[node] /\ local'[p].nxt = next[node]
  <2>1. local'[p] = [local[p] EXCEPT !.curr = next[node]]
    BY <1>1, <1>3
  <2>2. QED
    BY <1>1, <1>3, <2>1 DEF Locals
<1> HIDE DEF node
<1>6. Labelled'
  BY <1>1 DEF SetInv, Labelled
<1>7. Deletion'
  <2>1. ASSUME NEW n \in Chained, next[n].to # NULL
        PROVE  IF next[n].marked THEN ~ item[next[n].to].dummy
               ELSE next[n].to \notin removed
    BY <1>1, <1>3, <2>1 DEF SetInv, Deletion
  <2>2. \A n \in Chained \ {node} : next'[n] = next[n] \/ next'[n] = next[node]
    BY <1>4
  <2>3. QED
    BY <1>1, <1>2, <2>1, <2>2 DEF SetInv, Deletion
<1>8. Anchored'
  <2>1. \A b \in Buckets : bhead'[b] # NULL => bhead'[b] \in Chained'
    BY <1>1, <1>2, DummyHeads DEF SetInv
  <2>2. \A q \in Threads : call'[q].parent # NULL =>
          call'[q].parent \in Chained' /\ item'[call'[q].parent].dummy
    BY <1>1, <1>2, DummyHeads DEF SetInv
  <2>3. \A q \in Threads : pc'[q] \notin {"count", "store"}
    BY <1>3, <1>5
  <2>4. QED
    BY <2>1, <2>2, <2>3 DEF Anchored
<1>9. Position'
  <2>1. /\ local[p].start \in Chained /\ item[local[p].start].dummy
        /\ ~ Stops(p, local[p].start) /\ ~ Stops(p, prev)
        /\ local[p].strict = (call[p].making # 0 \/ call[p].aim = "insert")
        /\ local[p].goal = IF call[p].making # 0 THEN LowRank[call[p].making]
                           ELSE IF call[p].aim = "insert" THEN LowRank[call[p].key]
                           ELSE HighRank[call[p].key]
    BY <1>1 DEF SetInv, Position, Placed, SearchPcs
  <2>2. Placed(p)'
    BY <1>1, <1>2, <1>4, <1>5, <2>1 DEF Placed, Stops
  <2>3. QED
    BY <1>3, <2>2 DEF Position
<1>10. Purpose'
  <2>1. Intends(p)'
    BY <1>1, <1>2, <1>5 DEF SetInv, Purpose, Intends
  <2>2. QED
    BY <1>1, <1>3, <2>1 DEF SetInv, Purpose
<1>11. QED
  BY <1>2, <1>6, <1>7, <1>8, <1>9, <1>10

LEMMA MarkFacts ==
  ASSUME SetInv, NEW p \in Threads, MarkRemoved(p)
  PROVE  LET prev == local[p].prev
             node == next[prev].to
             k    == call[p].key
         IN
         /\ prev \in Chained /\ k \in Keys /\ Holds(prev, k)
         /\ next' = [next EXCEPT ![prev].marked = TRUE]
         /\ item' = item /\ used' = used /\ counter' = counter
         /\ pc[p] = "mark" /\ pc' = [pc EXCEPT ![p] = "uncount"]
         /\ local[p].curr.to = node
         /\ call[p].making = 0 /\ call[p].aim = "remove" /\ call[p].op = "remove"
         /\ local' = local /\ call' = call /\ bhead' = bhead
         /\ removed' = removed /\ result' = result
<1>1. pc[p] = "mark"
  BY DEF MarkRemoved, RemoveMark, Goto
<1>2. call[p].key \in Keys
  BY <1>1 DEF SetInv, ListInv, IInv, Followed
<1>3. /\ local[p].prev \in Chained /\ Holds(local[p].prev, call[p].key)
      /\ local[p].curr = next[local[p].prev]
  BY <1>1 DEF SetInv, Position, Placed, SearchPcs, Holds
<1>4. call[p].making = 0 /\ call[p].aim = "remove" /\ call[p].op = "remove"
  BY <1>1 DEF SetInv, Purpose, Intends
<1>5. QED
  BY <1>1, <1>2, <1>3, <1>4 DEF MarkRemoved, RemoveMark, Goto, tableVars

LEMMA MarkSet ==
  ASSUME SetInv, Alone, NEW p \in Threads, MarkRemoved(p)
  PROVE  /\ Beginning' /\ Labelled' /\ Sorted' /\ Deletion' /\ Anchored'
         /\ Position' /\ Purpose'
         /\ next[local[p].prev].to \in Live \ {Ghost}
         /\ Live' = Live \ {next[local[p].prev].to}
         /\ call[p].key \in Members /\ Members' = Members \ {call[p].key}
<1> DEFINE prev == local[p].prev
           node == next[prev].to
           k    == call[p].key
<1>1. /\ prev \in Chained /\ k \in Keys /\ Holds(prev, k)
      /\ next' = [next EXCEPT ![prev].marked = TRUE]
      /\ item' = item /\ used' = used
      /\ pc[p] = "mark" /\ pc' = [pc EXCEPT ![p] = "uncount"]
      /\ local[p].curr.to = node
      /\ call[p].making = 0 /\ call[p].aim = "remove" /\ call[p].op = "remove"
      /\ local' = local /\ call' = call /\ bhead' = bhead
      /\ removed' = removed /\ result' = result
  BY MarkFacts
<1> HIDE DEF k
<1>2. /\ Chained' = Chained /\ Beginning' /\ Sorted'
      /\ k \in Members /\ Members' = Members \ {k}
      /\ node \in Live /\ Live' = Live \ {node}
  BY <1>1, MarkChain DEF SetInv, ChainInv
<1>3. /\ next \in [Nodes -> Links] /\ Chained \subseteq Nodes
      /\ \A q \in Threads : q = p
      /\ pc \in [Threads -> Pcs] /\ pc'[p] = "uncount"
  BY <1>1, ChainFacts, Typed DEF SetInv, ChainInv, ListInv, Alone
<1>4. /\ \A n \in Chained : next'[n].to = next[n].to
      /\ \A n \in Chained \ {prev} : next'[n] = next[n]
      /\ next'[prev].marked
  <2>1. \A n \in Nodes : next[n] \in [to : Pointers, marked : BOOLEAN]
    BY <1>3 DEF Links, Pointers
  <2>2. QED
    BY <1>1, <1>3, <2>1
<1>5. Labelled'
  BY <1>1 DEF SetInv, Labelled
<1>6. Deletion'
  <2>1. removed \subseteq 0 .. used - 1
    BY DEF SetInv, Deletion
  <2>2. ASSUME NEW n \in Chained, next[n].to # NULL, n # prev
        PROVE  IF next[n].marked THEN ~ item[next[n].to].dummy
               ELSE next[n].to \notin removed
    <3>1. next[n].to # node
      BY <1>1, <2>2, OneBefore DEF SetInv, ChainInv
    <3>2. QED
      BY <1>1, <1>3, <2>2, <3>1 DEF SetInv, Deletion
  <2>3. ~ item[node].dummy
    BY <1>1 DEF Holds
  <2>4. QED
    BY <1>1, <1>2, <1>4, <2>1, <2>2, <2>3 DEF Deletion
<1>7. Anchored'
  BY <1>1, <1>2, <1>3 DEF SetInv, Anchored
<1>8. Position'
  BY <1>3 DEF Position, Placed, SearchPcs
<1>9. Purpose'
  <2>1. Intends(p)'
    BY <1>1, <1>2, <1>3 DEF SetInv, Purpose, Intends
  <2>2. QED
    BY <1>1, <1>3, <2>1 DEF SetInv, Purpose
<1>10. node # Ghost
  BY <1>1 DEF Holds, SetInv, Beginning, Item
<1>11. QED
  BY <1>2, <1>5, <1>6, <1>7, <1>8, <1>9, <1>10 DEF k

\* A node is linked in between the one before its place and the one behind.
LEMMA LinkFacts ==
  ASSUME SetInv, NEW p \in Threads, LinkNode(p)
  PROVE  LET prev == local[p].prev
             b    == call[p].making
             k    == call[p].key
             new  == IF b # 0 THEN Item(LowRank[b], b, TRUE)
                     ELSE Item(HighRank[k], k, FALSE)
         IN
         /\ prev \in Chained /\ ~ next[prev].marked
         /\ k \in Keys /\ b \in Buckets
         /\ new \in [rank : Ranks, key : Buckets \cup Keys, dummy : BOOLEAN]
         /\ used \in Nodes
         /\ next' = [next EXCEPT ![used] = next[prev], ![prev] = Link(used, FALSE)]
         /\ item' = [item EXCEPT ![used] = new]
         /\ used' = used + 1 /\ counter' = counter
         /\ item[prev].rank < new.rank
         /\ next[prev].to # NULL => new.rank < item[next[prev].to].rank
         /\ pc[p] = "cas" /\ pc' = [pc EXCEPT ![p] = "count"]
         /\ b # 0 \/ (call[p].aim = "insert" /\ call[p].op = "insert" /\ k \notin Members)
         /\ local' = [local EXCEPT ![p].curr = Link(used, FALSE)]
         /\ call' = call /\ bhead' = bhead /\ removed' = removed
         /\ result' = result
<1> DEFINE prev == local[p].prev
           b    == call[p].making
           k    == call[p].key
           new  == IF b # 0 THEN Item(LowRank[b], b, TRUE)
                   ELSE Item(HighRank[k], k, FALSE)
<1>1. /\ pc[p] = "cas" /\ pc' = [pc EXCEPT ![p] = "count"]
      /\ used < MaxNodes
      /\ item' = [item EXCEPT ![used] = new]
      /\ next' = [next EXCEPT ![used] = local[p].nxt, ![prev] = Link(used, FALSE)]
      /\ used' = used + 1 /\ counter' = counter
      /\ local' = [local EXCEPT ![p].curr = Link(used, FALSE)]
      /\ call' = call /\ bhead' = bhead /\ removed' = removed
      /\ result' = result
  BY DEF LinkNode, InsertLink, Goto, tableVars
<1>2. /\ prev \in Chained /\ ~ next[prev].marked /\ local[p].nxt = next[prev]
      /\ ~ Stops(p, prev) /\ (next[prev].to = NULL \/ Stops(p, next[prev].to))
      /\ local[p].strict = (call[p].making # 0 \/ call[p].aim = "insert")
      /\ local[p].goal = IF call[p].making # 0 THEN LowRank[call[p].making]
                         ELSE IF call[p].aim = "insert" THEN LowRank[call[p].key]
                         ELSE HighRank[call[p].key]
  BY <1>1 DEF SetInv, Position, Placed, SearchPcs
<1>3. /\ b # 0 \/ call[p].aim = "insert"
      /\ call[p].aim = "insert" => k \notin Members /\ call[p].op = "insert"
  BY <1>1 DEF SetInv, Purpose, Intends
<1>4. /\ k \in Keys /\ b \in Buckets /\ used \in Nodes /\ used \in Int
      /\ new \in [rank : Ranks, key : Buckets \cup Keys, dummy : BOOLEAN]
  <2>1. k \in Keys
    BY <1>1 DEF SetInv, ListInv, IInv, Followed
  <2>2. b \in Buckets /\ used \in 3 .. MaxNodes
    BY Typed DEF SetInv, ListInv
  <2>3. used \in Nodes /\ used \in Int
    BY <1>1, <2>2, Constants
  <2>4. QED
    BY <2>1, <2>2, <2>3, Constants DEF Item
<1>5. /\ item[prev].rank \in Nat
      /\ next[prev].to # NULL =>
           next[prev].to \in Chained /\ item[next[prev].to].rank \in Nat
      /\ prev \in 2 .. used - 1
  <2>1. /\ \A n \in Chained : next[n].to \in Chained \cup {NULL}
                              /\ item[n].rank \in Nat
        /\ Chained \subseteq 2 .. used - 1
    BY ChainFacts DEF SetInv, ChainInv
  <2>2. QED
    BY <1>2, <2>1
<1>6. CASE b # 0
  <2>1. new.rank = LowRank[b] /\ LowRank[b] \in Int
    BY <1>4, <1>6, Ranked DEF Item
  <2>2. local[p].strict /\ local[p].goal = LowRank[b]
    BY <1>2, <1>6
  <2>3. item[prev].rank <= LowRank[b]
    BY <1>2, <1>5, <2>1, <2>2 DEF Stops
  \* No node has the rank of the dummy: its bucket would have one already.
  <2>4. item[prev].rank # LowRank[b]
    <3> SUFFICES ASSUME item[prev].rank = LowRank[b] PROVE FALSE
      OBVIOUS
    <3>1. IF item[prev].dummy
          THEN item[prev].key \in Buckets /\ item[prev].rank = LowRank[item[prev].key]
          ELSE item[prev].key \in Keys /\ item[prev].rank = HighRank[item[prev].key]
      BY <1>5 DEF SetInv, Labelled
    <3>2. item[prev].dummy /\ item[prev].key = b
      BY <1>4, <3>1, RankOrder
    <3>3. IsDummy(prev, b)
      BY <1>5, <3>2 DEF IsDummy
    <3>4. prev \in Nodes
      BY <1>2, ChainFacts DEF SetInv, ChainInv
    <3>5. QED
      BY <1>1, <1>4, <1>6, <3>3, <3>4 DEF SetInv, ListInv, IInv, Dummies
  <2>5. next[prev].to # NULL => LowRank[b] < item[next[prev].to].rank
    BY <1>2, <2>2 DEF Stops
  <2>6. item[prev].rank < LowRank[b]
    BY <1>5, <2>1, <2>3, <2>4
  <2>7. QED
    BY <1>1, <1>2, <1>3, <1>4, <1>6, <2>1, <2>5, <2>6
<1>7. CASE b = 0
  <2>1. /\ new.rank = HighRank[k] /\ LowRank[k] \in Int /\ HighRank[k] \in Int
        /\ k \notin Members /\ call[p].aim = "insert" /\ call[p].op = "insert"
    BY <1>3, <1>4, <1>7, Ranked DEF Item
  <2>2. local[p].strict /\ local[p].goal = LowRank[k]
    BY <1>2, <1>7, <2>1
  <2>3. item[prev].rank < HighRank[k]
    <3>1. item[prev].rank <= LowRank[k]
      BY <1>2, <1>5, <2>1, <2>2 DEF Stops
    <3>2. LowRank[k] < HighRank[k]
      BY <1>4, RankOrder
    <3>3. QED
      BY <1>5, <2>1, <3>1, <3>2
  \* No node has the rank of the key: the key would be there.
  <2>4. ASSUME next[prev].to # NULL
        PROVE  HighRank[k] < item[next[prev].to].rank
    <3>1. HighRank[k] <= item[next[prev].to].rank
      <4>1. LowRank[k] < item[next[prev].to].rank
        BY <1>2, <2>2, <2>4 DEF Stops
      <4>2. item[next[prev].to].rank \in Ranks
        BY <1>5, <2>4, ChainFacts, Typed DEF SetInv, ChainInv, ListInv
      <4>3. QED
        BY <1>4, <4>1, <4>2, RankOrder
    <3>2. item[next[prev].to].rank # HighRank[k]
      <4> SUFFICES ASSUME item[next[prev].to].rank = HighRank[k] PROVE FALSE
        OBVIOUS
      <4>1. ~ item[next[prev].to].dummy
        BY <1>4, <1>5, <2>4, NodeOfKey DEF SetInv, ChainInv
      <4>2. Holds(prev, k)
        BY <1>2, <2>4, <4>1 DEF Holds
      <4>3. k \in Members
        BY <1>2, <1>4, <4>2, MemberHeld DEF SetInv, ChainInv
      <4>4. QED
        BY <2>1, <4>3
    <3>3. QED
      BY <1>5, <2>1, <2>4, <3>1, <3>2
  <2>5. QED
    BY <1>1, <1>2, <1>3, <1>4, <1>7, <2>1, <2>3, <2>4
<1>8. QED
  BY <1>6, <1>7

LEMMA LinkSet ==
  ASSUME SetInv, Alone, NEW p \in Threads, LinkNode(p)
  PROVE  /\ Beginning' /\ Labelled' /\ Sorted' /\ Deletion' /\ Anchored'
         /\ Position' /\ Purpose'
         /\ Live' = Live \cup {used} /\ used \notin Live
         /\ Members' = IF call[p].making # 0 THEN Members
                       ELSE Members \cup {call[p].key}
<1> DEFINE prev == local[p].prev
           b    == call[p].making
           k    == call[p].key
           new  == IF b # 0 THEN Item(LowRank[b], b, TRUE)
                   ELSE Item(HighRank[k], k, FALSE)
<1>1. /\ prev \in Chained /\ ~ next[prev].marked
      /\ k \in Keys /\ b \in Buckets
      /\ new \in [rank : Ranks, key : Buckets \cup Keys, dummy : BOOLEAN]
      /\ used \in Nodes
      /\ next' = [next EXCEPT ![used] = next[prev], ![prev] = Link(used, FALSE)]
      /\ item' = [item EXCEPT ![used] = new]
      /\ used' = used + 1
      /\ item[prev].rank < new.rank
      /\ next[prev].to # NULL => new.rank < item[next[prev].to].rank
      /\ pc[p] = "cas" /\ pc' = [pc EXCEPT ![p] = "count"]
      /\ b # 0 \/ (call[p].aim = "insert" /\ call[p].op = "insert" /\ k \notin Members)
      /\ local' = [local EXCEPT ![p].curr = Link(used, FALSE)]
      /\ call' = call /\ bhead' = bhead /\ removed' = removed
      /\ result' = result
  BY LinkFacts
<1>2. new = IF b # 0 THEN Item(LowRank[b], b, TRUE) ELSE Item(HighRank[k], k, FALSE)
  OBVIOUS
<1> HIDE DEF new
<1>3. /\ Chained' = Chained \cup {used} /\ used \notin Chained
      /\ Beginning' /\ Sorted'
      /\ Live' = Live \cup {used} /\ used \notin Live
      /\ Members' = IF new.dummy THEN Members ELSE Members \cup {new.key}
  BY <1>1, InsertChain DEF SetInv, ChainInv
<1>4. /\ next \in [Nodes -> Links] /\ Chained \subseteq 2 .. used - 1
      /\ Chained \subseteq Nodes /\ 0 .. used - 1 \subseteq Nodes
      /\ used \in 3 .. MaxNodes /\ MaxNodes \in Nat
      /\ \A n \in Chained : next[n].to \in Chained \cup {NULL}
      /\ \A q \in Threads : q = p
      /\ pc \in [Threads -> Pcs] /\ local \in [Threads -> Locals]
      /\ item \in [Nodes -> [rank : Ranks, key : Buckets \cup Keys,
                             dummy : BOOLEAN]]
  BY ChainFacts, Typed, Constants DEF SetInv, ChainInv, ListInv, Alone
<1>5. /\ next'[used] = next[prev] /\ next'[prev] = Link(used, FALSE)
      /\ \A n \in Chained \ {prev} : next'[n] = next[n]
      /\ item'[used] = new
      /\ \A n \in Nodes \ {used} : item'[n] = item[n]
      /\ used # prev
  BY <1>1, <1>3, <1>4
<1>6. pc'[p] = "count" /\ local'[p].curr.to = used
  <2>1. local'[p] = [local[p] EXCEPT !.curr = Link(used, FALSE)]
    BY <1>1, <1>4
  <2>2. QED
    BY <1>1, <1>4, <2>1 DEF Locals, Link
<1>7. Labelled'
  <2>1. \A n \in 2 .. used' - 1 : n = used \/ (n \in 2 .. used - 1 /\ n # used /\ n \in Nodes)
    <3>1. used \in Int /\ used' = used + 1 /\ 0 .. used - 1 \subseteq Nodes
      BY <1>1, <1>4
    <3>2. \A n \in 2 .. used' - 1 : n = used \/ (n \in 2 .. used - 1 /\ n # used)
      BY <3>1
    <3>3. 2 .. used - 1 \subseteq Nodes
      BY <3>1
    <3>4. QED
      BY <3>2, <3>3
  <2>2. IF new.dummy THEN new.key \in Buckets /\ new.rank = LowRank[new.key]
        ELSE new.key \in Keys /\ new.rank = HighRank[new.key]
    BY <1>1, <1>2 DEF Item
  <2>3. QED
    BY <1>5, <2>1, <2>2 DEF SetInv, Labelled
<1>8. Deletion'
  <2>1. /\ removed' \subseteq 0 .. used' - 1 /\ used \notin removed
        /\ removed' = removed
    BY <1>1, <1>4 DEF SetInv, Deletion
  <2>2. ASSUME NEW n \in Chained, next[n].to # NULL
        PROVE  /\ next[n].to \in Chained /\ item'[next[n].to] = item[next[n].to]
               /\ IF next[n].marked THEN ~ item[next[n].to].dummy
                  ELSE next[n].to \notin removed
    <3>1. next[n].to \in Chained /\ next[n].to # used
      BY <1>3, <1>4, <2>2
    <3>2. item'[next[n].to] = item[next[n].to]
      BY <1>4, <1>5, <3>1
    <3>3. IF next[n].marked THEN ~ item[next[n].to].dummy
          ELSE next[n].to \notin removed
      BY <1>1, <1>4, <2>2 DEF SetInv, Deletion
    <3>4. QED
      BY <3>1, <3>2, <3>3
  <2>3. ASSUME NEW n \in Chained \cup {used}
        PROVE  \/ next'[n].to = used /\ ~ next'[n].marked
               \/ \E m \in Chained : next'[n] = next[m]
    <3>1. CASE n = prev
      BY <1>5, <3>1 DEF Link
    <3>2. CASE n = used
      BY <1>1, <1>5, <3>2
    <3>3. CASE n \in Chained \ {prev}
      BY <1>5, <3>3
    <3>4. QED
      BY <3>1, <3>2, <3>3
  <2>4. ASSUME NEW n \in Chained \cup {used}, next'[n].to # NULL
        PROVE  IF next'[n].marked THEN ~ item'[next'[n].to].dummy
               ELSE next'[n].to \notin removed'
    <3>1. CASE next'[n].to = used /\ ~ next'[n].marked
      BY <2>1, <3>1
    <3>2. ASSUME NEW m \in Chained, next'[n] = next[m]
          PROVE  IF next'[n].marked THEN ~ item'[next'[n].to].dummy
                 ELSE next'[n].to \notin removed'
      <4>1. /\ next[m].to # NULL /\ item'[next[m].to] = item[next[m].to]
            /\ IF next[m].marked THEN ~ item[next[m].to].dummy
               ELSE next[m].to \notin removed
        BY <2>2, <2>4, <3>2
      <4>2. QED
        BY <2>1, <3>2, <4>1
    <3>3. QED
      BY <2>3, <3>1, <3>2
  <2>5. QED
    BY <1>3, <2>1, <2>4 DEF Deletion
<1>9. Anchored'
  <2>1. \A n \in Chained : item'[n] = item[n]
    BY <1>3, <1>4, <1>5
  <2>2. \A c \in Buckets : bhead'[c] # NULL => bhead'[c] \in Chained'
    BY <1>1, <1>3, DummyHeads DEF SetInv
  <2>3. \A q \in Threads : call'[q].parent # NULL =>
          call'[q].parent \in Chained' /\ item'[call'[q].parent].dummy
    BY <1>1, <1>3, <2>1, DummyHeads DEF SetInv
  <2>4. \A q \in Threads : local'[q].curr.to \in Chained'
    BY <1>3, <1>4, <1>6
  <2>5. QED
    BY <2>2, <2>3, <2>4 DEF Anchored
<1>10. Position'
  BY <1>4, <1>6 DEF Position, Placed, SearchPcs
<1>11. Purpose'
  <2>1. b # 0 => Members' = Members
    BY <1>2, <1>3 DEF Item
  <2>2. Intends(p)'
    BY <1>1, <1>6, <2>1 DEF SetInv, Purpose, Intends
  <2>3. QED
    BY <1>1, <1>4, <2>2 DEF SetInv, Purpose
<1>12. Members' = IF b # 0 THEN Members ELSE Members \cup {k}
  BY <1>2, <1>3 DEF Item
<1>13. QED
  BY <1>3, <1>7, <1>8, <1>9, <1>10, <1>11, <1>12

\* No compare-exchange fails, and no search has to start again.
LEMMA Undisturbed ==
  ASSUME SetInv, NEW p \in Threads
  PROVE  ~ SearchChanged(p) /\ ~ SearchAgain(p) /\ ~ LinkFails(p) /\ ~ MarkFails(p)
  BY DEF SetInv, Position, Placed, SearchPcs, SearchChanged, SearchAgain, LinkFails,
         InsertWins, MarkFails, RemoveWins, Goto

\* And a node that stops a removal has not been claimed.
LEMMA Unclaimed ==
  ASSUME SetInv, NEW p \in Threads, pc[p] = "stopped", Alone
  PROVE  local[p].curr.to \notin removed
<1>1. LET link == next[local[p].prev] IN
      /\ local[p].prev \in Chained /\ local[p].curr = link /\ ~ link.marked
      /\ link.to # NULL
  BY DEF SetInv, Position, Placed, SearchPcs, ListInv, IInv, Followed
<1>2. \A q \in Threads : pc[q] = "stopped"
  BY DEF Alone
<1>3. QED
  BY <1>1, <1>2 DEF SetInv, Deletion

\* How a call begins.
LEMMA Begins ==
  ASSUME IInv, NEW p \in Threads, Insert(p) \/ FindOrRemove(p)
  PROVE  \E o \in {"insert", "find", "remove"}, k \in Keys :
           /\ call' = [call EXCEPT ![p] =
                [NoCall EXCEPT !.op = o, !.key = k,
                               !.aim = IF o = "insert" THEN "find" ELSE o]]
           /\ call'[p].op = o /\ call'[p].key = k
           /\ call'[p].aim = IF o = "insert" THEN "find" ELSE o
           /\ call'[p].making = 0 /\ call'[p].parent = NULL
           /\ pc[p] = "idle" /\ pc'[p] \in {"inflate", "path"}
<1>1. call \in [Threads -> Calls] /\ pc \in [Threads -> Pcs]
  BY Typed
<1>2. \E o \in {"insert", "find", "remove"}, k \in Keys :
        call' = [call EXCEPT ![p] =
          [NoCall EXCEPT !.op = o, !.key = k,
                         !.aim = IF o = "insert" THEN "find" ELSE o]]
  <2>1. CASE Insert(p)
    <3>1. PICK k \in Keys : call' = [call EXCEPT ![p] =
            [NoCall EXCEPT !.op = "insert", !.key = k, !.aim = "find"]]
      BY <2>1 DEF Insert
    <3>2. WITNESS "insert" \in {"insert", "find", "remove"}, k \in Keys
    <3>3. QED
      BY <3>1
  <2>2. CASE FindOrRemove(p)
    <3>1. PICK o \in Does[p] \ {"insert"}, k \in Keys : call' = [call EXCEPT ![p] =
            [NoCall EXCEPT !.op = o, !.key = k, !.aim = o]]
      BY <2>2 DEF FindOrRemove
    <3>2. o \in {"insert", "find", "remove"} /\ o # "insert"
      BY <3>1, TableAssumption
    <3>3. QED
      BY <3>1, <3>2
  <2>3. QED
    BY <2>1, <2>2
<1>3. PICK o \in {"insert", "find", "remove"}, k \in Keys :
        call' = [call EXCEPT ![p] =
          [NoCall EXCEPT !.op = o, !.key = k,
                         !.aim = IF o = "insert" THEN "find" ELSE o]]
  BY <1>2
<1>4. call'[p] = [NoCall EXCEPT !.op = o, !.key = k,
                                !.aim = IF o = "insert" THEN "find" ELSE o]
  BY <1>1, <1>3
<1>5. /\ call'[p].op = o /\ call'[p].key = k
      /\ call'[p].aim = IF o = "insert" THEN "find" ELSE o
      /\ call'[p].making = 0 /\ call'[p].parent = NULL
  BY <1>4 DEF NoCall
<1>6. pc[p] = "idle" /\ pc'[p] \in {"inflate", "path"}
  BY <1>1 DEF Insert, FindOrRemove, Goto
<1>7. QED
  BY <1>3, <1>5, <1>6

LEMMA StayDeletion ==
  ASSUME SetInv, Alone, NEW p \in Threads, TableStep(p) \/ ListStep(p),
         ~ ListChanges(p)
  PROVE  Deletion'
<1>1. /\ next' = next /\ item' = item /\ used' = used /\ Chained' = Chained
      /\ \A q \in Threads : q = p
      /\ pc \in [Threads -> Pcs] /\ local \in [Threads -> Locals]
      /\ used \in Int
  BY Stays, Typed DEF SetInv, ListInv, Alone
<1>2. CASE RemoveClaims(p)
  <2>1. /\ removed' = removed \cup {local[p].curr.to}
        /\ pc[p] = "stopped" /\ pc'[p] = "removing" /\ local' = local
    BY <1>1, <1>2 DEF RemoveClaims, Looked, Hit
  <2>2. local[p].curr.to \in 0 .. used - 1
    <3>1. local[p].curr.to # NULL
      BY <2>1 DEF SetInv, ListInv, IInv, Followed
    <3>2. local[p].curr.to \in 1 .. used - 1
      BY <3>1 DEF SetInv, ListInv, Known, Linked
    <3>3. QED
      BY <1>1, <3>2
  <2>3. \A n \in Chained : next[n].to # NULL =>
          IF next[n].marked THEN ~ item[next[n].to].dummy
          ELSE next[n].to \notin removed
    BY <1>1, <2>1 DEF SetInv, Deletion
  <2>4. QED
    BY <1>1, <2>1, <2>2, <2>3 DEF SetInv, Deletion
<1>3. CASE LoadRemoved(p)
  <2>1. removed' = removed /\ pc[p] = "removing" /\ pc'[p] = "mark"
    BY <1>1, <1>3 DEF LoadRemoved, RemoveLoad, Goto, tableVars
  <2>2. local' = [local EXCEPT ![p].nxt = next[local[p].prev]]
    BY <1>3 DEF LoadRemoved, RemoveLoad
  <2>3. local'[p].curr = local[p].curr
    BY <1>1, <2>2 DEF Locals
  <2>4. QED
    BY <1>1, <2>1, <2>3 DEF SetInv, Deletion
<1>4. CASE ~ RemoveClaims(p) /\ ~ LoadRemoved(p)
  <2>1. ~ MarkFails(p) /\ ~ MarkRemoved(p)
    BY Undisturbed DEF ListChanges
  <2>2. removed' = removed /\ pc[p] \notin {"removing", "mark"}
    BY <1>4, <2>1
       DEF ListStep, SearchStep, Search, SearchLoad, SearchChanged, SearchProtect,
           Help, Unlink, SearchAgain, Recheck, Examine, LoadLink, InsertLoad,
           LinkNode, InsertLink,
           TableStep, Insert, FindOrRemove, Return, LoadCurrent, CheckFactor, Grow,
           Publish, FindPath, PassBucket, MissBucket, ClaimBucket, SearchDummy,
           StoreHead, SearchKey, BeginSearch, FindEnds, InsertRefused, InsertGoesOn,
           RemoveRefused, Looked, LinkFails, CountDummy, CountKey, CountRemoved,
           Count, Goto, tableVars
  <2>3. QED
    BY <1>1, <2>2 DEF SetInv, Deletion
<1>5. QED
  BY <1>2, <1>3, <1>4

LEMMA StayAnchored ==
  ASSUME SetInv, Alone, NEW p \in Threads, TableStep(p) \/ ListStep(p),
         ~ ListChanges(p)
  PROVE  Anchored'
<1>1. /\ item' = item /\ Chained' = Chained
      /\ \A q \in Threads : q = p
      /\ pc \in [Threads -> Pcs] /\ call \in [Threads -> Calls]
      /\ bhead \in [Buckets -> Pointers]
      /\ call[p].bucket \in Buckets /\ bhead[call[p].bucket] # NULL
      /\ ~ LinkNode(p)
  BY Stays, Typed DEF SetInv, ListInv, IInv, Followed, Alone, ListChanges
<1>2. /\ \A b \in Buckets : bhead[b] # NULL =>
           bhead[b] \in Chained /\ item[bhead[b]].dummy
      /\ call[p].parent # NULL =>
           call[p].parent \in Chained /\ item[call[p].parent].dummy
  BY DummyHeads DEF SetInv
<1>3. \A b \in Buckets : bhead'[b] # NULL => bhead'[b] \in Chained
  <2>1. CASE ClaimBucket(p)
    <3>1. \/ bhead' = bhead
          \/ bhead' = [bhead EXCEPT ![Head(call[p].path)] = call[p].parent]
      BY <2>1 DEF ClaimBucket
    <3>2. call[p].parent # NULL
      BY <2>1 DEF ClaimBucket, SetInv, ListInv, IInv, Followed
    <3>3. QED
      BY <1>1, <1>2, <3>1, <3>2
  <2>2. CASE StoreHead(p)
    <3>1. bhead' = [bhead EXCEPT ![call[p].making] = local[p].curr.to]
          /\ pc[p] = "store"
      BY <2>2 DEF StoreHead, Goto
    <3>2. local[p].curr.to \in Chained
      BY <3>1 DEF SetInv, ListInv, IInv, Makers, Anchored
    <3>3. QED
      BY <1>1, <1>2, <3>1, <3>2
  <2>3. CASE ~ ClaimBucket(p) /\ ~ StoreHead(p)
    <3>1. bhead' = bhead
      BY <2>3
         DEF ListStep, SearchStep, LoadLink, LinkNode, LoadRemoved, MarkRemoved,
             TableStep, Insert, FindOrRemove, Return, LoadCurrent, CheckFactor,
             Grow, Publish, FindPath, PassBucket, MissBucket, SearchDummy,
             SearchKey, FindEnds, InsertRefused, InsertGoesOn, RemoveRefused,
             RemoveClaims, LinkFails, CountDummy, CountKey, MarkFails,
             CountRemoved, tableVars
    <3>2. QED
      BY <1>2, <3>1
  <2>4. QED
    BY <2>1, <2>2, <2>3
<1>4. call'[p].parent = NULL \/ call'[p].parent = call[p].parent
      \/ call'[p].parent = bhead[call[p].bucket]
  <2>1. CASE Insert(p) \/ FindOrRemove(p) \/ Return(p)
    <3>1. CASE Insert(p) \/ FindOrRemove(p)
      BY <3>1, Begins DEF SetInv, ListInv
    <3>2. CASE Return(p)
      BY <1>1, <3>2 DEF Return, NoCall
    <3>3. QED
      BY <2>1, <3>1, <3>2
  <2>2. CASE PassBucket(p) \/ StoreHead(p) \/ ClaimBucket(p)
    BY <1>1, <2>2 DEF PassBucket, StoreHead, ClaimBucket, Passed, Calls
  <2>3. CASE LoadCurrent(p) \/ FindPath(p) \/ MissBucket(p) \/ InsertGoesOn(p)
    <3>1. \/ \E s : call'[p] = [call[p] EXCEPT !.old = s]
          \/ \E s : call'[p] = [call[p] EXCEPT !.path = s]
          \/ call'[p] = [call[p] EXCEPT !.parent = bhead[call[p].bucket]]
          \/ call'[p] = [call[p] EXCEPT !.aim = "insert"]
      BY <1>1, <2>3 DEF LoadCurrent, FindPath, MissBucket, InsertGoesOn
    <3>2. QED
      BY <1>1, <3>1 DEF Calls
  <2>4. CASE call' = call
    BY <2>4
  <2>5. QED
    BY <2>1, <2>2, <2>3, <2>4
       DEF ListStep, SearchStep, LoadLink, LinkNode, LoadRemoved, MarkRemoved,
           TableStep, CheckFactor, Grow, Publish, SearchDummy, SearchKey, FindEnds,
           InsertRefused, RemoveRefused, RemoveClaims, LinkFails, CountDummy,
           CountKey, MarkFails, CountRemoved
<1>5. ASSUME call'[p].making # 0, pc'[p] \in {"count", "store"}
      PROVE  local'[p].curr.to \in Chained
  <2>1. CountDummy(p)
    BY <1>1, <1>5
       DEF ListStep, SearchStep, Search, SearchLoad, SearchChanged, SearchProtect,
           Help, Unlink, SearchAgain, Recheck, Examine, LoadLink, InsertLoad,
           LoadRemoved, RemoveLoad, MarkRemoved, RemoveMark,
           TableStep, Insert, FindOrRemove, Return, LoadCurrent, CheckFactor, Grow,
           Publish, FindPath, PassBucket, MissBucket, ClaimBucket, SearchDummy,
           StoreHead, SearchKey, BeginSearch, FindEnds, InsertRefused, InsertGoesOn,
           RemoveRefused, RemoveClaims, Looked, LinkFails, CountKey, MarkFails,
           CountRemoved, Count, Finish, Goto
  <2>2. pc[p] = "count" /\ call[p].making # 0 /\ local' = local
    BY <2>1 DEF CountDummy, Count, Goto
  <2>3. QED
    BY <2>2 DEF SetInv, Anchored
<1>6. QED
  BY <1>1, <1>2, <1>3, <1>4, <1>5 DEF Anchored

\* A search begins at a dummy before the place it looks for.
LEMMA BeginPlaced ==
  ASSUME SetInv, NEW p \in Threads, SearchDummy(p) \/ SearchKey(p)
  PROVE  Placed(p)'
<1>1. /\ next' = next /\ item' = item /\ Chained' = Chained
      /\ pc'[p] = "search" /\ call' = call
  <2>1. ~ ListChanges(p) /\ TableStep(p)
    BY DEF ListChanges, Unlink, LinkNode, InsertLink, MarkRemoved, RemoveMark,
           SearchDummy, SearchKey, BeginSearch, Goto, TableStep
  <2>2. pc \in [Threads -> Pcs]
    BY Typed DEF SetInv, ListInv
  <2>3. QED
    BY <2>1, <2>2, Stays DEF SearchDummy, SearchKey, BeginSearch, Goto
<1>2. \E n \in Chained :
        /\ item[n].dummy
        /\ local'[p].start = n /\ local'[p].prev = n
        /\ local'[p].strict = (call[p].making # 0 \/ call[p].aim = "insert")
        /\ local'[p].goal = IF call[p].making # 0 THEN LowRank[call[p].making]
                            ELSE IF call[p].aim = "insert" THEN LowRank[call[p].key]
                            ELSE HighRank[call[p].key]
        /\ IF local'[p].strict THEN ~ (local'[p].goal < item[n].rank)
           ELSE ~ (local'[p].goal <= item[n].rank)
  <2>1. /\ local \in [Threads -> Locals]
        /\ \A n \in Chained : item[n].rank \in Nat
        /\ call[p].bucket \in Buckets /\ call[p].making \in Buckets
    BY Typed, ChainFacts DEF SetInv, ListInv, ChainInv
  <2>2. CASE SearchDummy(p)
    <3> DEFINE n == call[p].parent
               b == call[p].making
    <3>1. /\ local' = [local EXCEPT ![p] = [NoLocal EXCEPT
               !.start = n, !.prev = n, !.goal = LowRank[b], !.strict = TRUE]]
          /\ pc[p] = "making"
      BY <2>2 DEF SearchDummy, BeginSearch, Goto
    <3>2. /\ b # 0 /\ n # NULL /\ Serves(n, b)
      BY <3>1 DEF SetInv, ListInv, IInv, Makers, Heads
    <3>3. n \in Chained /\ item[n].dummy
      BY <3>2, DummyHeads DEF SetInv
    <3>4. ~ (LowRank[b] < item[n].rank)
      BY <2>1, <3>2, <3>3, Ranked DEF Serves
    <3>5. /\ local'[p].start = n /\ local'[p].prev = n
          /\ local'[p].goal = LowRank[b] /\ local'[p].strict = TRUE
      BY <2>1, <3>1 DEF NoLocal
    <3>6. QED
      BY <3>2, <3>3, <3>4, <3>5
  <2>3. CASE SearchKey(p)
    <3> DEFINE n == bhead[call[p].bucket]
               k == call[p].key
               goal == IF call[p].aim = "insert" THEN LowRank[k] ELSE HighRank[k]
               strict == call[p].aim = "insert"
    <3>1. /\ local' = [local EXCEPT ![p] = [NoLocal EXCEPT
               !.start = n, !.prev = n, !.goal = goal, !.strict = strict]]
          /\ pc[p] = "bucket" /\ call[p].path = <<>>
      BY <2>3 DEF SearchKey, BeginSearch, Goto
    <3>2. /\ call[p].making = 0 /\ n # NULL /\ k \in Keys
      BY <3>1 DEF SetInv, ListInv, IInv, Makers, MakerPcs, SearchPcs, Followed
    <3>3. n \in Chained /\ item[n].dummy /\ item[n].rank <= LowRank[call[p].bucket]
      BY <2>1, <3>2, DummyHeads DEF SetInv
    <3>4. LowRank[call[p].bucket] <= LowRank[k]
      BY <3>1 DEF SetInv, ListInv, Descent
    <3>5. /\ LowRank[call[p].bucket] \in Int /\ LowRank[k] \in Int
          /\ HighRank[k] \in Int /\ LowRank[k] < HighRank[k]
      BY <2>1, <3>2, Ranked, RankOrder
    <3>6. ~ (LowRank[k] < item[n].rank) /\ ~ (HighRank[k] <= item[n].rank)
      BY <2>1, <3>3, <3>4, <3>5
    <3>7. /\ local'[p].start = n /\ local'[p].prev = n
          /\ local'[p].goal = goal /\ local'[p].strict = strict
      BY <2>1, <3>1 DEF NoLocal
    <3>8. QED
      BY <3>2, <3>3, <3>6, <3>7
  <2>4. QED
    BY <2>2, <2>3
<1>3. QED
  BY <1>1, <1>2 DEF Placed, Stops

\* And stays between what it has passed and what it has not looked at.
LEMMA SearchPlaced ==
  ASSUME SetInv, NEW p \in Threads, SearchStep(p), ~ Unlink(p)
  PROVE  Placed(p)'
<1> DEFINE link == next[local[p].prev]
<1>1. /\ next' = next /\ item' = item /\ Chained' = Chained /\ call' = call
      /\ pc \in [Threads -> Pcs] /\ local \in [Threads -> Locals]
  <2>1. ~ ListChanges(p) /\ ListStep(p)
    BY DEF ListChanges, LinkNode, InsertLink, MarkRemoved, RemoveMark, ListStep,
           SearchStep, Search, SearchLoad, SearchChanged, SearchProtect, Help,
           SearchAgain, Recheck, Examine, Goto
  <2>2. QED
    BY <2>1, Stays, Typed DEF SearchStep, SetInv, ListInv
<1>2. pc[p] \in SearchPcs
  BY DEF SearchStep, Search, SearchLoad, SearchChanged, SearchProtect, Help,
         Unlink, SearchAgain, Recheck, Examine, Goto, SearchPcs
<1>3. /\ local[p].start \in Chained /\ item[local[p].start].dummy
      /\ local[p].prev \in Chained
      /\ ~ Stops(p, local[p].start) /\ ~ Stops(p, local[p].prev)
      /\ local[p].strict = (call[p].making # 0 \/ call[p].aim = "insert")
      /\ local[p].goal = IF call[p].making # 0 THEN LowRank[call[p].making]
                         ELSE IF call[p].aim = "insert" THEN LowRank[call[p].key]
                         ELSE HighRank[call[p].key]
  BY <1>2 DEF SetInv, Position, Placed
<1>4. CASE SearchLoad(p)
  <2>1. /\ pc'[p] = IF link = Nil THEN "absent" ELSE "protect"
        /\ local' = [local EXCEPT ![p].curr = link]
    BY <1>1, <1>4 DEF SearchLoad, Goto
  <2>2. /\ local'[p].start = local[p].start /\ local'[p].prev = local[p].prev
        /\ local'[p].strict = local[p].strict /\ local'[p].goal = local[p].goal
        /\ local'[p].curr = link
    BY <1>1, <2>1 DEF Locals
  <2>3. link = Nil => link.to = NULL /\ ~ link.marked
    BY DEF Nil, Link
  <2>4. QED
    BY <1>1, <1>3, <2>1, <2>2, <2>3 DEF Placed, Stops
<1>5. CASE SearchProtect(p)
  BY <1>1, <1>3, <1>5 DEF SearchProtect, Goto, Placed, Stops
<1>6. CASE Help(p)
  <2>1. /\ pc'[p] = "unlink" /\ link.marked /\ local[p].curr = link
        /\ pc[p] = "help"
    BY <1>1, <1>6 DEF Help, Goto, SetInv, Position, Placed, SearchPcs
  <2>2. link.to # NULL
    BY <1>3, <2>1 DEF SetInv, Sorted
  <2>3. local' = [local EXCEPT ![p].nxt = next[link.to]]
    BY <1>6, <2>1, <2>2 DEF Help
  <2>4. /\ local'[p].start = local[p].start /\ local'[p].prev = local[p].prev
        /\ local'[p].strict = local[p].strict /\ local'[p].goal = local[p].goal
        /\ local'[p].curr = link /\ local'[p].nxt = next[link.to]
    BY <1>1, <2>1, <2>3 DEF Locals
  <2>5. QED
    BY <1>1, <1>3, <2>1, <2>4 DEF Placed, Stops
<1>7. CASE Recheck(p)
  <2>1. /\ local' = local /\ local[p].curr = link
        /\ pc'[p] = IF link.marked THEN "help"
                    ELSE IF link.to = NULL THEN "search" ELSE "examine"
    BY <1>1, <1>7 DEF Recheck, Goto, SetInv, Position, Placed, SearchPcs
  <2>2. QED
    BY <1>1, <1>3, <2>1 DEF Placed, Stops
<1>8. CASE Examine(p)
  <2>1. /\ pc[p] = "examine" /\ local[p].curr = link /\ ~ link.marked
        /\ pc'[p] = IF Stops(p, link.to) THEN "stopped" ELSE "search"
        /\ local' = IF Stops(p, link.to) THEN local
                    ELSE [local EXCEPT ![p].prev = link.to]
    BY <1>1, <1>8 DEF Examine, Goto, SetInv, Position, Placed, SearchPcs
  <2>2. link.to # NULL
    BY <2>1 DEF SetInv, ListInv, IInv, Followed
  <2>3. link.to \in Chained
    BY <1>3, <2>2, ChainFacts DEF SetInv, ChainInv
  <2>4. CASE Stops(p, link.to)
    BY <1>1, <1>3, <2>1, <2>4 DEF Placed, Stops
  <2>5. CASE ~ Stops(p, link.to)
    <3>1. /\ local'[p].start = local[p].start /\ local'[p].prev = link.to
          /\ local'[p].strict = local[p].strict /\ local'[p].goal = local[p].goal
      BY <1>1, <2>1, <2>5 DEF Locals
    <3>2. pc'[p] = "search"
      BY <2>1, <2>5
    <3>3. ~ Stops(p, local[p].start)' /\ ~ Stops(p, local[p].prev)'
      BY <1>1, <1>3, <2>5, <3>1 DEF Stops
    <3> HIDE DEF link
    <3>4. QED
      BY <1>1, <1>3, <2>3, <3>1, <3>2, <3>3 DEF Placed
  <2>6. QED
    BY <2>4, <2>5
<1>9. QED
  BY <1>4, <1>5, <1>6, <1>7, <1>8, Undisturbed DEF SearchStep, Search

LEMMA StayPosition ==
  ASSUME SetInv, Alone, NEW p \in Threads, TableStep(p) \/ ListStep(p),
         ~ ListChanges(p)
  PROVE  Position'
<1> DEFINE link == next[local[p].prev]
<1> SUFFICES Placed(p)'
  BY DEF Alone, Position
<1>1. /\ next' = next /\ item' = item /\ Chained' = Chained
      /\ pc \in [Threads -> Pcs] /\ local \in [Threads -> Locals]
  BY Stays, Typed DEF SetInv, ListInv
<1>2. CASE LoadLink(p) \/ LoadRemoved(p)
  <2>1. /\ pc[p] \in {"absent", "stopped", "removing"}
        /\ IF pc[p] = "removing" THEN pc'[p] = "mark" ELSE pc'[p] = "cas"
        /\ local' = [local EXCEPT ![p].nxt = link]
        /\ call' = call
    BY <1>1, <1>2 DEF LoadLink, InsertLoad, LoadRemoved, RemoveLoad, Goto
  <2>2. /\ local'[p].start = local[p].start /\ local'[p].prev = local[p].prev
        /\ local'[p].strict = local[p].strict /\ local'[p].goal = local[p].goal
        /\ local'[p].curr = local[p].curr /\ local'[p].nxt = link
    BY <1>1, <2>1 DEF Locals
  <2>3. /\ local[p].start \in Chained /\ item[local[p].start].dummy
        /\ local[p].prev \in Chained
        /\ ~ Stops(p, local[p].start) /\ ~ Stops(p, local[p].prev)
        /\ local[p].strict = (call[p].making # 0 \/ call[p].aim = "insert")
        /\ local[p].goal = IF call[p].making # 0 THEN LowRank[call[p].making]
                           ELSE IF call[p].aim = "insert" THEN LowRank[call[p].key]
                           ELSE HighRank[call[p].key]
        /\ local[p].curr = link /\ ~ link.marked
        /\ pc[p] \in {"absent", "stopped"} => link.to = NULL \/ Stops(p, link.to)
        /\ pc[p] = "removing" => /\ link.to # NULL /\ ~ item[link.to].dummy
                                 /\ item[link.to].rank = HighRank[call[p].key]
    BY <2>1 DEF SetInv, Position, Placed, SearchPcs
  <2>4. QED
    BY <1>1, <2>1, <2>2, <2>3 DEF Placed, Stops
<1>3. CASE RemoveClaims(p)
  <2>1. /\ pc[p] = "stopped" /\ pc'[p] = "removing"
        /\ local' = local /\ call' = call
        /\ item[local[p].curr.to].rank = HighRank[call[p].key]
        /\ ~ item[local[p].curr.to].dummy
    BY <1>1, <1>3 DEF RemoveClaims, Looked, Hit
  <2>2. local[p].curr.to # NULL
    BY <2>1 DEF SetInv, ListInv, IInv, Followed
  <2>3. QED
    BY <1>1, <2>1, <2>2 DEF SetInv, Position, Placed, SearchPcs, Stops
<1>4. CASE SearchDummy(p) \/ SearchKey(p)
  BY <1>4, BeginPlaced
<1>5. CASE SearchStep(p)
  BY <1>5, SearchPlaced DEF ListChanges
<1>6. CASE /\ ~ LoadLink(p) /\ ~ LoadRemoved(p) /\ ~ RemoveClaims(p)
           /\ ~ SearchDummy(p) /\ ~ SearchKey(p) /\ ~ SearchStep(p)
  <2>1. pc'[p] \notin SearchPcs \cup {"cas", "removing", "mark"}
    <3>1. TableStep(p)
      BY <1>6 DEF ListStep, ListChanges
    <3>2. CASE PassBucket(p)
      BY <3>2 DEF PassBucket, SearchPcs
    <3>3. CASE ~ PassBucket(p)
      BY <1>1, <1>6, <3>1, <3>3
         DEF TableStep, Insert, FindOrRemove, Return, LoadCurrent, CheckFactor,
             Grow, Publish, FindPath, MissBucket, ClaimBucket, StoreHead, FindEnds,
             InsertRefused, InsertGoesOn, RemoveRefused, LinkFails, CountDummy,
             CountKey, MarkFails, CountRemoved, Count, Finish, Goto, SearchPcs
    <3>4. QED
      BY <3>2, <3>3
  <2>2. QED
    BY <2>1 DEF Placed
<1>7. QED
  BY <1>2, <1>3, <1>4, <1>5, <1>6

\* An insertion that goes on has looked for its key, and not found it.
LEMMA LookedUp ==
  ASSUME SetInv, NEW p \in Threads, pc[p] \in {"absent", "stopped"},
         call[p].making = 0, call[p].aim # "insert"
  PROVE  /\ call[p].key \in Keys
         /\ call[p].key \in Members <=> Hit(p)
         /\ Hit(p) => Holds(local[p].prev, call[p].key)
<1> DEFINE prev == local[p].prev
           link == next[prev]
           k    == call[p].key
<1>1. k \in Keys
  BY DEF SetInv, ListInv, IInv, Followed
<1>2. /\ prev \in Chained /\ ~ Stops(p, prev) /\ ~ link.marked
      /\ local[p].curr = link
      /\ local[p].strict = FALSE /\ local[p].goal = HighRank[k]
      /\ pc[p] = "absent" => link.to = NULL
      /\ pc[p] = "stopped" => link.to = NULL \/ Stops(p, link.to)
      /\ pc[p] = "stopped" => link.to # NULL
  BY DEF SetInv, Position, Placed, SearchPcs, ListInv, IInv, Followed
<1>3. item[prev].rank < HighRank[k]
  <2>1. item[prev].rank \in Nat /\ HighRank[k] \in Int
    BY <1>1, <1>2, ChainFacts, Ranked DEF SetInv, ChainInv
  <2>2. QED
    BY <1>2, <2>1 DEF Stops
<1>4. link.to = NULL \/ HighRank[k] <= item[link.to].rank
  BY <1>2 DEF Stops
<1>5. k \in Members <=> Holds(prev, k)
  BY <1>1, <1>2, <1>3, <1>4, SearchTells DEF SetInv, ChainInv
<1>6. Holds(prev, k) <=> Hit(p)
  BY <1>2 DEF Holds, Hit
<1>7. QED
  BY <1>1, <1>5, <1>6

\* A call that neither begins, ends nor goes from finding to inserting keeps
\* what it is for.
LEMMA KeepsOn ==
  ASSUME SetInv, NEW p \in Threads, TableStep(p) \/ ListStep(p),
         ~ Insert(p), ~ FindOrRemove(p), ~ Return(p), ~ InsertGoesOn(p)
  PROVE  /\ call'[p].op = call[p].op /\ call'[p].key = call[p].key
         /\ call'[p].aim = call[p].aim
<1>1. call[p] \in Calls /\ call \in [Threads -> Calls]
  BY Typed DEF SetInv, ListInv
<1>2. CASE PassBucket(p) \/ StoreHead(p) \/ ClaimBucket(p)
  BY <1>1, <1>2 DEF PassBucket, StoreHead, ClaimBucket, Passed, Calls
<1>3. CASE LoadCurrent(p) \/ FindPath(p) \/ MissBucket(p)
  <2>1. \/ \E s : call'[p] = [call[p] EXCEPT !.old = s]
        \/ \E s : call'[p] = [call[p] EXCEPT !.path = s]
        \/ call'[p] = [call[p] EXCEPT !.parent = bhead[call[p].bucket]]
    BY <1>1, <1>3 DEF LoadCurrent, FindPath, MissBucket
  <2>2. QED
    BY <1>1, <2>1 DEF Calls
<1>4. CASE call' = call
  BY <1>4
<1>5. QED
  BY <1>2, <1>3, <1>4
     DEF ListStep, SearchStep, LoadLink, LinkNode, LoadRemoved, MarkRemoved,
         TableStep, CheckFactor, Grow, Publish, SearchDummy, SearchKey, FindEnds,
         InsertRefused, RemoveRefused, RemoveClaims, LinkFails, CountDummy,
         CountKey, MarkFails, CountRemoved

\* The steps by which a call is done.
Answers(p) ==
  \/ FindEnds(p) \/ InsertRefused(p) \/ RemoveRefused(p)
  \/ CountKey(p) \/ CountRemoved(p)

LEMMA StayPurpose ==
  ASSUME SetInv, Alone, NEW p \in Threads, TableStep(p) \/ ListStep(p),
         ~ ListChanges(p)
  PROVE  Purpose'
<1>1. /\ Members' = Members
      /\ pc \in [Threads -> Pcs] /\ call \in [Threads -> Calls]
      /\ call[p] \in Calls
      /\ \A q \in Threads : q = p
  BY Stays, Typed DEF SetInv, ListInv, Alone
<1>2. result \in [Threads -> {"none", "yes", "no"}] /\ Intends(p)
  BY DEF SetInv, Purpose
<1> SUFFICES result' \in [Threads -> {"none", "yes", "no"}] /\ Intends(p)'
  BY <1>1 DEF Purpose
<1>3. CASE Insert(p) \/ FindOrRemove(p)
  <2>1. result' = result
    BY <1>3 DEF Insert, FindOrRemove
  <2>2. PICK o \in {"insert", "find", "remove"} :
          /\ call'[p].op = o
          /\ call'[p].aim = IF o = "insert" THEN "find" ELSE o
          /\ pc[p] = "idle" /\ pc'[p] \in {"inflate", "path"}
    BY <1>3, Begins DEF SetInv, ListInv
  <2>3. QED
    BY <1>2, <2>1, <2>2 DEF Intends
<1>4. CASE Return(p)
  <2>1. /\ pc'[p] = "idle" /\ call'[p] = NoCall
        /\ result' = [result EXCEPT ![p] = "none"]
    BY <1>1, <1>4 DEF Return, Goto
  <2>2. QED
    BY <1>2, <2>1 DEF Intends, NoCall
<1>5. CASE Answers(p)
  <2>1. /\ call' = call /\ pc'[p] = "done" /\ pc[p] # "idle"
        /\ \E r \in {"yes", "no"} : result' = [result EXCEPT ![p] = r]
    BY <1>1, <1>5 DEF Answers, FindEnds, InsertRefused, RemoveRefused, CountKey,
                      CountRemoved, Looked, Count, Finish, Goto
  <2>2. QED
    BY <1>2, <2>1 DEF Intends
<1>6. CASE InsertGoesOn(p)
  <2>1. /\ pc[p] \in {"absent", "stopped"} /\ pc'[p] = "path"
        /\ call[p].making = 0 /\ call[p].aim = "find" /\ call[p].op = "insert"
        /\ ~ Hit(p) /\ result' = result
        /\ call'[p] = [call[p] EXCEPT !.aim = "insert"]
    BY <1>1, <1>6 DEF InsertGoesOn, Looked
  <2>2. call'[p].op = "insert" /\ call'[p].aim = "insert"
        /\ call'[p].key = call[p].key
    BY <1>1, <2>1 DEF Calls
  <2>3. call[p].key \notin Members
    BY <2>1, LookedUp
  <2>4. QED
    BY <1>1, <1>2, <2>1, <2>2, <2>3 DEF Intends
<1>7. CASE /\ ~ Insert(p) /\ ~ FindOrRemove(p) /\ ~ Return(p) /\ ~ Answers(p)
           /\ ~ InsertGoesOn(p)
  <2>1. /\ call'[p].op = call[p].op /\ call'[p].key = call[p].key
        /\ call'[p].aim = call[p].aim
    BY <1>7, KeepsOn
  <2>2. ~ LinkFails(p) /\ ~ MarkFails(p)
    BY Undisturbed
  <2>3. result' = result /\ pc[p] \notin {"idle", "done"} /\ pc'[p] \notin {"idle", "done"}
    BY <1>1, <1>7, <2>2
       DEF ListStep, SearchStep, Search, SearchLoad, SearchChanged, SearchProtect,
           Help, Unlink, SearchAgain, Recheck, Examine, LoadLink, InsertLoad,
           LinkNode, InsertLink, LoadRemoved, RemoveLoad, MarkRemoved, RemoveMark,
           TableStep, LoadCurrent, CheckFactor, Grow, Publish, FindPath, PassBucket,
           MissBucket, ClaimBucket, SearchDummy, StoreHead, SearchKey, BeginSearch,
           RemoveClaims, Looked, CountDummy, Count, Answers, Goto
  <2>4. /\ pc'[p] = "cas" => LoadLink(p)
        /\ pc'[p] = "removing" => RemoveClaims(p)
        /\ pc'[p] = "mark" => LoadRemoved(p)
        /\ pc'[p] \notin {"count", "uncount"}
    BY <1>1, <1>7, <2>2
       DEF ListStep, SearchStep, Search, SearchLoad, SearchChanged, SearchProtect,
           Help, Unlink, SearchAgain, Recheck, Examine, LoadLink, InsertLoad,
           LinkNode, InsertLink, LoadRemoved, RemoveLoad, MarkRemoved, RemoveMark,
           TableStep, LoadCurrent, CheckFactor, Grow, Publish, FindPath, PassBucket,
           MissBucket, ClaimBucket, SearchDummy, StoreHead, SearchKey, BeginSearch,
           RemoveClaims, Looked, CountDummy, Count, Answers, ListChanges, Goto
  <2>5. /\ LoadLink(p) => (call[p].making # 0 \/ call[p].aim = "insert") /\ call' = call
        /\ RemoveClaims(p) => call[p].making = 0 /\ call[p].aim = "remove" /\ call' = call
        /\ LoadRemoved(p) => pc[p] = "removing" /\ call' = call
    BY DEF LoadLink, RemoveClaims, Looked, LoadRemoved, RemoveLoad, Goto
  <2>6. pc[p] = "count" => call[p].making # 0
    BY <1>7 DEF ListStep, SearchStep, Search, SearchLoad, SearchChanged, SearchProtect,
           Help, Unlink, SearchAgain, Recheck, Examine, LoadLink, InsertLoad,
           LinkNode, InsertLink, LoadRemoved, RemoveLoad, MarkRemoved, RemoveMark,
           TableStep, LoadCurrent, CheckFactor, Grow, Publish, FindPath, PassBucket,
           MissBucket, ClaimBucket, SearchDummy, StoreHead, SearchKey, BeginSearch,
           RemoveClaims, Looked, CountDummy, CountKey, LinkFails, MarkFails, Count,
           Answers, Goto
  <2>7. QED
    BY <1>1, <1>2, <2>1, <2>3, <2>4, <2>5, <2>6 DEF Intends
<1>8. QED
  BY <1>3, <1>4, <1>5, <1>6, <1>7

\* Nothing but a search unlinks.
LEMMA SearchUnlinks ==
  ASSUME NEW p \in Threads, TableStep(p) \/ ListStep(p), Unlink(p)
  PROVE  SearchStep(p)
  BY DEF TableStep, ListStep, Unlink, Insert, FindOrRemove, Return,
         LoadCurrent, CheckFactor, Grow, Publish, FindPath, PassBucket,
         MissBucket, ClaimBucket, SearchDummy, StoreHead, SearchKey,
         BeginSearch, FindEnds, InsertRefused, InsertGoesOn, RemoveRefused,
         RemoveClaims, Looked, LinkFails, CountDummy, CountKey, MarkFails,
         CountRemoved, Count, LoadLink, InsertLoad, LinkNode, InsertLink,
         LoadRemoved, RemoveLoad, MarkRemoved, RemoveMark, Goto

LEMMA SetInductive ==
  ASSUME Alone
  PROVE  SetInv /\ [Next]_vars => SetInv'
<1> SUFFICES ASSUME SetInv, [Next]_vars PROVE SetInv'
  OBVIOUS
<1>1. ListInv'
  BY ListInductive DEF SetInv
<1>2. CASE Next
  <2>1. PICK p \in Threads : TableStep(p) \/ ListStep(p)
    BY <1>2, Steps
  <2>2. CASE SearchStep(p) /\ Unlink(p)
    BY <1>1, <2>2, UnlinkSet DEF SetInv
  <2>3. CASE LinkNode(p)
    BY <1>1, <2>3, LinkSet DEF SetInv
  <2>4. CASE MarkRemoved(p)
    BY <1>1, <2>4, MarkSet DEF SetInv
  <2>5. CASE ~ ListChanges(p)
    <3>1. next' = next /\ item' = item /\ used' = used /\ Chained' = Chained
      BY <2>1, <2>5, Stays
    <3>2. Beginning' /\ Labelled' /\ Sorted'
      BY <3>1 DEF SetInv, Beginning, Labelled, Sorted
    <3>3. QED
      BY <1>1, <2>1, <2>5, <3>2, StayDeletion, StayAnchored, StayPosition,
         StayPurpose DEF SetInv
  <2>6. Unlink(p) => SearchStep(p)
    BY <2>1, SearchUnlinks
  <2>7. QED
    BY <2>2, <2>3, <2>4, <2>5, <2>6 DEF ListChanges
<1>3. CASE UNCHANGED vars
  <2>1. /\ next' = next /\ item' = item /\ used' = used /\ pc' = pc
        /\ local' = local /\ bhead' = bhead /\ removed' = removed
        /\ call' = call /\ result' = result
    BY <1>3 DEF vars, listVars, tableVars
  <2>2. Reachable' = Reachable
    BY <2>1 DEF Reachable
  <2>3. Chained' = Chained /\ Members' = Members
    BY <2>1, <2>2 DEF Chained, Members, Live
  <2>4. Beginning' /\ Labelled' /\ Sorted' /\ Deletion' /\ Anchored'
    BY <2>1, <2>3 DEF SetInv, Beginning, Labelled, Sorted, Deletion, Anchored
  <2>5. Position' /\ Purpose'
    BY <2>1, <2>3 DEF SetInv, Position, Placed, Stops, Purpose, Intends
  <2>6. QED
    BY <1>1, <2>4, <2>5 DEF SetInv
<1>4. QED
  BY <1>2, <1>3

\* What holds of the table while one thread uses it.
THEOREM SetInvariance ==
  ASSUME Alone
  PROVE  Spec => []SetInv
<1>1. SetInv /\ [Next]_vars => SetInv'
  BY SetInductive
<1>2. QED
  BY <1>1, InitSetInv, PTL DEF Spec

\* One thread keeps the list sorted by reversed hash, through all insertions,
\* removals, new buckets and growth, so that a search may stop at the first
\* hash behind its own.
THEOREM ListOrdered ==
  ASSUME Alone
  PROVE  Spec => []Ordered
<1>1. SetInv => Ordered
  <2> SUFFICES ASSUME SetInv, NEW n \in Reachable \ {First}, next[n].to # NULL
               PROVE  item[n].rank <= item[next[n].to].rank
    BY DEF Ordered
  <2>1. CASE n = Ghost
    BY <2>1 DEF SetInv, Beginning, Link, Item, Ghost, First
  <2>2. CASE n \in Chained
    <3>1. /\ item[n].rank \in Nat /\ next[n].to \in Chained
          /\ item[next[n].to].rank \in Nat
      BY <2>2, ChainFacts DEF SetInv, ChainInv
    <3>2. item[n].rank < item[next[n].to].rank
      BY <2>2 DEF SetInv, Sorted
    <3>3. QED
      BY <3>1, <3>2
  <2>3. QED
    BY <2>1, <2>2 DEF Chained
<1>2. QED
  BY <1>1, SetInvariance, PTL

\* How many threads are in a set of them, where there is one.
LEMMA CountOf ==
  ASSUME Alone, NEW p \in Threads, NEW S, S \subseteq Threads
  PROVE  Cardinality(S) = IF p \in S THEN 1 ELSE 0
<1>1. \A q \in Threads : q = p
  BY DEF Alone
<1>2. CASE p \in S
  <2>1. S = {p}
    BY <1>1, <1>2
  <2>2. QED
    BY <1>2, <2>1, FS_Singleton
<1>3. CASE p \notin S
  <2>1. S = {}
    BY <1>1, <1>3
  <2>2. QED
    BY <1>3, <2>1, FS_EmptySet
<1>4. QED
  BY <1>2, <1>3

LEMMA StepSize ==
  ASSUME SetInv, Alone, counter \in Int, SizeRight, NEW p \in Threads,
         TableStep(p) \/ ListStep(p)
  PROVE  counter' \in Int /\ SizeRight'
<1> DEFINE size     == Cardinality(Live \ {Ghost})
           at(f, x) == IF f[p] = x THEN 1 ELSE 0
<1>1. counter = size - at(pc, "count") + at(pc, "uncount")
  <2>1. /\ Cardinality({q \in Threads : pc[q] = "count"}) = at(pc, "count")
        /\ Cardinality({q \in Threads : pc[q] = "uncount"}) = at(pc, "uncount")
    BY CountOf
  <2>2. QED
    BY <2>1 DEF SizeRight
<1>2. SUFFICES counter' \in Int
               /\ counter' = Cardinality(Live' \ {Ghost}) - at(pc', "count")
                             + at(pc', "uncount")
  <2>1. /\ Cardinality({q \in Threads : pc'[q] = "count"}) = at(pc', "count")
        /\ Cardinality({q \in Threads : pc'[q] = "uncount"}) = at(pc', "uncount")
    BY CountOf
  <2>2. QED
    BY <1>2, <2>1 DEF SizeRight
<1>3. /\ IsFiniteSet(Live \ {Ghost}) /\ size \in Nat
      /\ pc \in [Threads -> Pcs]
  <2>1. Live \subseteq Nodes
    <3>1. /\ {Ghost, 2} \subseteq Nodes /\ Chained \subseteq Nodes
          /\ \A n \in Chained : next[n].to \in Chained \cup {NULL}
      BY ChainFacts DEF SetInv, ChainInv
    <3>2. QED
      BY <3>1, LiveChained DEF SetInv, ChainInv
  <2>2. IsFiniteSet(Nodes)
    BY FS_Interval, Constants
  <2>3. IsFiniteSet(Live \ {Ghost})
    BY <2>1, <2>2, FS_Subset
  <2>4. QED
    BY <2>3, FS_CardinalityType, Typed DEF SetInv, ListInv
<1>4. CASE LinkNode(p)
  <2>1. /\ pc[p] = "cas" /\ pc'[p] = "count" /\ counter' = counter
    BY <1>3, <1>4, LinkFacts
  <2>2. Live' = Live \cup {used} /\ used \notin Live /\ used # Ghost
    <3>1. Live' = Live \cup {used} /\ used \notin Live
      BY <1>4, LinkSet
    <3>2. used \in 3 .. MaxNodes
      BY Typed DEF SetInv, ListInv
    <3>3. QED
      BY <3>1, <3>2, Constants DEF Ghost
  <2>3. Live' \ {Ghost} = (Live \ {Ghost}) \cup {used} /\ used \notin Live \ {Ghost}
    BY <2>2
  <2>4. Cardinality(Live' \ {Ghost}) = size + 1
    BY <1>3, <2>3, FS_AddElement
  <2> HIDE DEF size
  <2>5. QED
    BY <1>1, <1>3, <2>1, <2>4
<1>5. CASE MarkRemoved(p)
  <2> DEFINE node == next[local[p].prev].to
  <2>1. pc[p] = "mark" /\ pc'[p] = "uncount" /\ counter' = counter
    BY <1>3, <1>5, MarkFacts
  <2>2. Live' = Live \ {node} /\ node \in Live \ {Ghost}
    BY <1>5, MarkSet
  <2> HIDE DEF node
  <2>3. Live' \ {Ghost} = (Live \ {Ghost}) \ {node} /\ node \in Live \ {Ghost}
    BY <2>2
  <2>4. Cardinality(Live' \ {Ghost}) = size - 1
    BY <1>3, <2>3, FS_RemoveElement
  <2> HIDE DEF size
  <2>5. QED
    BY <1>1, <1>3, <2>1, <2>4
<1>6. CASE SearchStep(p) /\ Unlink(p)
  <2>1. pc[p] = "unlink" /\ pc'[p] = "recheck" /\ counter' = counter
    BY <1>3, <1>6, UnlinkFacts
  <2>2. Live' = Live
    BY <1>6, UnlinkFacts, UnlinkChain DEF SetInv, ChainInv
  <2>3. QED
    BY <1>1, <2>1, <2>2
<1>7. CASE CountDummy(p) \/ CountKey(p) \/ CountRemoved(p)
  <2>1. Live' = Live
    BY <1>7, Stays DEF ListChanges, Unlink, LinkNode, InsertLink, MarkRemoved,
           RemoveMark, CountDummy, CountKey, CountRemoved, Count, Goto, TableStep
  <2>2. CASE CountDummy(p) \/ CountKey(p)
    <3>1. pc[p] = "count" /\ pc'[p] \in {"store", "done"} /\ counter' = counter + 1
      BY <1>3, <2>2 DEF CountDummy, CountKey, Count, Goto
    <3> HIDE DEF size
    <3>2. QED
      BY <1>1, <1>3, <2>1, <3>1 DEF size
  <2>3. CASE CountRemoved(p)
    <3>1. pc[p] = "uncount" /\ pc'[p] = "done" /\ counter' = counter + (-1)
      BY <1>3, <2>3 DEF CountRemoved, Count, Goto
    <3>2. QED
      BY <1>1, <1>3, <2>1, <3>1
  <2>4. QED
    BY <1>7, <2>2, <2>3
<1>8. CASE ~ ListChanges(p) /\ ~ CountDummy(p) /\ ~ CountKey(p) /\ ~ CountRemoved(p)
  <2>1. Live' = Live
    BY <1>8, Stays
  <2>2. /\ pc[p] \notin {"count", "uncount"} /\ pc'[p] \notin {"count", "uncount"}
        /\ counter' = counter
    BY <1>3, <1>8
       DEF ListChanges, ListStep, SearchStep, Search, SearchLoad, SearchChanged,
           SearchProtect, Help, Unlink, SearchAgain, Recheck, Examine, LoadLink,
           InsertLoad, LoadRemoved, RemoveLoad, TableStep, Insert, FindOrRemove,
           Return, LoadCurrent, CheckFactor, Grow, Publish, FindPath, PassBucket,
           MissBucket, ClaimBucket, SearchDummy, StoreHead, SearchKey, BeginSearch,
           FindEnds, InsertRefused, InsertGoesOn, RemoveRefused, RemoveClaims,
           Looked, LinkFails, MarkFails, Finish, Goto, listVars
  <2>3. QED
    BY <1>1, <2>1, <2>2
<1>9. QED
  <2>1. Unlink(p) => SearchStep(p)
    BY SearchUnlinks
  <2>2. QED
    BY <1>4, <1>5, <1>6, <1>7, <1>8, <2>1 DEF ListChanges

\* size() is right at every step of one thread, whatever it inserts and
\* removes, but for the call between its link and its count.
THEOREM SizeOfOne ==
  ASSUME Alone
  PROVE  Spec => []SizeRight
<1>1. Init => counter \in Int /\ SizeRight
  <2> SUFFICES ASSUME Init PROVE counter \in Int /\ SizeRight
    OBVIOUS
  <2>1. SetInv /\ Chained = {2} /\ next[2] = Nil
    <3>1. 2 \in Nodes /\ 2 # First /\ 2 # Ghost
      BY Constants DEF First, Ghost
    <3>2. next[2] = Nil
      BY <3>1 DEF Init, ListInit
    <3>3. Reachable = 0 .. 2
      BY FirstList DEF Init, ListInit
    <3>4. QED
      BY <3>2, <3>3, InitSetInv DEF Chained, First, Ghost
  <2>2. Live = {Ghost, 2}
    BY <2>1, LiveChained DEF SetInv, ChainInv, Nil, Link
  <2>3. Live \ {Ghost} = {2}
    BY <2>2 DEF Ghost
  <2>4. Cardinality(Live \ {Ghost}) = 1
    BY <2>3, FS_Singleton
  <2>5. /\ {q \in Threads : pc[q] = "count"} = {}
        /\ {q \in Threads : pc[q] = "uncount"} = {}
    BY DEF Init, ListInit
  <2>6. counter = 1
    BY DEF Init, ListInit
  <2>7. QED
    BY <2>4, <2>5, <2>6, FS_EmptySet DEF SizeRight
<1>2. SetInv /\ (counter \in Int /\ SizeRight) /\ [Next]_vars
        => (counter \in Int /\ SizeRight)'
  <2> SUFFICES ASSUME SetInv, counter \in Int, SizeRight, [Next]_vars
               PROVE  counter' \in Int /\ SizeRight'
    OBVIOUS
  <2>1. CASE Next
    BY <2>1, Steps, StepSize
  <2>2. CASE UNCHANGED vars
    <3>1. next' = next /\ pc' = pc /\ counter' = counter
      BY <2>2 DEF vars, listVars
    <3>2. Live' = Live
      BY <3>1 DEF Live, Reachable
    <3>3. QED
      BY <3>1, <3>2 DEF SizeRight
  <2>3. QED
    BY <2>1, <2>2
<1>3. QED
  BY <1>1, <1>2, SetInvariance, PTL DEF Spec

-----------------------------------------------------------------------------
(***************************************************************************)
(* The table implements the set.  A call takes effect when its node is     *)
(* linked in or marked, or when its search ends; it answers with what it   *)
(* found then.                                                             *)
(***************************************************************************)
AnswerOf(p) ==
  IF pc[p] = "uncount" \/ (pc[p] = "count" /\ call[p].making = 0)
  THEN "yes" ELSE result[p]

\* The functions that the set sees have one value, where there is one thread.
LEMMA SetValues ==
  ASSUME Alone, NEW p \in Threads
  PROVE  /\ /\ call[p].op = "none"
            /\ call'[p].op \in {"insert", "find", "remove"}
            /\ call'[p].key \in Keys
            /\ Members' = Members /\ AnswerOf(p)' = AnswerOf(p)
            => Set!Begin(p)
         /\ /\ call[p].op # "none" /\ AnswerOf(p) = "none"
            /\ AnswerOf(p)' = IF (call[p].op = "insert") = (call[p].key \in Members)
                              THEN "no" ELSE "yes"
            /\ Members' = CASE call[p].op = "insert" -> Members \cup {call[p].key}
                            [] call[p].op = "remove" -> Members \ {call[p].key}
                            [] OTHER -> Members
            /\ call'[p].op = call[p].op /\ call'[p].key = call[p].key
            => Set!Effect(p)
         /\ /\ AnswerOf(p) # "none"
            /\ call'[p].op = "none" /\ call'[p].key = 0
            /\ AnswerOf(p)' = "none" /\ Members' = Members
            => Set!Return(p)
         /\ /\ Members' = Members /\ AnswerOf(p)' = AnswerOf(p)
            /\ call'[p].op = call[p].op /\ call'[p].key = call[p].key
            => UNCHANGED Set!kvars
<1>1. \A q \in Threads : q = p
  BY DEF Alone
<1>2. ASSUME /\ call[p].op = "none"
             /\ call'[p].op \in {"insert", "find", "remove"}
             /\ call'[p].key \in Keys
             /\ Members' = Members /\ AnswerOf(p)' = AnswerOf(p)
      PROVE  Set!Begin(p)
  BY <1>1, <1>2 DEF Set!Begin, Members, AnswerOf
<1>3. ASSUME /\ call[p].op # "none" /\ AnswerOf(p) = "none"
             /\ AnswerOf(p)' = IF (call[p].op = "insert") = (call[p].key \in Members)
                               THEN "no" ELSE "yes"
             /\ Members' = CASE call[p].op = "insert" -> Members \cup {call[p].key}
                             [] call[p].op = "remove" -> Members \ {call[p].key}
                             [] OTHER -> Members
             /\ call'[p].op = call[p].op /\ call'[p].key = call[p].key
      PROVE  Set!Effect(p)
  <2> DEFINE ops  == [q \in Threads |-> call[q].op]
             args == [q \in Threads |-> call[q].key]
             answers == [q \in Threads |->
               IF pc[q] = "uncount" \/ (pc[q] = "count" /\ call[q].making = 0)
               THEN "yes" ELSE result[q]]
             ok == IF ops[p] = "insert" THEN ~ (args[p] \in Members)
                   ELSE args[p] \in Members
  <2>1. ops' = ops /\ args' = args
    BY <1>1, <1>3
  <2>2. ops[p] = call[p].op /\ args[p] = call[p].key
    OBVIOUS
  <2>3. answers[p] = "none"
    BY <1>3 DEF AnswerOf
  <2>4. answers' = [answers EXCEPT ![p] = IF ok THEN "yes" ELSE "no"]
    BY <1>1, <1>3 DEF AnswerOf
  <2>5. Members' = CASE ops[p] = "insert" -> Members \cup {args[p]}
                     [] ops[p] = "remove" -> Members \ {args[p]}
                     [] OTHER -> Members
    BY <1>3, <2>2
  <2>6. ops[p] # "none"
    BY <1>3
  <2> HIDE DEF ops, args, answers
  <2>7. QED
    BY <2>1, <2>3, <2>4, <2>5, <2>6 DEF Set!Effect, Members, ops, args, answers
<1>4. ASSUME /\ AnswerOf(p) # "none"
             /\ call'[p].op = "none" /\ call'[p].key = 0
             /\ AnswerOf(p)' = "none" /\ Members' = Members
      PROVE  Set!Return(p)
  BY <1>1, <1>4 DEF Set!Return, Members, AnswerOf
<1>5. ASSUME /\ Members' = Members /\ AnswerOf(p)' = AnswerOf(p)
             /\ call'[p].op = call[p].op /\ call'[p].key = call[p].key
      PROVE  UNCHANGED Set!kvars
  BY <1>1, <1>5 DEF Set!kvars, Members, AnswerOf
<1>6. QED
  BY <1>2, <1>3, <1>4, <1>5

\* Every step of the table is one of the set's, or changes nothing of it.
LEMMA SetStep ==
  ASSUME SetInv, Alone, NEW p \in Threads, TableStep(p) \/ ListStep(p)
  PROVE  Set!Begin(p) \/ Set!Effect(p) \/ Set!Return(p) \/ UNCHANGED Set!kvars
<1>1. /\ pc \in [Threads -> Pcs] /\ call \in [Threads -> Calls]
      /\ result \in [Threads -> {"none", "yes", "no"}]
      /\ pc[p] = "idle" <=> call[p].op = "none"
      /\ pc[p] = "done" <=> result[p] # "none"
      /\ IF call[p].op = "insert" THEN call[p].aim \in {"find", "insert"}
         ELSE call[p].aim = call[p].op
  BY Typed DEF SetInv, ListInv, Purpose, Intends
<1>2. CASE Insert(p) \/ FindOrRemove(p)
  <2>1. /\ call'[p].op \in {"insert", "find", "remove"} /\ call'[p].key \in Keys
        /\ pc[p] = "idle" /\ pc'[p] \in {"inflate", "path"}
    BY <1>2, Begins DEF SetInv, ListInv
  <2>2. result' = result
    BY <1>2 DEF Insert, FindOrRemove
  <2>3. Members' = Members
    BY <1>2, <2>1, Stays DEF ListChanges, Unlink, LinkNode, InsertLink, MarkRemoved,
                        RemoveMark, Goto
  <2>4. AnswerOf(p) = "none" /\ AnswerOf(p)' = "none"
    BY <1>1, <2>1, <2>2 DEF AnswerOf
  <2>5. QED
    BY <1>1, <2>1, <2>3, <2>4, SetValues
<1>3. CASE Return(p)
  <2>1. /\ pc[p] = "done" /\ pc'[p] = "idle" /\ result'[p] = "none"
        /\ call'[p] = NoCall
    BY <1>1, <1>3 DEF Return, Goto
  <2>2. Members' = Members
    BY <1>3, <2>1, Stays DEF ListChanges, Unlink, LinkNode, InsertLink, MarkRemoved,
                        RemoveMark, Goto
  <2>3. AnswerOf(p) # "none" /\ AnswerOf(p)' = "none"
    BY <1>1, <2>1 DEF AnswerOf
  <2>4. call'[p].op = "none" /\ call'[p].key = 0
    BY <2>1 DEF NoCall
  <2>5. QED
    BY <2>2, <2>3, <2>4, SetValues
\* The end of the search answers for what is not changed.
<1>4. CASE FindEnds(p) \/ InsertRefused(p) \/ RemoveRefused(p)
  <2>1. /\ pc[p] \in {"absent", "stopped"} /\ pc'[p] = "done"
        /\ call[p].making = 0 /\ call[p].aim # "insert" /\ call' = call
        /\ result'[p] \in {"yes", "no"}
    BY <1>1, <1>4 DEF FindEnds, InsertRefused, RemoveRefused, Looked, Finish
  <2>2. Members' = Members
    BY <1>4, <2>1, Stays DEF ListChanges, Unlink, LinkNode, InsertLink, MarkRemoved,
                        RemoveMark, Goto
  <2>3. call[p].key \in Members <=> Hit(p)
    BY <2>1, LookedUp
  <2>4. AnswerOf(p) = "none" /\ AnswerOf(p)' = result'[p] /\ call[p].op # "none"
    BY <1>1, <2>1 DEF AnswerOf
  <2>5. CASE FindEnds(p)
    <3>1. /\ call[p].op = "find"
          /\ result'[p] = IF Hit(p) THEN "yes" ELSE "no"
      BY <1>1, <2>5 DEF FindEnds, Finish
    <3>2. QED
      BY <2>1, <2>2, <2>3, <2>4, <3>1, SetValues
  <2>6. CASE InsertRefused(p)
    <3>1. call[p].op = "insert" /\ Hit(p) /\ result'[p] = "no"
      BY <1>1, <2>6 DEF InsertRefused, Finish
    <3>2. Members \cup {call[p].key} = Members
      BY <2>3, <3>1
    <3>3. QED
      BY <2>1, <2>2, <2>3, <2>4, <3>1, <3>2, SetValues
  <2>7. CASE RemoveRefused(p)
    <3>1. call[p].aim = "remove" /\ result'[p] = "no"
          /\ (Hit(p) => local[p].curr.to \in removed)
      BY <1>1, <2>7 DEF RemoveRefused, Looked, Finish
    <3>2. call[p].op = "remove"
      BY <1>1, <3>1
    <3>3. ~ Hit(p)
      BY <3>1, Unclaimed DEF Hit
    <3>4. Members \ {call[p].key} = Members
      BY <2>3, <3>3
    <3>5. QED
      BY <2>1, <2>2, <2>3, <2>4, <3>1, <3>2, <3>3, <3>4, SetValues
  <2>8. QED
    BY <1>4, <2>5, <2>6, <2>7
\* The link of a key's node, and the mark, are the insertion and the removal.
<1>5. CASE LinkNode(p)
  <2>1. /\ pc[p] = "cas" /\ pc'[p] = "count" /\ call' = call /\ result' = result
        /\ call[p].making # 0 \/ (call[p].op = "insert" /\ call[p].key \notin Members)
    BY <1>1, <1>5, LinkFacts
  <2>2. Members' = IF call[p].making # 0 THEN Members ELSE Members \cup {call[p].key}
    BY <1>5, LinkSet
  <2>3. /\ AnswerOf(p) = "none"
        /\ AnswerOf(p)' = IF call[p].making # 0 THEN "none" ELSE "yes"
    BY <1>1, <2>1 DEF AnswerOf
  <2>4. CASE call[p].making # 0
    BY <2>1, <2>2, <2>3, <2>4, SetValues
  <2>5. CASE call[p].making = 0
    BY <2>1, <2>2, <2>3, <2>5, SetValues
  <2>6. QED
    BY <2>4, <2>5
<1>6. CASE MarkRemoved(p)
  <2>1. /\ pc[p] = "mark" /\ pc'[p] = "uncount" /\ call' = call /\ result' = result
        /\ call[p].op = "remove"
    BY <1>1, <1>6, MarkFacts
  <2>2. call[p].key \in Members /\ Members' = Members \ {call[p].key}
    BY <1>6, MarkSet
  <2>3. AnswerOf(p) = "none" /\ AnswerOf(p)' = "yes"
    BY <1>1, <2>1 DEF AnswerOf
  <2>4. QED
    BY <2>1, <2>2, <2>3, SetValues
\* Nothing else is seen.
<1>7. CASE CountKey(p) \/ CountRemoved(p)
  <2>1. /\ pc[p] = "uncount" \/ (pc[p] = "count" /\ call[p].making = 0)
        /\ pc'[p] = "done" /\ result'[p] = "yes" /\ call' = call
    BY <1>1, <1>7 DEF CountKey, CountRemoved, Count, Finish, Goto
  <2>2. Members' = Members
    BY <1>7, <2>1, Stays DEF ListChanges, Unlink, LinkNode, InsertLink, MarkRemoved,
                        RemoveMark, Goto
  <2>3. AnswerOf(p) = "yes" /\ AnswerOf(p)' = "yes"
    BY <2>1 DEF AnswerOf
  <2>4. QED
    BY <2>1, <2>2, <2>3, SetValues
<1>8. CASE SearchStep(p) /\ Unlink(p)
  <2>1. pc[p] = "unlink" /\ pc'[p] = "recheck" /\ call' = call /\ result' = result
    BY <1>1, <1>8, UnlinkFacts
  <2>2. Members' = Members
    BY <1>8, UnlinkFacts, UnlinkChain DEF SetInv, ChainInv
  <2>3. AnswerOf(p)' = AnswerOf(p)
    BY <2>1 DEF AnswerOf
  <2>4. QED
    BY <2>1, <2>2, <2>3, SetValues
<1>9. CASE InsertGoesOn(p)
  <2>1. /\ pc[p] \in {"absent", "stopped"} /\ pc'[p] = "path" /\ result' = result
        /\ call'[p] = [call[p] EXCEPT !.aim = "insert"]
    BY <1>1, <1>9 DEF InsertGoesOn, Looked
  <2>2. call'[p].op = call[p].op /\ call'[p].key = call[p].key
    <3>1. call[p] \in Calls
      BY <1>1
    <3>2. QED
      BY <2>1, <3>1 DEF Calls
  <2>3. Members' = Members
    BY <1>9, <2>1, Stays DEF ListChanges, Unlink, LinkNode, InsertLink, MarkRemoved,
                        RemoveMark, Goto
  <2>4. AnswerOf(p)' = AnswerOf(p)
    BY <2>1 DEF AnswerOf
  <2>5. QED
    BY <2>2, <2>3, <2>4, SetValues
<1>10. CASE /\ ~ ListChanges(p) /\ ~ Insert(p) /\ ~ FindOrRemove(p) /\ ~ Return(p)
            /\ ~ Answers(p) /\ ~ InsertGoesOn(p)
  <2>1. /\ call'[p].op = call[p].op /\ call'[p].key = call[p].key
        /\ Members' = Members
    BY <1>10, KeepsOn, Stays
  <2>2. ~ LinkFails(p) /\ ~ MarkFails(p)
    BY Undisturbed
  <2>3. /\ result' = result /\ pc[p] # "uncount"
        /\ pc'[p] \notin {"count", "uncount"}
        /\ pc[p] = "count" => call[p].making # 0
    BY <1>1, <1>10, <2>2
       DEF ListStep, SearchStep, Search, SearchLoad, SearchChanged, SearchProtect,
           Help, Unlink, SearchAgain, Recheck, Examine, LoadLink, InsertLoad,
           LoadRemoved, RemoveLoad, TableStep, LoadCurrent, CheckFactor, Grow,
           Publish, FindPath, PassBucket, MissBucket, ClaimBucket, SearchDummy,
           StoreHead, SearchKey, BeginSearch, RemoveClaims, Looked, CountDummy,
           Count, Answers, ListChanges, Goto
  <2>4. AnswerOf(p)' = AnswerOf(p)
    BY <2>3 DEF AnswerOf
  <2>5. QED
    BY <2>1, <2>4, SetValues
<1>11. Unlink(p) => SearchStep(p)
  BY SearchUnlinks
<1>12. QED
  BY <1>2, <1>3, <1>4, <1>5, <1>6, <1>7, <1>8, <1>9, <1>10, <1>11
     DEF ListChanges, Answers

\* With one thread the hash table implements the set of KeySet: every call does
\* what the set's call does and answers what it answers, whatever buckets are
\* made and segments added on the way.
THEOREM ImplementsSet ==
  ASSUME Alone
  PROVE  Spec => SetSpec
<1>1. Init => Set!Init
  <2> SUFFICES ASSUME Init PROVE Set!Init
    OBVIOUS
  <2>1. /\ pc = [p \in Threads |-> "idle"] /\ call = [p \in Threads |-> NoCall]
        /\ result = [p \in Threads |-> "none"]
    BY DEF Init, ListInit
  <2>2. Members = {}
    <3>1. /\ SetInv /\ Chained = {2} /\ next[2] = Nil
      <4>1. 2 \in Nodes /\ 2 # First /\ 2 # Ghost
        BY Constants DEF First, Ghost
      <4>2. next[2] = Nil
        BY <4>1 DEF Init, ListInit
      <4>3. Reachable = 0 .. 2
        BY FirstList DEF Init, ListInit
      <4>4. QED
        BY <4>2, <4>3, InitSetInv DEF Chained, First, Ghost
    <3>2. Live = {Ghost, 2}
      BY <3>1, LiveChained DEF SetInv, ChainInv, Nil, Link
    <3>3. item[Ghost].dummy /\ item[2].dummy
      BY <3>1 DEF SetInv, Beginning, Item
    <3>4. QED
      BY <3>2, <3>3, LiveIs
  <2>3. QED
    BY <2>1, <2>2 DEF Set!Init, Members, NoCall
<1>2. SetInv /\ [Next]_vars => [Set!Next]_(Set!kvars)
  <2> SUFFICES ASSUME SetInv, [Next]_vars PROVE [Set!Next]_(Set!kvars)
    OBVIOUS
  <2>1. CASE Next
    <3>1. PICK p \in Threads : TableStep(p) \/ ListStep(p)
      BY <2>1, Steps
    <3>2. QED
      BY <3>1, SetStep DEF Set!Next
  <2>2. CASE UNCHANGED vars
    <3>1. /\ next' = next /\ item' = item /\ pc' = pc /\ call' = call
          /\ result' = result
      BY <2>2 DEF vars, listVars
    <3>2. Live' = Live
      BY <3>1 DEF Live, Reachable
    <3>3. QED
      BY <3>1, <3>2 DEF Set!kvars
  <2>3. QED
    BY <2>1, <2>2
<1>3. Spec => []SetInv
  BY SetInvariance
<1>4. QED
  BY <1>1, <1>2, <1>3, PTL DEF Spec, SetSpec, Set!Spec
=============================================================================
