--------------------------- MODULE FreeListProofs ---------------------------
(***************************************************************************)
(* FreeList is a stack for any number of threads and nodes, as long as one *)
(* thread at a time pops.                                                  *)
(***************************************************************************)
EXTENDS FreeList, FiniteSetTheorems, SequenceTheorems, TLAPS

\* What the two successful CASes do to the contents: the elements move one
\* place back in a push (PushTake) and one place forward in a pop (PopTake).
LEMMA ConsElements ==
  ASSUME NEW S, NEW s \in Seq(S), NEW e \in S
  PROVE  /\ <<e>> \o s \in Seq(S)
         /\ Len(<<e>> \o s) = Len(s) + 1
         /\ (<<e>> \o s)[1] = e
         /\ \A i \in 1 .. Len(s) : (<<e>> \o s)[i + 1] = s[i]
<1>1. /\ <<e>> \in Seq(S)
      /\ Len(<<e>>) = 1
      /\ <<e>>[1] = e
  OBVIOUS
<1>2. Len(s) \in Nat
  OBVIOUS
<1>3. /\ <<e>> \o s \in Seq(S)
      /\ Len(<<e>> \o s) = Len(<<e>>) + Len(s)
      /\ \A i \in 1 .. Len(<<e>>) + Len(s) :
           (<<e>> \o s)[i] = IF i <= Len(<<e>>) THEN <<e>>[i]
                             ELSE s[i - Len(<<e>>)]
  BY <1>1, ConcatProperties
<1>4. QED
  BY <1>1, <1>2, <1>3

\* The initial state: an empty list, and no thread in an operation.
LEMMA InitIInv == Init => IInv
<1> SUFFICES ASSUME Init PROVE IInv
  OBVIOUS
<1>1. TypeOK
  BY NodeAssumption DEF Init, TypeOK, Cells, Pointers, Pcs
<1>2. Linked
  BY NodeAssumption DEF Init, Linked, At, Cells
<1>3. Owned /\ PopLocals /\ PopperPcs
  BY DEF Init, Owned, PopLocals, PopperPcs
<1>4. QED
  BY <1>1, <1>2, <1>3 DEF IInv

\* What PopTake takes: the first element, and there is one.
LEMMA TakenIsFirst ==
  ASSUME IInv, NEW t \in Threads, PopTake(t)
  PROVE  /\ content # <<>>
         /\ seen[t] \in Nodes
         /\ seen[t] = content[1]
         /\ Len(content) \in Nat \ {0}
         /\ succ[t] = At(2)
         /\ t \in Poppers
<1>1. /\ t \in Poppers
      /\ seen[t] = Sentinel \/ seen[t] \in Nodes
      /\ succ[t] = next[seen[t]]
  BY DEF IInv, PopLocals, PopTake, Goto
<1>2. seen[t] # Sentinel
  BY <1>1 DEF IInv, Linked, PopTake, PopWins
<1>3. content \in Seq(Nodes) /\ Len(content) \in Nat
  BY DEF IInv, TypeOK
<1>4. 1 <= Len(content)
  BY <1>2, <1>3 DEF IInv, Linked, At, PopTake, PopWins
<1>5. content # <<>>
  BY <1>3, <1>4
<1>6. seen[t] = content[1]
  BY <1>4 DEF IInv, Linked, At, PopTake, PopWins
<1>7. next[content[1]] = At(2)
  BY <1>3, <1>4 DEF IInv, Linked
<1>8. QED
  BY <1>1, <1>2, <1>3, <1>4, <1>5, <1>6, <1>7

\* Type correctness of one step, given what the step needs to know of the node
\* a thread holds and of the pointer pop follows.
LEMMA StepType ==
  ASSUME IInv, NEW t \in Threads, Step(t)
  PROVE  TypeOK'
<1> USE NodeAssumption, PopperAssumption
        DEF TypeOK, IInv, Goto, Pcs, Cells, Pointers
<1>1. CASE CreateNode(t)
  BY <1>1 DEF CreateNode
<1>2. CASE PushLoad(t)
  BY <1>2 DEF PushLoad, Owned
<1>3. CASE PushTake(t)
  <2>1. node[t] \in Nodes
    BY <1>3 DEF PushTake, Owned
  <2>2. <<node[t]>> \o content \in Seq(Nodes)
    BY <2>1, ConsElements
  <2>3. QED
    BY <1>3, <2>1, <2>2 DEF PushTake
<1>4. CASE PushRetry(t)
  BY <1>4 DEF PushRetry
<1>5. CASE PushCount(t)
  BY <1>5 DEF PushCount
<1>6. CASE StartPop(t)
  BY <1>6 DEF StartPop
<1>7. CASE PopLoad(t)
  BY <1>7 DEF PopLoad
<1>8. CASE PopNext(t)
  BY <1>8 DEF PopNext, PopLocals
<1>9. CASE PopEmpty(t)
  BY <1>9 DEF PopEmpty
<1>10. CASE PopTake(t)
  <2>1. content # <<>> /\ seen[t] \in Nodes
    BY <1>10, TakenIsFirst
  <2>2. Tail(content) \in Seq(Nodes)
    BY <2>1, HeadTailProperties
  <2>3. QED
    BY <1>10, <2>1, <2>2 DEF PopTake
<1>11. CASE PopRetry(t)
  BY <1>11 DEF PopRetry
<1>12. CASE PopCount(t)
  BY <1>12 DEF PopCount
<1>13. CASE Deallocate(t)
  BY <1>13 DEF Deallocate, Owned
<1>14. QED
  BY <1>1, <1>2, <1>3, <1>4, <1>5, <1>6, <1>7, <1>8, <1>9, <1>10, <1>11, <1>12,
     <1>13 DEF Step

\* Threads that hold a node hold different ones, after a step as before it.
LEMMA StepOwned ==
  ASSUME IInv, NEW t \in Threads, Step(t)
  PROVE  Owned'
<1> USE NodeAssumption DEF TypeOK, IInv, Goto, Owned, Pcs, Cells, Pointers
<1>1. CASE CreateNode(t)
  BY <1>1 DEF CreateNode
<1>2. CASE PushLoad(t)
  BY <1>2 DEF PushLoad
<1>3. CASE PushTake(t)
  BY <1>3 DEF PushTake
<1>4. CASE PushRetry(t)
  BY <1>4 DEF PushRetry
<1>5. CASE PushCount(t)
  BY <1>5 DEF PushCount
<1>6. CASE StartPop(t)
  BY <1>6 DEF StartPop
<1>7. CASE PopLoad(t)
  BY <1>7 DEF PopLoad
<1>8. CASE PopNext(t)
  BY <1>8 DEF PopNext
<1>9. CASE PopEmpty(t)
  BY <1>9 DEF PopEmpty
<1>10. CASE PopTake(t)
  <2>1. seen[t] \in Nodes /\ where[seen[t]] = "list"
    BY <1>10, TakenIsFirst DEF PopTake, PopLocals
  <2>2. QED
    BY <1>10, <2>1 DEF PopTake
<1>11. CASE PopRetry(t)
  BY <1>11 DEF PopRetry
<1>12. CASE PopCount(t)
  BY <1>12 DEF PopCount
<1>13. CASE Deallocate(t)
  BY <1>13 DEF Deallocate
<1>14. QED
  BY <1>1, <1>2, <1>3, <1>4, <1>5, <1>6, <1>7, <1>8, <1>9, <1>10, <1>11, <1>12,
     <1>13 DEF Step

\* The chain of a step that leaves the list alone: whatever it writes to next_,
\* it writes to a node outside the list.
LEMMA LinkedElsewhere ==
  ASSUME IInv, head' = head, content' = content,
         \A n \in Nodes : where[n] = "list" <=> where'[n] = "list",
         \A n \in Nodes : where[n] = "list" => next'[n] = next[n],
         next'[Sentinel] = next[Sentinel]
  PROVE  Linked'
<1>1. \A i \in 1 .. Len(content) :
        content[i] \in Nodes /\ where[content[i]] = "list"
  BY DEF IInv, TypeOK, Linked
<1>2. \A i \in 1 .. Len(content) : next'[content[i]] = next[content[i]]
  BY <1>1
<1>3. QED
  BY <1>2 DEF IInv, Linked, At

\* A push that wins its CAS puts its node in front of a list that is as long as
\* before, and the node points to what was the first.
LEMMA PushLinked ==
  ASSUME IInv, NEW t \in Threads, PushTake(t)
  PROVE  Linked'
<1> DEFINE n == node[t]
           L == Len(content)
<1>1. /\ n \in Nodes
      /\ where[n] = t
      /\ where[n] # "list"
  BY NodeAssumption DEF IInv, Owned, PushTake, Goto
<1>2. content \in Seq(Nodes) /\ L \in Nat
  BY DEF IInv, TypeOK
<1>3. /\ content' = <<n>> \o content
      /\ Len(content') = L + 1
      /\ content'[1] = n
      /\ \A i \in 1 .. L : content'[i + 1] = content[i]
  BY <1>1, <1>2, ConsElements DEF PushTake
<1> HIDE DEF n
<1>4. /\ head' = n
      /\ next' = next
      /\ next[n] = head
      /\ where' = [where EXCEPT ![n] = "list"]
  BY DEF PushTake, PushWins, n
<1>5. \A j \in 1 .. L + 1 : At(j + 1)' = At(j)
  <2> SUFFICES ASSUME NEW j \in 1 .. L + 1 PROVE At(j + 1)' = At(j)
    OBVIOUS
  <2>1. CASE j <= L
    BY <1>2, <1>3, <2>1 DEF At
  <2>2. CASE j = L + 1
    BY <1>2, <1>3, <2>2 DEF At
  <2>3. QED
    BY <1>2, <2>1, <2>2
<1>6. head' = At(1)'
  BY <1>2, <1>3, <1>4 DEF At
<1>7. \A i \in 1 .. L + 1 : i = 1 \/ (i - 1 \in 1 .. L /\ content'[i] = content[i - 1])
  <2> SUFFICES ASSUME NEW i \in 1 .. L + 1, i # 1
               PROVE  i - 1 \in 1 .. L /\ content'[i] = content[i - 1]
    OBVIOUS
  <2>1. i - 1 \in 1 .. L
    BY <1>2
  <2>2. content'[(i - 1) + 1] = content[i - 1]
    BY <1>3, <2>1
  <2>3. QED
    BY <1>2, <2>1, <2>2
<1>8. \A i \in 1 .. Len(content') : next'[content'[i]] = At(i + 1)'
  <2> SUFFICES ASSUME NEW i \in 1 .. L + 1
               PROVE  next'[content'[i]] = At(i)
    BY <1>2, <1>3, <1>5
  <2>1. CASE i = 1
    BY <1>3, <1>4, <2>1 DEF IInv, Linked
  <2>2. CASE i # 1
    <3>1. i - 1 \in 1 .. L /\ content'[i] = content[i - 1]
      BY <1>7, <2>2
    <3>2. next[content[i - 1]] = At((i - 1) + 1)
      BY <3>1 DEF IInv, Linked
    <3>3. QED
      BY <1>2, <1>4, <3>1, <3>2
  <2>3. QED
    BY <2>1, <2>2
<1>9. next'[Sentinel] = NULL
  BY <1>4 DEF IInv, Linked
<1>10. \A i \in 1 .. L : content[i] # n /\ content[i] \in Nodes
  BY <1>1, <1>2 DEF IInv, Linked
<1>11. \A i, j \in 1 .. Len(content') : content'[i] = content'[j] => i = j
  <2> SUFFICES ASSUME NEW i \in 1 .. L + 1, NEW j \in 1 .. L + 1,
                      content'[i] = content'[j]
               PROVE  i = j
    BY <1>2, <1>3
  <2>1. CASE i = 1 \/ j = 1
    BY <1>3, <1>7, <1>10, <2>1
  <2>2. CASE i # 1 /\ j # 1
    <3>1. /\ i - 1 \in 1 .. L
          /\ j - 1 \in 1 .. L
          /\ content[i - 1] = content[j - 1]
      BY <1>7, <2>2
    <3>2. i - 1 = j - 1
      BY <3>1 DEF IInv, Linked
    <3>3. QED
      BY <1>2, <3>2
  <2>3. QED
    BY <2>1, <2>2
<1>12. \A m \in Nodes :
         where'[m] = "list" <=> \E i \in 1 .. Len(content') : content'[i] = m
  <2> SUFFICES ASSUME NEW m \in Nodes
               PROVE  where'[m] = "list" <=>
                        \E i \in 1 .. L + 1 : content'[i] = m
    BY <1>3
  <2>1. CASE m = n
    <3>1. where'[m] = "list"
      BY <1>1, <1>4, <2>1 DEF IInv, TypeOK
    <3>2. 1 \in 1 .. L + 1 /\ content'[1] = m
      BY <1>2, <1>3, <2>1
    <3>3. QED
      BY <3>1, <3>2
  <2>2. CASE m # n
    <3>1. where'[m] = where[m]
      BY <1>1, <1>4, <2>2 DEF IInv, TypeOK
    <3>2. where[m] = "list" <=> \E i \in 1 .. L : content[i] = m
      BY DEF IInv, Linked
    <3>3. ASSUME NEW i \in 1 .. L, content[i] = m
          PROVE  \E k \in 1 .. L + 1 : content'[k] = m
      <4>1. i + 1 \in 1 .. L + 1 /\ content'[i + 1] = m
        BY <1>2, <1>3, <3>3
      <4>2. QED
        BY <4>1
    <3>4. ASSUME NEW k \in 1 .. L + 1, content'[k] = m
          PROVE  \E i \in 1 .. L : content[i] = m
      <4>1. k # 1
        BY <1>3, <2>2, <3>4
      <4>2. k - 1 \in 1 .. L /\ content[k - 1] = m
        BY <1>7, <3>4, <4>1
      <4>3. QED
        BY <4>2
    <3>5. QED
      BY <3>1, <3>2, <3>3, <3>4
  <2>3. QED
    BY <2>1, <2>2
<1>13. QED
  BY <1>6, <1>8, <1>9, <1>11, <1>12 DEF Linked

\* A pop that wins its CAS leaves the rest of the list, in the same order.
LEMMA PopLinked ==
  ASSUME IInv, NEW t \in Threads, PopTake(t)
  PROVE  Linked'
<1> DEFINE n == seen[t]
           L == Len(content)
<1>1. /\ content \in Seq(Nodes)
      /\ content # <<>>
      /\ L \in Nat \ {0}
      /\ n \in Nodes
      /\ n = content[1]
      /\ succ[t] = At(2)
  BY TakenIsFirst DEF IInv, TypeOK
<1>2. /\ content' = Tail(content)
      /\ Len(content') = L - 1
      /\ \A i \in 1 .. L - 1 : content'[i] = content[i + 1]
  BY <1>1, HeadTailProperties DEF PopTake
<1> HIDE DEF n
<1>3. /\ head' = At(2)
      /\ next' = next
      /\ where' = [where EXCEPT ![n] = t]
  BY <1>1 DEF PopTake, n
<1>4. \A i \in 1 .. L : At(i)' = At(i + 1)
  <2> SUFFICES ASSUME NEW i \in 1 .. L PROVE At(i)' = At(i + 1)
    OBVIOUS
  <2>1. CASE i <= L - 1
    BY <1>1, <1>2, <2>1 DEF At
  <2>2. CASE i = L
    BY <1>1, <1>2, <2>2 DEF At
  <2>3. QED
    BY <1>1, <2>1, <2>2
<1>5. head' = At(1)'
  BY <1>1, <1>3, <1>4
<1>6. \A i \in 1 .. Len(content') : next'[content'[i]] = At(i + 1)'
  <2> SUFFICES ASSUME NEW i \in 1 .. L - 1
               PROVE  next[content[i + 1]] = At((i + 1) + 1)
    BY <1>1, <1>2, <1>3, <1>4
  <2>1. i + 1 \in 1 .. L
    BY <1>1
  <2>2. QED
    BY <2>1 DEF IInv, Linked
<1>7. next'[Sentinel] = NULL
  BY <1>3 DEF IInv, Linked
<1>8. \A i, j \in 1 .. Len(content') : content'[i] = content'[j] => i = j
  <2> SUFFICES ASSUME NEW i \in 1 .. L - 1, NEW j \in 1 .. L - 1,
                      content[i + 1] = content[j + 1]
               PROVE  i = j
    BY <1>2
  <2>1. i + 1 \in 1 .. L /\ j + 1 \in 1 .. L
    BY <1>1
  <2>2. i + 1 = j + 1
    BY <2>1 DEF IInv, Linked
  <2>3. QED
    BY <1>1, <2>2
<1>9. \A m \in Nodes :
        where'[m] = "list" <=> \E i \in 1 .. Len(content') : content'[i] = m
  <2> SUFFICES ASSUME NEW m \in Nodes
               PROVE  where'[m] = "list" <=>
                        \E i \in 1 .. L - 1 : content[i + 1] = m
    BY <1>2
  <2>1. where[m] = "list" <=> \E i \in 1 .. L : content[i] = m
    BY DEF IInv, Linked
  <2>2. CASE m = n
    <3>1. where'[m] # "list"
      BY <1>1, <1>3, <2>2, NodeAssumption DEF IInv, TypeOK
    <3>2. ASSUME NEW i \in 1 .. L - 1, content[i + 1] = m
          PROVE  FALSE
      <4>1. i + 1 \in 1 .. L /\ 1 \in 1 .. L /\ content[i + 1] = content[1]
        BY <1>1, <2>2, <3>2
      <4>2. i + 1 = 1
        BY <4>1 DEF IInv, Linked
      <4>3. QED
        BY <1>1, <4>2
    <3>3. QED
      BY <3>1, <3>2
  <2>3. CASE m # n
    <3>1. where'[m] = where[m]
      BY <1>1, <1>3, <2>3 DEF IInv, TypeOK
    <3>2. ASSUME NEW i \in 1 .. L, content[i] = m
          PROVE  \E k \in 1 .. L - 1 : content[k + 1] = m
      <4>1. i # 1
        BY <1>1, <2>3, <3>2
      <4>2. i - 1 \in 1 .. L - 1 /\ content[(i - 1) + 1] = m
        BY <1>1, <3>2, <4>1
      <4>3. QED
        BY <4>2
    <3>3. ASSUME NEW k \in 1 .. L - 1, content[k + 1] = m
          PROVE  \E i \in 1 .. L : content[i] = m
      <4>1. k + 1 \in 1 .. L
        BY <1>1
      <4>2. QED
        BY <3>3, <4>1
    <3>4. QED
      BY <2>1, <3>1, <3>2, <3>3
  <2>4. QED
    BY <2>2, <2>3
<1>10. QED
  BY <1>5, <1>6, <1>7, <1>8, <1>9 DEF Linked

\* The chain survives every step.
LEMMA StepLinked ==
  ASSUME IInv, NEW t \in Threads, Step(t)
  PROVE  Linked'
<1> USE NodeAssumption
<1>1. CASE CreateNode(t)
  BY <1>1, LinkedElsewhere DEF CreateNode, IInv, TypeOK, Cells
<1>2. CASE PushLoad(t)
  BY <1>2, LinkedElsewhere DEF PushLoad, Goto, Owned, IInv, TypeOK, Cells
<1>3. CASE PushTake(t)
  BY <1>3, PushLinked
<1>4. CASE PopTake(t)
  BY <1>4, PopLinked
<1>5. CASE Deallocate(t)
  BY <1>5, LinkedElsewhere DEF Deallocate, Goto, Owned, IInv, TypeOK
<1>6. CASE \/ PushRetry(t) \/ PushCount(t) \/ StartPop(t) \/ PopLoad(t)
           \/ PopNext(t) \/ PopEmpty(t) \/ PopRetry(t) \/ PopCount(t)
  BY <1>6, LinkedElsewhere
     DEF PushRetry, PushCount, StartPop, PopLoad, PopNext, PopEmpty, PopRetry,
         PopCount
<1>7. QED
  BY <1>1, <1>2, <1>3, <1>4, <1>5, <1>6 DEF Step

\* Only a popper is on its way to pop.
LEMMA StepPopperPcs ==
  ASSUME IInv, NEW t \in Threads, Step(t)
  PROVE  PopperPcs'
  BY DEF IInv, TypeOK, PopperPcs, Step, Goto, CreateNode, PushLoad, PushTake,
         PushRetry, PushCount, StartPop, PopLoad, PopNext, PopEmpty, PopTake,
         PopRetry, PopCount, Deallocate

\* head_ is the sentinel or a node of the list: what PopLoad and PopRetry load.
LEMMA HeadInList ==
  ASSUME IInv
  PROVE  \/ head = Sentinel
         \/ head \in Nodes /\ where[head] = "list"
<1>1. content \in Seq(Nodes) /\ Len(content) \in Nat
  BY DEF IInv, TypeOK
<1>2. CASE Len(content) = 0
  BY <1>1, <1>2 DEF IInv, Linked, At
<1>3. CASE Len(content) # 0
  <2>1. 1 \in 1 .. Len(content) /\ head = content[1] /\ content[1] \in Nodes
    BY <1>1, <1>3 DEF IInv, Linked, At
  <2>2. QED
    BY <2>1 DEF IInv, Linked
<1>4. QED
  BY <1>2, <1>3

\* What one step does to the node a pop follows: nothing, as the other threads
\* write only to nodes of their own and take no node from the list.
LEMMA StepPopLocals ==
  ASSUME IInv, OnePopper, NEW t \in Threads, Step(t)
  PROVE  PopLocals'
<1> USE NodeAssumption DEF TypeOK, IInv, Goto, PopLocals, Pcs, Cells, Pointers
<1>1. CASE CreateNode(t)
  BY <1>1 DEF CreateNode
<1>2. CASE PushLoad(t)
  BY <1>2 DEF PushLoad, Owned
<1>3. CASE PushTake(t)
  BY <1>3 DEF PushTake, Owned
<1>4. CASE PushRetry(t)
  BY <1>4 DEF PushRetry
<1>5. CASE PushCount(t)
  BY <1>5 DEF PushCount
<1>6. CASE StartPop(t)
  BY <1>6 DEF StartPop
<1>7. CASE PopLoad(t)
  BY <1>7, HeadInList DEF PopLoad, PopperPcs
<1>8. CASE PopNext(t)
  BY <1>8 DEF PopNext
<1>9. CASE PopEmpty(t)
  BY <1>9 DEF PopEmpty
<1>10. CASE PopTake(t)
  BY <1>10 DEF PopTake, OnePopper
<1>11. CASE PopRetry(t)
  BY <1>11, HeadInList DEF PopRetry
<1>12. CASE PopCount(t)
  BY <1>12 DEF PopCount
<1>13. CASE Deallocate(t)
  BY <1>13 DEF Deallocate, Owned
<1>14. QED
  BY <1>1, <1>2, <1>3, <1>4, <1>5, <1>6, <1>7, <1>8, <1>9, <1>10, <1>11, <1>12,
     <1>13 DEF Step

-----------------------------------------------------------------------------
\* IInv is inductive while one thread pops.
LEMMA Inductive ==
  ASSUME OnePopper
  PROVE  IInv /\ [Next]_vars => IInv'
<1> SUFFICES ASSUME IInv, [Next]_vars PROVE IInv'
  OBVIOUS
<1>1. ASSUME NEW t \in Threads, Step(t)
      PROVE  IInv'
  <2>1. TypeOK'
    BY <1>1, StepType
  <2>2. Linked'
    BY <1>1, StepLinked
  <2>3. Owned'
    BY <1>1, StepOwned
  <2>4. PopLocals'
    BY <1>1, StepPopLocals
  <2>5. PopperPcs'
    BY <1>1, StepPopperPcs
  <2>6. QED
    BY <2>1, <2>2, <2>3, <2>4, <2>5 DEF IInv
<1>2. CASE UNCHANGED vars
  BY <1>2 DEF vars, IInv, TypeOK, Linked, At, Owned, PopLocals, PopperPcs
<1>3. QED
  BY <1>1, <1>2 DEF Next

\* Every list of the library with one thread that pops at a time: its state is
\* always one IInv describes.
THEOREM Invariance == ASSUME OnePopper PROVE Spec => []IInv
<1>1. Init => IInv
  BY InitIInv
<1>2. IInv /\ [Next]_vars => IInv'
  BY Inductive
<1>3. QED
  BY <1>1, <1>2, PTL DEF Spec

\* The variables of FreeList keep their types; Tail is never taken of an empty
\* list, and next_ never read of a null pointer.
THEOREM TypeCorrect == ASSUME OnePopper PROVE Spec => []TypeOK
<1>1. IInv => TypeOK
  BY DEF IInv
<1>2. QED
  BY <1>1, Invariance, PTL

\* No push or pop loses or repeats an element: head_ and next_ always link
\* exactly what was pushed and not popped, in stack order.
THEOREM ListIntact == ASSUME OnePopper PROVE Spec => []Linked
<1>1. IInv => Linked
  BY DEF IInv
<1>2. QED
  BY <1>1, Invariance, PTL

\* pop never reads next_ of freed memory: the pop of scan() needs no hazard
\* pointer of its own.
THEOREM SafePop == ASSUME OnePopper PROVE Spec => []NoReadAfterFree
<1>1. IInv => NoReadAfterFree
  BY NodeAssumption DEF IInv, PopLocals, NoReadAfterFree
<1>2. QED
  BY <1>1, Invariance, PTL

-----------------------------------------------------------------------------
\* The threads at a step, counted: one more when a thread comes to it, one
\* fewer when it leaves.
InStep(s) == {t \in Threads : pc[t] = s}

\* A step of one thread changes the count of a place of the program by one if
\* the thread arrives there or leaves it, and not at all otherwise.
LEMMA CountSteps ==
  ASSUME IsFiniteSet(Threads), pc \in [Threads -> Pcs], NEW t \in Threads,
         NEW from, NEW to, from # to, Goto(t, from, to)
  PROVE  /\ Cardinality(InStep(from)') = Cardinality(InStep(from)) - 1
         /\ Cardinality(InStep(to)') = Cardinality(InStep(to)) + 1
         /\ \A s : s \notin {from, to} => InStep(s)' = InStep(s)
         /\ \A s : Cardinality(InStep(s)) \in Nat
<1>1. \A s : IsFiniteSet(InStep(s)) /\ Cardinality(InStep(s)) \in Nat
  <2> TAKE s
  <2>1. InStep(s) \subseteq Threads
    BY DEF InStep
  <2>2. QED
    BY <2>1, FS_Subset, FS_CardinalityType
<1>2. /\ t \in InStep(from)
      /\ InStep(from)' = InStep(from) \ {t}
  BY DEF InStep, Goto
<1>3. /\ t \notin InStep(to)
      /\ InStep(to)' = InStep(to) \cup {t}
  BY DEF InStep, Goto
<1>4. \A s : s \notin {from, to} => InStep(s)' = InStep(s)
  BY DEF InStep, Goto
<1>5. Cardinality(InStep(from)') = Cardinality(InStep(from)) - 1
  BY <1>1, <1>2, FS_RemoveElement
<1>6. Cardinality(InStep(to)') = Cardinality(InStep(to)) + 1
  BY <1>1, <1>3, FS_AddElement
<1>7. QED
  BY <1>1, <1>4, <1>5, <1>6

\* Balanced by the counts of the two places between a CAS and its counting.
LEMMA BalancedCounts ==
  Balanced <=> counter = Len(content) - Cardinality(InStep("pushCount"))
                         + Cardinality(InStep("popCount"))
  BY DEF Balanced, InStep

\* The counter and the length of the list part by one at a CAS, and the thread
\* that has done it is counted until it makes up for that.
LEMMA StepBalanced ==
  ASSUME IsFiniteSet(Threads), IInv, Balanced, NEW t \in Threads, Step(t)
  PROVE  Balanced'
<1> DEFINE Pushed == Cardinality(InStep("pushCount"))
           Popped == Cardinality(InStep("popCount"))
<1>1. /\ pc \in [Threads -> Pcs]
      /\ counter \in Int
      /\ content \in Seq(Nodes)
      /\ Len(content) \in Nat
  BY DEF IInv, TypeOK
<1>2. /\ counter = Len(content) - Pushed + Popped
      /\ Balanced' <=> counter' = Len(content') - Pushed' + Popped'
  BY BalancedCounts DEF Balanced, InStep
<1>3. CASE PushTake(t)
  <2>1. Pushed' = Pushed + 1 /\ Popped' = Popped /\ Pushed \in Nat /\ Popped \in Nat
    <3>1. Goto(t, "pushCas", "pushCount")
      BY <1>3 DEF PushTake
    <3>2. QED
      BY <1>1, <3>1, CountSteps
  <2>2. node[t] \in Nodes
    BY <1>3 DEF PushTake, Goto, Owned, IInv
  <2>3. Len(content') = Len(content) + 1 /\ counter' = counter
    BY <1>1, <1>3, <2>2, ConsElements DEF PushTake
  <2> HIDE DEF Pushed, Popped
  <2>4. QED
    BY <1>1, <1>2, <2>1, <2>3
<1>4. CASE PushCount(t)
  <2>1. Pushed' = Pushed - 1 /\ Popped' = Popped /\ Pushed \in Nat /\ Popped \in Nat
    <3>1. Goto(t, "pushCount", "idle")
      BY <1>4 DEF PushCount
    <3>2. QED
      BY <1>1, <3>1, CountSteps
  <2>2. content' = content /\ counter' = counter + 1
    BY <1>4 DEF PushCount
  <2> HIDE DEF Pushed, Popped
  <2>3. QED
    BY <1>1, <1>2, <2>1, <2>2
<1>5. CASE PopTake(t)
  <2>1. Popped' = Popped + 1 /\ Pushed' = Pushed /\ Pushed \in Nat /\ Popped \in Nat
    <3>1. Goto(t, "popCas", "popCount")
      BY <1>5 DEF PopTake
    <3>2. QED
      BY <1>1, <3>1, CountSteps
  <2>2. content # <<>>
    BY <1>5, TakenIsFirst
  <2>3. Len(content') = Len(content) - 1 /\ counter' = counter
    BY <1>1, <1>5, <2>2, HeadTailProperties DEF PopTake
  <2> HIDE DEF Pushed, Popped
  <2>4. QED
    BY <1>1, <1>2, <2>1, <2>3
<1>6. CASE PopCount(t)
  <2>1. Popped' = Popped - 1 /\ Pushed' = Pushed /\ Pushed \in Nat /\ Popped \in Nat
    <3>1. Goto(t, "popCount", "popped")
      BY <1>6 DEF PopCount
    <3>2. QED
      BY <1>1, <3>1, CountSteps
  <2>2. content' = content /\ counter' = counter - 1
    BY <1>6 DEF PopCount
  <2> HIDE DEF Pushed, Popped
  <2>3. QED
    BY <1>1, <1>2, <2>1, <2>2
<1>7. CASE \/ CreateNode(t) \/ PushLoad(t) \/ PushRetry(t) \/ StartPop(t)
           \/ PopLoad(t) \/ PopNext(t) \/ PopEmpty(t) \/ PopRetry(t)
           \/ Deallocate(t)
  <2>1. /\ InStep("pushCount")' = InStep("pushCount")
        /\ InStep("popCount")' = InStep("popCount")
    BY <1>1, <1>7
       DEF InStep, Goto, CreateNode, PushLoad, PushRetry, StartPop, PopLoad,
           PopNext, PopEmpty, PopRetry, Deallocate
  <2>2. content' = content /\ counter' = counter
    BY <1>7
       DEF CreateNode, PushLoad, PushRetry, StartPop, PopLoad, PopNext,
           PopEmpty, PopRetry, Deallocate
  <2>3. QED
    BY <1>2, <2>1, <2>2
<1>8. QED
  BY <1>3, <1>4, <1>5, <1>6, <1>7 DEF Step

\* counter_ lags behind the list by the threads between a CAS and its counting,
\* and by nothing else: for finitely many threads, of which one pops, it is
\* right again whenever all of them are done.
THEOREM CounterLags ==
  ASSUME OnePopper, IsFiniteSet(Threads) PROVE Spec => []Balanced
<1>1. Init => Balanced
  <2> SUFFICES ASSUME Init PROVE Balanced
    OBVIOUS
  <2>1. InStep("pushCount") = {} /\ InStep("popCount") = {}
    BY DEF Init, InStep
  <2>2. counter = 0 /\ Len(content) = 0
    BY DEF Init
  <2>3. QED
    BY <2>1, <2>2, FS_EmptySet DEF Balanced, InStep
<1>2. IInv /\ Balanced /\ [Next]_vars => Balanced'
  <2> SUFFICES ASSUME IInv, Balanced, [Next]_vars PROVE Balanced'
    OBVIOUS
  <2>1. CASE UNCHANGED vars
    BY <2>1 DEF vars, Balanced
  <2>2. QED
    BY <2>1, StepBalanced DEF Next
<1>3. QED
  BY <1>1, <1>2, Invariance, PTL DEF Spec
=============================================================================
