------------------------------ MODULE FreeList ------------------------------
(***************************************************************************)
(* include/LFS/LF_FreeList.hpp: the lock-free list of the library, as      *)
(* Hazardous uses it for its retired nodes (rlist_) and LF_stack for its   *)
(* elements: push and pop at the head, by any number of threads, one       *)
(* atomic access to shared memory per step.                                *)
(*                                                                         *)
(* The list ends in a node of its own, made by initialize(), that holds no *)
(* element; a list whose head is that node is empty.                       *)
(*                                                                         *)
(* The owner of a popped node frees it, as scan() does at once, and the    *)
(* memory may come back from the allocator in the next push.               *)
(***************************************************************************)
EXTENDS Integers, Sequences, FiniteSets

CONSTANTS
  Threads,       \* threads that push
  Poppers,       \* threads that also pop
  Nodes,         \* memory cells the allocator can hand out
  Sentinel,      \* the node made by initialize()
  NULL           \* the null pointer

ASSUME NodeAssumption ==
  /\ Sentinel \notin Nodes
  /\ NULL \notin Nodes \cup {Sentinel}
  /\ "pool" \notin Threads
  /\ "list" \notin Threads

ASSUME PopperAssumption == Poppers \subseteq Threads

VARIABLES
  head,          \* head_
  next,          \* next[n]: the next_ member of node n
  counter,       \* counter_
  where,         \* who owns a node: "pool", "list" or the thread holding it
  pc,            \* the step a thread takes next
  node,          \* push: the argument; pop: the result
  seen,          \* pop: the local variable head
  succ,          \* pop: the local variable next
  content        \* history: the elements, in the order the CASes put them

vars == <<head, next, counter, where, pc, node, seen, succ, content>>

Cells    == Nodes \cup {Sentinel}
Pointers == Cells \cup {NULL}

Pcs == {"idle", "pushLoad", "pushCas", "pushCount",
        "popLoad", "popNext", "popCas", "popCount", "popped"}

TypeOK ==
  /\ head \in Pointers
  /\ next \in [Cells -> Pointers]
  /\ counter \in Int
  /\ where \in [Nodes -> Threads \cup {"pool", "list"}]
  /\ pc \in [Threads -> Pcs]
  /\ node \in [Threads -> Nodes \cup {NULL}]
  /\ seen \in [Threads -> Pointers]
  /\ succ \in [Threads -> Pointers]
  /\ content \in Seq(Nodes)

\* initialize()
Init ==
  /\ head = Sentinel
  /\ next = [n \in Cells |-> NULL]
  /\ counter = 0
  /\ where = [n \in Nodes |-> "pool"]
  /\ pc = [t \in Threads |-> "idle"]
  /\ node = [t \in Threads |-> NULL]
  /\ seen = [t \in Threads |-> NULL]
  /\ succ = [t \in Threads |-> NULL]
  /\ content = <<>>

Goto(t, from, to) ==
  /\ pc[t] = from
  /\ pc' = [pc EXCEPT ![t] = to]

-----------------------------------------------------------------------------
(***************************************************************************)
(* push                                                                    *)
(***************************************************************************)
\* create_node: memory from the pool, next_ null.
CreateNode(t) ==
  /\ Goto(t, "idle", "pushLoad")
  /\ \E n \in Nodes :
       /\ where[n] = "pool"
       /\ where' = [where EXCEPT ![n] = t]
       /\ next' = [next EXCEPT ![n] = NULL]
       /\ node' = [node EXCEPT ![t] = n]
  /\ UNCHANGED <<head, counter, seen, succ, content>>

\* node->next_ = head_.load()
PushLoad(t) ==
  /\ Goto(t, "pushLoad", "pushCas")
  /\ next' = [next EXCEPT ![node[t]] = head]
  /\ UNCHANGED <<head, counter, where, node, seen, succ, content>>

\* Mutant: a plain store where the code has compare_exchange.
PushStores(t) == TRUE

\* The CAS finds in head_ what PushLoad found there.
PushWins(t) == head = next[node[t]]

\* head_.compare_exchange_strong(next, node)
PushTake(t) ==
  /\ Goto(t, "pushCas", "pushCount")
  /\ PushWins(t)
  /\ head' = node[t]
  /\ where' = [where EXCEPT ![node[t]] = "list"]
  /\ node' = [node EXCEPT ![t] = NULL]
  /\ content' = <<node[t]>> \o content
  /\ UNCHANGED <<next, counter, seen, succ>>

\* It failed: the loop loads head_ again.
PushRetry(t) ==
  /\ Goto(t, "pushCas", "pushLoad")
  /\ ~ PushWins(t)
  /\ UNCHANGED <<head, next, counter, where, node, seen, succ, content>>

\* Mutant: push(Node*) forgets to count, as make_hazard has to count by itself.
PushUncounted(t) ==
  /\ Goto(t, "pushCount", "idle")
  /\ UNCHANGED <<head, next, counter, where, node, seen, succ, content>>

\* counter_.fetch_add(1)
PushCount(t) ==
  /\ Goto(t, "pushCount", "idle")
  /\ counter' = counter + 1
  /\ UNCHANGED <<head, next, where, node, seen, succ, content>>

-----------------------------------------------------------------------------
(***************************************************************************)
(* pop                                                                     *)
(***************************************************************************)
StartPop(t) ==
  /\ t \in Poppers
  /\ Goto(t, "idle", "popLoad")
  /\ UNCHANGED <<head, next, counter, where, node, seen, succ, content>>

\* head = head_.load(); tail_ is loaded too, for the assertion only.
PopLoad(t) ==
  /\ Goto(t, "popLoad", "popNext")
  /\ seen' = [seen EXCEPT ![t] = head]
  /\ UNCHANGED <<head, next, counter, where, node, succ, content>>

\* next = head->next(): the node head points to may belong to anybody by now.
PopNext(t) ==
  /\ Goto(t, "popNext", "popCas")
  /\ succ' = [succ EXCEPT ![t] = next[seen[t]]]
  /\ UNCHANGED <<head, next, counter, where, node, seen, content>>

\* Mutant: pop returns head where it should return null.
PopSentinel(t) ==
  /\ succ[t] = NULL
  /\ Goto(t, "popCas", "popped")
  /\ node' = [node EXCEPT ![t] = seen[t]]
  /\ seen' = [seen EXCEPT ![t] = NULL]
  /\ UNCHANGED <<head, next, counter, where, succ, content>>

\* No next node: seen is the sentinel, the list was empty.
PopEmpty(t) ==
  /\ succ[t] = NULL
  /\ Goto(t, "popCas", "idle")
  /\ seen' = [seen EXCEPT ![t] = NULL]
  /\ UNCHANGED <<head, next, counter, where, node, succ, content>>

\* The CAS finds in head_ the node whose next_ was read.
PopWins(t) == head = seen[t]

\* head_.compare_exchange_strong(head, next)
PopTake(t) ==
  /\ Goto(t, "popCas", "popCount")
  /\ succ[t] # NULL
  /\ PopWins(t)
  /\ head' = succ[t]
  /\ where' = [where EXCEPT ![seen[t]] = t]
  /\ node' = [node EXCEPT ![t] = seen[t]]
  /\ seen' = [seen EXCEPT ![t] = NULL]
  /\ succ' = [succ EXCEPT ![t] = NULL]
  /\ content' = Tail(content)
  /\ UNCHANGED <<next, counter>>

\* It failed, and left the current head in the local variable.
PopRetry(t) ==
  /\ Goto(t, "popCas", "popNext")
  /\ succ[t] # NULL
  /\ ~ PopWins(t)
  /\ seen' = [seen EXCEPT ![t] = head]
  /\ succ' = [succ EXCEPT ![t] = NULL]
  /\ UNCHANGED <<head, next, counter, where, node, content>>

\* counter_.fetch_sub(1)
PopCount(t) ==
  /\ Goto(t, "popCount", "popped")
  /\ counter' = counter - 1
  /\ UNCHANGED <<head, next, where, node, seen, succ, content>>

-----------------------------------------------------------------------------
\* scan() gives the memory of a popped node back to the pool at once.
Deallocate(t) ==
  /\ Goto(t, "popped", "idle")
  /\ where' = [where EXCEPT ![node[t]] = "pool"]
  /\ node' = [node EXCEPT ![t] = NULL]
  /\ UNCHANGED <<head, next, counter, seen, succ, content>>

Step(t) ==
  \/ CreateNode(t) \/ PushLoad(t) \/ PushTake(t) \/ PushRetry(t) \/ PushCount(t)
  \/ StartPop(t) \/ PopLoad(t) \/ PopNext(t) \/ PopEmpty(t) \/ PopTake(t)
  \/ PopRetry(t) \/ PopCount(t) \/ Deallocate(t)

Next == \E t \in Threads : Step(t)

Spec == Init /\ [][Next]_vars

-----------------------------------------------------------------------------
(***************************************************************************)
(* Properties.  The first three need Poppers to have one member at most:   *)
(* Hazardous pops rlist_ only in scan(), which isBusy lets one thread into *)
(* at a time.                                                              *)
(***************************************************************************)
At(i) == IF i <= Len(content) THEN content[i] ELSE Sentinel

\* What head_ and the next_ members link together is exactly what was pushed
\* and not popped, newest first, each node once, with the sentinel behind it:
\* no interleaving of the CASes of push and pop loses or repeats a node.
Linked ==
  /\ head = At(1)
  /\ \A i \in 1 .. Len(content) : next[content[i]] = At(i + 1)
  /\ next[Sentinel] = NULL
  /\ \A i, j \in 1 .. Len(content) : content[i] = content[j] => i = j
  /\ \A n \in Nodes :
       where[n] = "list" <=> \E i \in 1 .. Len(content) : content[i] = n

\* pop does not read next_ of a node that went back to the allocator after pop
\* had loaded it from head_.
NoReadAfterFree ==
  \A t \in Threads :
    pc[t] = "popNext" /\ seen[t] \in Nodes => where[seen[t]] # "pool"

\* counter_ is the number of elements but for the pushes and pops that have
\* not counted yet: size() is off by the number of threads at most, and the
\* counter may be negative for a moment, which size() reports as zero.
Balanced ==
  counter = Len(content)
            - Cardinality({t \in Threads : pc[t] = "pushCount"})
            + Cardinality({t \in Threads : pc[t] = "popCount"})

-----------------------------------------------------------------------------
(***************************************************************************)
(* The inductive invariant.                                                *)
(***************************************************************************)
OnePopper == \A p, q \in Poppers : p = q

\* A node being pushed or popped belongs to the thread that does it.
Owned ==
  \A t \in Threads :
    IF pc[t] \in {"pushLoad", "pushCas", "popCount", "popped"}
    THEN node[t] \in Nodes /\ where[node[t]] = t
    ELSE node[t] = NULL

\* What pop has loaded stays in the list until pop's own CAS, so its next_ does
\* not change either.
PopLocals ==
  \A t \in Threads : pc[t] \in {"popNext", "popCas"} =>
    /\ t \in Poppers
    /\ \/ seen[t] = Sentinel
       \/ seen[t] \in Nodes /\ where[seen[t]] = "list"
    /\ pc[t] = "popCas" => succ[t] = next[seen[t]]

PopperPcs == \A t \in Threads : pc[t] = "popLoad" => t \in Poppers

IInv == TypeOK /\ Linked /\ Owned /\ PopLocals /\ PopperPcs
=============================================================================
