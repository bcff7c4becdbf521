----------------------------- MODULE OrderList -----------------------------
(***************************************************************************)
(* include/LFS/LF_List.hpp as the hash table uses it: search, insertion    *)
(* and removal, one atomic access to shared memory per step.               *)
(*                                                                         *)
(* A link (next_) is a pointer and its low bit.  The bit says that the     *)
(* node the link points TO is deleted; searches unlink such nodes.         *)
(*                                                                         *)
(* A node is a number, in the order of creation: 0 is head_, 1 the ghost   *)
(* node, 2 the dummy the hash table inserts first.  Unlinked nodes are     *)
(* retired and never come back: scan() starts with limit_ = 10 of them,    *)
(* more than MaxNodes lets a behaviour have.  tail_ is left out, no        *)
(* operation modelled here looks at it.                                    *)
(***************************************************************************)
EXTENDS Integers, FiniteSets

CONSTANTS
  Threads,       \* threads
  NULL,          \* the null pointer
  MaxNodes       \* bound: nodes ever created

ASSUME ListAssumption ==
  /\ MaxNodes \in Nat /\ MaxNodes >= 3
  /\ NULL \notin 0 .. MaxNodes

VARIABLES
  next,          \* next_ of each node
  item,          \* data_ of each node: its place in the order, and its key
  used,          \* number of nodes created so far
  counter,       \* counter_
  retired,       \* how often each node was given to reclaim_hazard
  pc,            \* the step a thread takes next
  local          \* the local variables of search_node, insert and remove

listVars == <<next, item, used, counter, retired>>

Nodes == 0 .. MaxNodes - 1
First == 0
Ghost == 1

Link(n, marked)       == [to |-> n, marked |-> marked]
Nil                   == Link(NULL, FALSE)
Links                 == [to : Nodes \cup {NULL}, marked : BOOLEAN]
Item(rank, key, dummy) == [rank |-> rank, key |-> key, dummy |-> dummy]

\* start: `it`; goal, strict: the comparator, which stops at the first node
\* whose rank is above the goal, or not below it.
NoLocal ==
  [start |-> NULL, prev |-> NULL, curr |-> Nil, nxt |-> Nil,
   goal |-> 0, strict |-> FALSE]

\* The constructor, and the first dummy inserted behind the ghost.
ListInit ==
  /\ next = [n \in Nodes |-> CASE n = First -> Link(Ghost, FALSE)
                               [] n = Ghost -> Link(2, FALSE)
                               [] OTHER     -> Nil]
  /\ item = [n \in Nodes |-> Item(0, 0, TRUE)]
  /\ used = 3
  /\ counter = 1
  /\ retired = [n \in Nodes |-> 0]
  /\ pc = [p \in Threads |-> "idle"]
  /\ local = [p \in Threads |-> NoLocal]

Goto(p, from, to) ==
  /\ pc[p] = from
  /\ pc' = [pc EXCEPT ![p] = to]

-----------------------------------------------------------------------------
(***************************************************************************)
(* search_node.  It ends in "absent" (no node stopped it) or in "stopped"  *)
(* (curr did); prev is the node before.                                    *)
(***************************************************************************)
BeginSearch(p, from, start, goal, strict) ==
  /\ Goto(p, from, "search")
  /\ local' = [local EXCEPT ![p] = [NoLocal EXCEPT
       !.start = start, !.prev = start, !.goal = goal, !.strict = strict]]
  /\ UNCHANGED listVars

\* curr = prev->next()
SearchLoad(p) ==
  LET curr == next[local[p].prev] IN
  /\ Goto(p, "search", IF curr = Nil THEN "absent" ELSE "protect")
  /\ local' = [local EXCEPT ![p].curr = curr]
  /\ UNCHANGED listVars

\* Again from head_, not from `it`.
SearchChanged(p) ==
  /\ Goto(p, "protect", "search")
  /\ next[local[p].prev] # local[p].curr
  /\ local' = [local EXCEPT ![p].prev = First]
  /\ UNCHANGED listVars

\* Protected, and prev->next() is still what it was.
SearchProtect(p) ==
  /\ Goto(p, "protect", IF local[p].curr.marked THEN "help" ELSE "examine")
  /\ next[local[p].prev] = local[p].curr
  /\ UNCHANGED <<listVars, local>>

\* The node is deleted: next = cleared->next().
Help(p) ==
  LET cleared == local[p].curr.to IN
  /\ Goto(p, "help", "unlink")
  /\ local' = [local EXCEPT ![p].nxt = IF cleared = NULL THEN Nil
                                       ELSE next[cleared]]
  /\ UNCHANGED listVars

\* compare_exchange of prev's link; whoever wins retires the node.
Unlink(p) ==
  LET prev    == local[p].prev
      cleared == local[p].curr.to
  IN
  /\ Goto(p, "unlink", "recheck")
  /\ next[prev] = local[p].curr
  /\ next' = [next EXCEPT ![prev] = local[p].nxt]
  /\ retired' = IF cleared = NULL THEN retired
                ELSE [retired EXCEPT ![cleared] = @ + 1]
  /\ local' = [local EXCEPT ![p].curr = local[p].nxt]
  /\ UNCHANGED <<item, used, counter>>

\* Lost, or changed since: again from `it`.
SearchAgain(p) ==
  /\ \/ Goto(p, "unlink", "search")  /\ next[local[p].prev] # local[p].curr
     \/ Goto(p, "recheck", "search") /\ next[local[p].prev] # local[p].nxt
  /\ local' = [local EXCEPT ![p].prev = local[p].start]
  /\ UNCHANGED listVars

\* The next node may be deleted too, or there may be none.
Recheck(p) ==
  LET curr == local[p].curr IN
  /\ Goto(p, "recheck", IF curr.marked THEN "help"
                        ELSE IF curr.to = NULL THEN "search" ELSE "examine")
  /\ next[local[p].prev] = local[p].nxt
  /\ UNCHANGED <<listVars, local>>

\* find_comporator and insert_comporator
Stops(p, n) ==
  IF local[p].strict THEN local[p].goal < item[n].rank
  ELSE local[p].goal <= item[n].rank

Examine(p) ==
  LET n == local[p].curr.to IN
  /\ Goto(p, "examine", IF Stops(p, n) THEN "stopped" ELSE "search")
  /\ local' = IF Stops(p, n) THEN local ELSE [local EXCEPT ![p].prev = n]
  /\ UNCHANGED listVars

Search(p) ==
  \/ SearchLoad(p) \/ SearchChanged(p) \/ SearchProtect(p)
  \/ Help(p) \/ Unlink(p) \/ SearchAgain(p) \/ Recheck(p) \/ Examine(p)

-----------------------------------------------------------------------------
(***************************************************************************)
(* insert, always before the node that stopped the search                  *)
(***************************************************************************)
\* Mutant: behind the node that stopped the search (`before` is not passed).
InsertBehind(p) ==
  LET at == IF pc[p] = "stopped" THEN local[p].curr.to ELSE local[p].prev IN
  /\ \E from \in {"absent", "stopped"} : Goto(p, from, "cas")
  /\ local' = [local EXCEPT ![p].prev = at, ![p].nxt = next[at]]
  /\ UNCHANGED listVars

\* next = node->next_: not necessarily what the search has seen.
InsertLoad(p) ==
  /\ \E from \in {"absent", "stopped"} : Goto(p, from, "cas")
  /\ local' = [local EXCEPT ![p].nxt = next[local[p].prev]]
  /\ UNCHANGED listVars

\* Mutant: the link is stored, not exchanged.
InsertStores(p) == TRUE

InsertWins(p) == next[local[p].prev] = local[p].nxt

\* The CAS publishes the node, which nobody has seen before.
InsertLink(p, new, to) ==
  /\ Goto(p, "cas", to)
  /\ InsertWins(p)
  /\ used < MaxNodes
  /\ item' = [item EXCEPT ![used] = new]
  /\ next' = [next EXCEPT ![used] = local[p].nxt,
                          ![local[p].prev] = Link(used, FALSE)]
  /\ used' = used + 1
  /\ local' = [local EXCEPT ![p].curr = Link(used, FALSE)]
  /\ UNCHANGED <<counter, retired>>

Count(p, from, to, n) ==
  /\ Goto(p, from, to)
  /\ counter' = counter + n
  /\ UNCHANGED <<next, item, used, retired, local>>

-----------------------------------------------------------------------------
(***************************************************************************)
(* remove(prev): whatever prev points to by now                            *)
(***************************************************************************)
RemoveLoad(p) ==
  /\ Goto(p, "removing", "mark")
  /\ local' = [local EXCEPT ![p].nxt = next[local[p].prev]]
  /\ UNCHANGED listVars

RemoveWins(p) == next[local[p].prev] = local[p].nxt

\* corrupt_node: set the bit, unless it is set.
RemoveMark(p, to) ==
  /\ Goto(p, "mark", to)
  /\ RemoveWins(p)
  /\ next' = [next EXCEPT ![local[p].prev].marked = TRUE]
  /\ UNCHANGED <<item, used, counter, retired, local>>

-----------------------------------------------------------------------------
(***************************************************************************)
(* What the list holds.                                                    *)
(***************************************************************************)
\* The nodes that `links` lead to from head_; more than there are is no way long.
ReachableBy(links) ==
  LET way[i \in 0 .. MaxNodes] ==
        [n \in Nodes \cup {NULL} |->
           IF n = NULL \/ i = 0 THEN {} ELSE {n} \cup way[i - 1][links[n].to]]
  IN  way[MaxNodes][First]

Reachable == ReachableBy(next)

\* Reachable, and not deleted.
Live ==
  {next[m].to : m \in {n \in Reachable : ~ next[n].marked}} \ {NULL}
=============================================================================
