------------------------ MODULE HashTableInvariants ------------------------
(***************************************************************************)
(* The inductive invariants of the hash table.                             *)
(***************************************************************************)
EXTENDS HashTable

SearchPcs == {"search", "protect", "help", "unlink", "recheck", "examine",
              "absent", "stopped"}
MakerPcs  == SearchPcs \cup {"making", "cas", "count", "store"}
Pcs       == MakerPcs \cup {"idle", "inflate", "factor", "grow", "publish",
                            "path", "bucket", "claim", "removing", "mark",
                            "uncount", "done"}

Pointers == Nodes \cup {NULL}
Locals   == [start : Pointers, prev : Pointers, curr : Links, nxt : Links,
             goal : Ranks, strict : BOOLEAN]
Calls    == [op : {"none", "insert", "find", "remove"},
             key : Keys \cup {0}, aim : {"none", "insert", "find", "remove"},
             path : Seq(Buckets), bucket : Buckets, making : Buckets,
             parent : Pointers, old : 0 .. MaxSegment]

TypeOK ==
  /\ next \in [Nodes -> Links]
  /\ item \in [Nodes -> [rank : Ranks, key : Buckets \cup Keys,
                         dummy : BOOLEAN]]
  /\ used \in 3 .. MaxNodes
  /\ pc \in [Threads -> Pcs]
  /\ local \in [Threads -> Locals]
  /\ segs \subseteq 0 .. MaxSegment
  /\ current \in 0 .. MaxSegment
  /\ bhead \in [Buckets -> Pointers]
  /\ call \in [Threads -> Calls]

\* Null pointers are followed nowhere: a bucket in hand has a head, a search
\* has somewhere to go on from, and what it stopped at is a node.
Followed ==
  /\ bhead[0] # NULL
  /\ \A p \in Threads :
       /\ bhead[call[p].bucket] # NULL
       /\ pc[p] = "claim" => call[p].path # <<>> /\ call[p].parent # NULL
       /\ pc[p] \in SearchPcs \cup {"cas", "removing", "mark"} =>
            local[p].start # NULL /\ local[p].prev # NULL
       /\ pc[p] = "protect" => local[p].curr # Nil
       /\ pc[p] \in {"examine", "stopped", "count", "store"} =>
            local[p].curr.to # NULL
       /\ pc[p] # "idle" => call[p].key \in Keys

\* Who inserts a dummy has won the slot of its bucket, alone.
Makers ==
  \A p \in Threads :
    /\ call[p].making # 0 =>
         /\ pc[p] \in MakerPcs
         /\ call[p].path # <<>> /\ call[p].parent # NULL
         /\ bhead[call[p].making] # NULL
         /\ \A q \in Threads : call[q].making = call[p].making => q = p
    /\ pc[p] \in {"making", "store"} => call[p].making # 0

IsDummy(n, b) == n \in 2 .. used - 1 /\ item[n].dummy /\ item[n].key = b

\* A dummy in the list is its bucket's only one, and who makes the bucket has
\* inserted it and will not do so again.
Dummies ==
  \A b \in Buckets, n \in Nodes : IsDummy(n, b) =>
    /\ bhead[b] # NULL
    /\ \A m \in Nodes : IsDummy(m, b) => m = n
    /\ \A p \in Threads :
         call[p].making = b /\ b # 0 => pc[p] \in {"count", "store"}

\* No segment is published before all up to it are allocated.
Segments ==
  /\ 0 .. current \subseteq segs
  /\ \A p \in Threads :
       /\ pc[p] \in {"factor", "grow", "publish"} => 0 .. call[p].old \subseteq segs
       /\ pc[p] \in {"grow", "publish"} => call[p].old < MaxSegment
       /\ pc[p] = "publish" => call[p].old + 1 \in segs

IInv == TypeOK /\ Followed /\ Makers /\ Dummies /\ Segments

-----------------------------------------------------------------------------
(***************************************************************************)
(* The list that all threads share.                                        *)
(***************************************************************************)
\* Links lead to nodes that have been made, and never back to head_.
Linked(n) == n \in 1 .. used - 1 \cup {NULL}

Known ==
  /\ \A n \in 0 .. used - 1 : Linked(next[n].to)
  /\ \A p \in Threads :
       /\ Linked(local[p].start) /\ Linked(local[p].curr.to)
       /\ Linked(local[p].nxt.to)
       /\ local[p].prev # NULL => local[p].prev \in 0 .. used - 1

\* A search for a place in bucket b may start at n.
Serves(n, b) ==
  n \in 2 .. used - 1 /\ item[n].dummy /\ item[n].rank <= LowRank[b]

\* The way down to the bucket of a key: every bucket is before the next one,
\* and none behind the key.  The one in hand is before what is still to pass.
Descent ==
  \A p \in Threads :
    LET path == call[p].path IN
    /\ \A i, j \in DOMAIN path : i <= j =>
         /\ LowRank[path[i]] <= LowRank[path[j]]
         /\ LowRank[path[j]] <= LowRank[call[p].key]
    /\ pc[p] \in {"bucket", "claim"} =>
         IF path = <<>> THEN LowRank[call[p].bucket] <= LowRank[call[p].key]
         ELSE \/ pc[p] = "bucket" /\ bhead[Head(path)] # NULL
              \/ LowRank[call[p].bucket] <= LowRank[Head(path)]

\* Heads are dummies from which the bucket is found; a bucket without a dummy
\* of its own is being made.  Who makes it starts behind no place of its dummy,
\* and stores the dummy it has inserted.
Heads ==
  /\ \A b \in Buckets : bhead[b] # NULL =>
       /\ Serves(bhead[b], b)
       /\ item[bhead[b]].key # b =>
            b # 0 /\ \E p \in Threads : call[p].making = b
  /\ \A p \in Threads :
       /\ pc[p] = "claim" => Serves(call[p].parent, Head(call[p].path))
       /\ call[p].making # 0 =>
            /\ call[p].making = Head(call[p].path)
            /\ Serves(call[p].parent, call[p].making)
            /\ pc[p] \in {"count", "store"} =>
                 /\ local[p].curr.to \in 2 .. used - 1
                 /\ item[local[p].curr.to]
                      = Item(LowRank[call[p].making], call[p].making, TRUE)

\* Before the first removal all nodes are in the list, no link is marked, and
\* no thread has seen a mark.
Calm ==
  removed = {} =>
    /\ Reachable = 0 .. used - 1
    /\ \A n \in 0 .. used - 1 : ~ next[n].marked
    /\ \A p \in Threads :
         /\ pc[p] \notin {"help", "unlink", "recheck", "removing", "mark",
                          "uncount"}
         /\ ~ local[p].curr.marked /\ ~ local[p].nxt.marked

ListInv == IInv /\ Known /\ Descent /\ Heads /\ Calm

\* And what is counted are the nodes but for head_ and the ghost.
Counted ==
  removed = {} =>
    counter = used - 2 - Cardinality({p \in Threads : pc[p] = "count"})

-----------------------------------------------------------------------------
(***************************************************************************)
(* One thread: the list is sorted, and a search knows where it is.         *)
(***************************************************************************)
Chained == Reachable \ {First, Ghost}

Members == {item[n].key : n \in {m \in Live : ~ item[m].dummy}}

\* head_, the ghost and the dummy of bucket 0 are the beginning.
Beginning ==
  /\ next[First] = Link(Ghost, FALSE)
  /\ next[Ghost] = Link(2, FALSE)
  /\ \A n \in {First, Ghost, 2} : item[n] = Item(0, 0, TRUE)

\* A node's rank is its key's.
Labelled ==
  \A n \in 2 .. used - 1 :
    IF item[n].dummy
    THEN item[n].key \in Buckets /\ item[n].rank = LowRank[item[n].key]
    ELSE item[n].key \in Keys /\ item[n].rank = HighRank[item[n].key]

\* No rank occurs twice, and the next node is the one with the next rank.
Sorted ==
  /\ \A n, m \in Chained : item[n].rank = item[m].rank => n = m
  /\ \A n \in Chained :
       /\ IF next[n].to = NULL THEN ~ next[n].marked
          ELSE item[n].rank < item[next[n].to].rank
       /\ \A m \in Chained : item[n].rank < item[m].rank =>
            next[n].to # NULL /\ item[next[n].to].rank <= item[m].rank

\* Dummies are never deleted; what is not deleted is not claimed for removal
\* either, unless it is about to be deleted.
Deletion ==
  /\ removed \subseteq 0 .. used - 1
  /\ \A n \in Chained : next[n].to # NULL =>
       IF next[n].marked THEN ~ item[next[n].to].dummy
       ELSE next[n].to \in removed =>
              \E p \in Threads : /\ pc[p] \in {"removing", "mark"}
                                 /\ next[n].to = local[p].curr.to

\* Heads are in the list.
Anchored ==
  /\ \A b \in Buckets : bhead[b] # NULL => bhead[b] \in Chained
  /\ \A p \in Threads :
       /\ call[p].parent # NULL =>
            call[p].parent \in Chained /\ item[call[p].parent].dummy
       /\ call[p].making # 0 /\ pc[p] \in {"count", "store"} =>
            local[p].curr.to \in Chained

\* A search is between nodes it has passed and what it has not looked at.
Placed(p) ==
  LET link == next[local[p].prev] IN
  pc[p] \in SearchPcs \cup {"cas", "removing", "mark"} =>
    /\ local[p].start \in Chained /\ item[local[p].start].dummy
    /\ local[p].prev \in Chained
    /\ ~ Stops(p, local[p].start) /\ ~ Stops(p, local[p].prev)
    /\ local[p].strict = (call[p].making # 0 \/ call[p].aim = "insert")
    /\ local[p].goal = IF call[p].making # 0 THEN LowRank[call[p].making]
                       ELSE IF call[p].aim = "insert" THEN LowRank[call[p].key]
                       ELSE HighRank[call[p].key]
    /\ pc[p] \notin {"search", "cas"} => local[p].curr = link
    /\ pc[p] \in {"help", "unlink"} => link.marked
    /\ pc[p] = "unlink" => local[p].nxt = next[link.to]
    /\ pc[p] \in {"recheck", "cas", "mark"} => local[p].nxt = link
    /\ pc[p] \in {"examine", "absent", "stopped", "cas", "removing", "mark"} =>
         ~ link.marked
    /\ pc[p] = "absent" => link.to = NULL
    /\ pc[p] \in {"stopped", "cas"} => link.to = NULL \/ Stops(p, link.to)
    /\ pc[p] \in {"removing", "mark"} =>
         /\ link.to # NULL /\ ~ item[link.to].dummy
         /\ item[link.to].rank = HighRank[call[p].key]

Position == \A p \in Threads : Placed(p)

\* What a call is at serves its operation, and has not been answered before
\* it is done; a key about to be inserted is not there.
Intends(p) ==
  /\ pc[p] = "idle" <=> call[p].op = "none"
  /\ IF call[p].op = "insert" THEN call[p].aim \in {"find", "insert"}
     ELSE call[p].aim = call[p].op
  /\ pc[p] \in {"cas", "count"} => call[p].making # 0 \/ call[p].aim = "insert"
  /\ pc[p] \in {"removing", "mark", "uncount"} =>
       call[p].making = 0 /\ call[p].aim = "remove"
  /\ pc[p] = "done" <=> result[p] # "none"
  /\ /\ call[p].aim = "insert" /\ pc[p] # "done"
     /\ pc[p] = "count" => call[p].making # 0
     => call[p].key \notin Members

Purpose ==
  /\ result \in [Threads -> {"none", "yes", "no"}]
  /\ \A p \in Threads : Intends(p)

SetInv ==
  ListInv /\ Beginning /\ Labelled /\ Sorted /\ Deletion /\ Anchored /\ Position
    /\ Purpose
=============================================================================
