----------------------------- MODULE HashTable -----------------------------
(***************************************************************************)
(* include/LFS/LF_HashTable.hpp, the split-ordered hash table under        *)
(* LF_set: insert, find, remove, the lazy creation of buckets and the      *)
(* growth of the table, by any number of threads.                          *)
(*                                                                         *)
(* std::hash of an integer is the integer, so a key is its own hash.       *)
(* A Bucket is its bucket_head_; a slot of the table without a Bucket is   *)
(* NULL here.                                                              *)
(***************************************************************************)
EXTENDS OrderList, SplitOrder

CONSTANTS
  Keys,          \* keys
  Does,          \* the operations each thread calls
  LoadFactor,    \* load_factor_
  MaxSegment     \* bound: the last segment inflate_table allocates

\* Bound: no key and no bucket index has more than the 30 bits of Indexes.
ASSUME TableAssumption ==
  /\ Keys \subseteq Indexes
  /\ Does \in [Threads -> SUBSET {"insert", "find", "remove"}]
  /\ LoadFactor \in Nat /\ MaxSegment \in 0 .. 30

VARIABLES
  segs,          \* the segments allocated, indexes into seg_arr_
  current,       \* current_segment_
  bhead,         \* bucket_head_ of each bucket
  removed,       \* the nodes whose is_removed is set
  call,          \* what a thread is doing
  result         \* what it returns

tableVars == <<segs, current, bhead, removed>>
vars      == <<listVars, pc, local, tableVars, call, result>>

Buckets == 0 .. GlobalSize(MaxSegment) - 1

\* Reversed hashes are only compared: their ranks do as well.
Hashes ==
  {DummyHash(n) : n \in Buckets \cup Keys} \cup {RHash(k) : k \in Keys}
Rank(v)  == Cardinality({w \in Hashes : Less(w, v)})
LowRank  == [n \in Buckets \cup Keys |-> Rank(DummyHash(n))]
HighRank == [k \in Keys |-> Rank(RHash(k))]
SegmentOf == [b \in Buckets |-> TableSegment(b)]

\* A bucket, and its parents from bucket 0 on.
Lineage[b \in Buckets] ==
  IF b = 0 THEN <<0>> ELSE Append(Lineage[ParentIndex(b)], b)

Ranks == {0} \cup {LowRank[n] : n \in Buckets \cup Keys}
             \cup {HighRank[k] : k \in Keys}

\* op, key: the call; aim: what the key is looked up for; path: buckets
\* still to pass or make; bucket: the one in hand; making: the one whose dummy
\* is being inserted, 0 if none, behind `parent`.
NoCall ==
  [op |-> "none", key |-> 0, aim |-> "none", path |-> <<>>, bucket |-> 0,
   making |-> 0, parent |-> NULL, old |-> 0]

Init ==
  /\ ListInit
  /\ segs = {0}
  /\ current = 0
  /\ bhead = [b \in Buckets |-> IF b = 0 THEN 2 ELSE NULL]
  /\ removed = {}
  /\ call = [p \in Threads |-> NoCall]
  /\ result = [p \in Threads |-> "none"]

Finish(p, r) ==
  /\ pc' = [pc EXCEPT ![p] = "done"]
  /\ result' = [result EXCEPT ![p] = r]

-----------------------------------------------------------------------------
(***************************************************************************)
(* The calls.  A bound: no insertion is begun that could need more nodes   *)
(* than there are, with the dummies still to make and the key and the      *)
(* dummy another thread may be at.                                         *)
(***************************************************************************)
Room ==
  used + Cardinality({b \in Buckets : bhead[b] = NULL})
       + 2 * Cardinality(Threads) - 1 <= MaxNodes

\* insert begins with inflate_table, and asks find before it inserts.
Insert(p) ==
  /\ "insert" \in Does[p] /\ Room
  /\ Goto(p, "idle", "inflate")
  /\ \E k \in Keys : call' = [call EXCEPT ![p] =
       [NoCall EXCEPT !.op = "insert", !.key = k, !.aim = "find"]]
  /\ UNCHANGED <<listVars, local, tableVars, result>>

FindOrRemove(p) ==
  /\ Goto(p, "idle", "path")
  /\ \E o \in Does[p] \ {"insert"}, k \in Keys : call' = [call EXCEPT ![p] =
       [NoCall EXCEPT !.op = o, !.key = k, !.aim = o]]
  /\ UNCHANGED <<listVars, local, tableVars, result>>

Return(p) ==
  /\ Goto(p, "done", "idle")
  /\ call' = [call EXCEPT ![p] = NoCall]
  /\ local' = [local EXCEPT ![p] = NoLocal]
  /\ result' = [result EXCEPT ![p] = "none"]
  /\ UNCHANGED <<listVars, tableVars>>

-----------------------------------------------------------------------------
(***************************************************************************)
(* inflate_table                                                           *)
(***************************************************************************)
LoadCurrent(p) ==
  /\ Goto(p, "inflate", "factor")
  /\ call' = [call EXCEPT ![p].old = current]
  /\ UNCHANGED <<listVars, local, tableVars, result>>

TooFull == counter \div GlobalSize(current) > LoadFactor

\* check_load_factor reads the current segment once more.
CheckFactor(p) ==
  /\ Goto(p, "factor",
          IF TooFull /\ call[p].old < MaxSegment THEN "grow" ELSE "path")
  /\ UNCHANGED <<listVars, local, tableVars, call, result>>

\* Mutant: the segment is not put into seg_arr_.
GrowNothing(p) ==
  /\ Goto(p, "grow", "publish")
  /\ UNCHANGED <<listVars, local, tableVars, call, result>>

\* One thread allocates the segment, and publishes it.
Grow(p) ==
  LET new == call[p].old + 1 IN
  /\ Goto(p, "grow", IF new \in segs THEN "path" ELSE "publish")
  /\ segs' = segs \cup {new}
  /\ UNCHANGED <<listVars, local, current, bhead, removed, call, result>>

Publish(p) ==
  /\ Goto(p, "publish", "path")
  /\ current' = call[p].old + 1
  /\ UNCHANGED <<listVars, local, segs, bhead, removed, call, result>>

-----------------------------------------------------------------------------
(***************************************************************************)
(* get_parent_bucket, insert_parent_bucket                                 *)
(***************************************************************************)
\* The walk up to the first bucket that exists.  A slot never becomes null
\* again and all are read again on the way down, so one step is as good as
\* one per slot.  get_segment waits for a segment that is not there.
FindPath(p) ==
  LET lineage == Lineage[GlobalIndex(call[p].key, current)] IN
  \E from \in DOMAIN lineage :
    /\ bhead[lineage[from]] # NULL
    /\ \A i \in from + 1 .. Len(lineage) : bhead[lineage[i]] = NULL
    /\ \A i \in from .. Len(lineage) : SegmentOf[lineage[i]] \in segs
    /\ Goto(p, "path", "bucket")
    /\ call' = [call EXCEPT ![p].path = SubSeq(lineage, from, Len(lineage))]
    /\ UNCHANGED <<listVars, local, tableVars, result>>

\* What follows when the first bucket of the path has been dealt with.
Passed(p, bucket) ==
  call' = [call EXCEPT ![p].path = Tail(@), ![p].bucket = bucket,
                       ![p].making = 0, ![p].parent = NULL]

PassBucket(p) ==
  /\ pc[p] = "bucket" /\ call[p].path # <<>>
  /\ bhead[Head(call[p].path)] # NULL
  /\ Passed(p, Head(call[p].path))
  /\ UNCHANGED <<listVars, pc, local, tableVars, result>>

MissBucket(p) ==
  /\ call[p].path # <<>>
  /\ bhead[Head(call[p].path)] = NULL
  /\ Goto(p, "bucket", "claim")
  /\ call' = [call EXCEPT ![p].parent = bhead[call[p].bucket]]
  /\ UNCHANGED <<listVars, local, tableVars, result>>

\* Mutant: the new Bucket is stored, not exchanged for null.
ClaimStores(b) == TRUE

ClaimWins(b) == bhead[b] = NULL

\* The Bucket is in the table before its dummy is in the list: until then its
\* head is its parent's.  The loser goes on with the parent bucket.
ClaimBucket(p) ==
  LET b == Head(call[p].path) IN
  /\ pc[p] = "claim"
  /\ IF ClaimWins(b)
     THEN /\ Goto(p, "claim", "making")
          /\ bhead' = [bhead EXCEPT ![b] = call[p].parent]
          /\ call' = [call EXCEPT ![p].making = b]
     ELSE /\ Goto(p, "claim", "bucket")
          /\ Passed(p, call[p].bucket)
          /\ UNCHANGED bhead
  /\ UNCHANGED <<listVars, local, segs, current, removed, result>>

\* The place of the dummy is looked for from the parent.
SearchDummy(p) ==
  /\ BeginSearch(p, "making", call[p].parent, LowRank[call[p].making], TRUE)
  /\ UNCHANGED <<tableVars, call, result>>

\* Mutant: the bucket keeps its parent's head.
StoreNothing(p) ==
  /\ Goto(p, "store", "bucket")
  /\ Passed(p, call[p].making)
  /\ UNCHANGED <<listVars, local, tableVars, result>>

\* bucket_head_.store
StoreHead(p) ==
  /\ Goto(p, "store", "bucket")
  /\ bhead' = [bhead EXCEPT ![call[p].making] = local[p].curr.to]
  /\ Passed(p, call[p].making)
  /\ UNCHANGED <<listVars, local, segs, current, removed, result>>

-----------------------------------------------------------------------------
(***************************************************************************)
(* The key, looked up from its bucket.                                     *)
(***************************************************************************)
\* find_comporator stops at the key's own hash or behind it, insert_comporator
\* behind the hash without its upper bit.
SearchKey(p) ==
  LET k == call[p].key IN
  /\ call[p].path = <<>>
  /\ IF call[p].aim = "insert"
     THEN BeginSearch(p, "bucket", bhead[call[p].bucket], LowRank[k], TRUE)
     ELSE BeginSearch(p, "bucket", bhead[call[p].bucket], HighRank[k], FALSE)
  /\ UNCHANGED <<tableVars, call, result>>

SearchStep(p) == Search(p) /\ UNCHANGED <<tableVars, call, result>>

Looked(p, aim) ==
  /\ pc[p] \in {"absent", "stopped"}
  /\ call[p].making = 0 /\ call[p].aim = aim

\* Mutant: a hash behind the key's will do.
Stopped(p) == pc[p] = "stopped"

\* Stopped, and not by a dummy or a hash behind the key's.
Hit(p) ==
  LET n == local[p].curr.to IN
  /\ pc[p] = "stopped"
  /\ item[n].rank = HighRank[call[p].key] /\ ~ item[n].dummy

FindEnds(p) ==
  /\ Looked(p, "find") /\ call[p].op = "find"
  /\ Finish(p, IF Hit(p) THEN "yes" ELSE "no")
  /\ UNCHANGED <<listVars, local, tableVars, call>>

InsertRefused(p) ==
  /\ Looked(p, "find") /\ call[p].op = "insert"
  /\ Hit(p)
  /\ Finish(p, "no")
  /\ UNCHANGED <<listVars, local, tableVars, call>>

InsertGoesOn(p) ==
  /\ Looked(p, "find") /\ call[p].op = "insert"
  /\ ~ Hit(p)
  /\ pc' = [pc EXCEPT ![p] = "path"]
  /\ call' = [call EXCEPT ![p].aim = "insert"]
  /\ UNCHANGED <<listVars, local, tableVars, result>>

RemoveRefused(p) ==
  /\ Looked(p, "remove")
  /\ Hit(p) => local[p].curr.to \in removed
  /\ Finish(p, "no")
  /\ UNCHANGED <<listVars, local, tableVars, call>>

\* is_removed is taken first.
RemoveClaims(p) ==
  /\ Looked(p, "remove")
  /\ Hit(p) /\ local[p].curr.to \notin removed
  /\ pc' = [pc EXCEPT ![p] = "removing"]
  /\ removed' = removed \cup {local[p].curr.to}
  /\ UNCHANGED <<listVars, local, segs, current, bhead, call, result>>

-----------------------------------------------------------------------------
(***************************************************************************)
(* The list's insert and remove.                                           *)
(***************************************************************************)
LoadLink(p) ==
  /\ call[p].making # 0 \/ call[p].aim = "insert"
  /\ InsertLoad(p)
  /\ UNCHANGED <<tableVars, call, result>>

LinkNode(p) ==
  LET b == call[p].making
      k == call[p].key
  IN
  /\ InsertLink(p, IF b # 0 THEN Item(LowRank[b], b, TRUE)
                   ELSE Item(HighRank[k], k, FALSE), "count")
  /\ UNCHANGED <<tableVars, call, result>>

\* A dummy is tried again, from its parent; a key is not.
LinkFails(p) ==
  /\ pc[p] = "cas" /\ ~ InsertWins(p)
  /\ IF call[p].making # 0
     THEN Goto(p, "cas", "making") /\ UNCHANGED result
     ELSE Finish(p, "no")
  /\ UNCHANGED <<listVars, local, tableVars, call>>

CountDummy(p) ==
  /\ call[p].making # 0
  /\ Count(p, "count", "store", 1)
  /\ UNCHANGED <<tableVars, call, result>>

CountKey(p) ==
  /\ call[p].making = 0
  /\ Count(p, "count", "done", 1)
  /\ Finish(p, "yes")
  /\ UNCHANGED <<tableVars, call>>

LoadRemoved(p) == RemoveLoad(p) /\ UNCHANGED <<tableVars, call, result>>

MarkRemoved(p) ==
  RemoveMark(p, "uncount") /\ UNCHANGED <<tableVars, call, result>>

\* is_removed stays set.
MarkFails(p) ==
  /\ pc[p] = "mark" /\ ~ RemoveWins(p)
  /\ Finish(p, "no")
  /\ UNCHANGED <<listVars, local, tableVars, call>>

\* Mutant: counter_ is left alone.
Uncounted(p) ==
  /\ Count(p, "uncount", "done", 0)
  /\ Finish(p, "yes")
  /\ UNCHANGED <<tableVars, call>>

CountRemoved(p) ==
  /\ Count(p, "uncount", "done", -1)
  /\ Finish(p, "yes")
  /\ UNCHANGED <<tableVars, call>>

-----------------------------------------------------------------------------
Step(p) ==
  \/ LoadCurrent(p) \/ CheckFactor(p) \/ Grow(p) \/ Publish(p)
  \/ FindPath(p) \/ PassBucket(p) \/ MissBucket(p) \/ ClaimBucket(p)
  \/ SearchDummy(p) \/ StoreHead(p) \/ SearchKey(p) \/ SearchStep(p)
  \/ FindEnds(p) \/ InsertRefused(p) \/ InsertGoesOn(p)
  \/ RemoveRefused(p) \/ RemoveClaims(p)
  \/ LoadLink(p) \/ LinkNode(p) \/ LinkFails(p) \/ CountDummy(p) \/ CountKey(p)
  \/ LoadRemoved(p) \/ MarkRemoved(p) \/ MarkFails(p) \/ CountRemoved(p)
  \/ Return(p)

Next == \E p \in Threads : Insert(p) \/ FindOrRemove(p) \/ Step(p)

Spec == Init /\ [][Next]_vars

-----------------------------------------------------------------------------
(***************************************************************************)
(* Properties                                                              *)
(***************************************************************************)
\* The table is a set: with one thread, the hash table's calls do and answer
\* what the calls of KeySet do, whatever buckets are made and segments added
\* on the way (LF_set's insert, find and remove; client.cpp's updated_set).
Set == INSTANCE KeySet WITH
  members <- {item[n].key : n \in {m \in Live : ~ item[m].dummy}},
  op      <- [p \in Threads |-> call[p].op],
  arg     <- [p \in Threads |-> call[p].key],
  answer  <- [p \in Threads |->
    IF pc[p] = "uncount" \/ (pc[p] = "count" /\ call[p].making = 0)
    THEN "yes" ELSE result[p]]

SetSpec == Set!Spec

\* The list is sorted by reversed hash, dummies and deleted nodes included
\* ("a node must be between a parent bucket and next bucket",
\* find_comporator, which stops a search at the first hash behind its own).
Ordered ==
  \A n \in Reachable \ {First} :
    next[n].to # NULL => item[n].rank <= item[next[n].to].rank

\* A bucket's head is never behind the bucket's place in the list, also while
\* its dummy is not there yet ("on time we will lie"): it is a dummy, in the
\* list while nothing is removed, and the bucket's own once the thread that
\* makes it is done.
HeadServes ==
  \A b \in Buckets :
    bhead[b] # NULL =>
      /\ item[bhead[b]].dummy
      /\ removed = {} => bhead[b] \in Live
      /\ item[bhead[b]].rank <= LowRank[b]
      /\ item[bhead[b]].key # b => \E p \in Threads : call[p].making = b

\* However many threads find the slot of a bucket empty, one dummy is inserted
\* ("if two or more threads inserted the same node we need to remove
\* redundant").
OneDummy ==
  \A b \in Buckets :
    Cardinality({n \in 2 .. used - 1 : item[n].dummy /\ item[n].key = b}) <= 1

\* size() is the number of nodes in the list, dummies too, but for the calls
\* between their link and their count.
SizeRight ==
  counter = Cardinality(Live \ {Ghost})
            - Cardinality({p \in Threads : pc[p] = "count"})
            + Cardinality({p \in Threads : pc[p] = "uncount"})

\* Nothing linked is ever lost while nothing is removed: of two insertions
\* behind the same node one fails (LF_OrderList::insert's compare_exchange).
NothingLost == removed = {} => Reachable = 0 .. used - 1

\* get_segment never has to wait: whatever the table's size was when the
\* bucket's index was computed, its segment and its parents' are there.
NeverWaits ==
  \A p \in Threads :
    pc[p] = "path" =>
      LET lineage == Lineage[GlobalIndex(call[p].key, current)]
      IN  \A i \in DOMAIN lineage : SegmentOf[lineage[i]] \in segs
=============================================================================
