------------------------------ MODULE LFStack ------------------------------
(***************************************************************************)
(* include/LFS/LF_stack.hpp over Hazardous: push, pop, and the top() that  *)
(* reads an element while others pop it.  get_hazard and reclaim_hazard of *)
(* include/LFS/LF_allocator.hpp come in between, and push and pop of       *)
(* include/LFS/LF_FreeList.hpp below, one atomic access per step.          *)
(*                                                                         *)
(* A freed object stays where it was in the pool: who still has a pointer  *)
(* to it reads its old next_, or what a later push writes there.           *)
(***************************************************************************)
EXTENDS Hazardous, Sequences

CONSTANTS
  Pushers,       \* threads that push
  Poppers,       \* threads that pop
  Readers,       \* threads that call top()
  Sentinel       \* the node made by initialize(), which holds no element

ASSUME StackAssumption ==
  /\ Pushers \cup Poppers \cup Readers \subseteq Threads
  /\ Sentinel \notin Objects \cup {NULL}

VARIABLES
  head,          \* head_
  next,          \* next_ of each node
  stack,         \* history: what was pushed and not popped, the newest first;
                 \* a pop that takes another node leaves it as it is
  op,            \* the operation a thread is in: "push", "pop", "top" or "none"
  ref,           \* push: node; pop: head; top: old_head
  temp           \* pop: next; top: temp

lfVars == <<head, next, stack, op, ref, temp>>
vars   == <<hazVars, lfVars>>

Cells    == Objects \cup {Sentinel}
Pointers == Cells \cup {NULL}

Pcs == HazPcs \cup {"idle", "pushLoad", "pushCas", "popNext", "popCas",
                    "validate", "again", "read", "leave", "retire"}

Init ==
  /\ HazInit
  /\ pc = [p \in Threads |-> "idle"]
  /\ head = Sentinel
  /\ next = [n \in Cells |-> NULL]
  /\ stack = <<>>
  /\ op = [p \in Threads |-> "none"]
  /\ ref = [p \in Threads |-> NULL]
  /\ temp = [p \in Threads |-> NULL]

\* The operation of a thread is over, and its local variables with it.
Return(p) ==
  /\ op' = [op EXCEPT ![p] = "none"]
  /\ ref' = [ref EXCEPT ![p] = NULL]
  /\ temp' = [temp EXCEPT ![p] = NULL]

-----------------------------------------------------------------------------
(***************************************************************************)
(* push                                                                    *)
(***************************************************************************)
\* create_node: memory from the pool, next_ null.
CreateNode(p) ==
  /\ p \in Pushers
  /\ Goto(p, "idle", "pushLoad")
  /\ \E o \in Objects :
       /\ mem[o] = "pool"
       /\ mem' = [mem EXCEPT ![o] = "use"]
       /\ next' = [next EXCEPT ![o] = NULL]
       /\ ref' = [ref EXCEPT ![p] = o]
  /\ op' = [op EXCEPT ![p] = "push"]
  /\ UNCHANGED <<slotVars, scanVars, walkVars, rlist, head, stack, temp>>

\* node->next_ = head_.load()
PushLoad(p) ==
  /\ Goto(p, "pushLoad", "pushCas")
  /\ next' = [next EXCEPT ![ref[p]] = head]
  /\ UNCHANGED <<slotVars, scanVars, walkVars, rlist, mem, head, stack, op, ref,
                 temp>>

\* head_.compare_exchange_strong(next, node)
PushTake(p) ==
  /\ Goto(p, "pushCas", "idle")
  /\ head = next[ref[p]]
  /\ head' = ref[p]
  /\ stack' = <<ref[p]>> \o stack
  /\ Return(p)
  /\ UNCHANGED <<slotVars, scanVars, walkVars, rlist, mem, next>>

PushRetry(p) ==
  /\ Goto(p, "pushCas", "pushLoad")
  /\ head # next[ref[p]]
  /\ UNCHANGED <<slotVars, scanVars, walkVars, rlist, mem, lfVars>>

Push(p) == CreateNode(p) \/ PushLoad(p) \/ PushTake(p) \/ PushRetry(p)

(***************************************************************************)
(* pop                                                                     *)
(***************************************************************************)
\* head = head_.load(), with nothing to protect what it points to.
PopLoad(p) ==
  /\ p \in Poppers
  /\ Goto(p, "idle", "popNext")
  /\ op' = [op EXCEPT ![p] = "pop"]
  /\ ref' = [ref EXCEPT ![p] = head]
  /\ UNCHANGED <<slotVars, scanVars, walkVars, rlist, mem, head, next, stack,
                 temp>>

\* next = head->next(): whoever that node belongs to by now.
PopNext(p) ==
  /\ Goto(p, "popNext", "popCas")
  /\ temp' = [temp EXCEPT ![p] = next[ref[p]]]
  /\ UNCHANGED <<slotVars, scanVars, walkVars, rlist, mem, head, next, stack, op,
                 ref>>

\* No next node: pop returns null.
PopEmpty(p) ==
  /\ temp[p] = NULL
  /\ Goto(p, "popCas", "idle")
  /\ Return(p)
  /\ UNCHANGED <<slotVars, scanVars, walkVars, rlist, mem, head, next, stack>>

\* Mutant: head_ is stored, whatever it is by now.
PopStores(p) == TRUE

\* The CAS finds in head_ the node whose next_ was read.
PopWins(p) == head = ref[p]

\* head_.compare_exchange_strong(head, next), then get_hazard.
PopTake(p) ==
  /\ temp[p] # NULL
  /\ PopWins(p)
  /\ StartFind(p, "popCas")
  /\ head' = temp[p]
  /\ stack' = IF stack # <<>> /\ Head(stack) = ref[p] THEN Tail(stack) ELSE stack
  /\ temp' = [temp EXCEPT ![p] = NULL]
  /\ UNCHANGED <<mem, next, op, ref>>

\* It failed, and left the current head in the local variable.
PopRetry(p) ==
  /\ temp[p] # NULL
  /\ ~ PopWins(p)
  /\ Goto(p, "popCas", "popNext")
  /\ ref' = [ref EXCEPT ![p] = head]
  /\ temp' = [temp EXCEPT ![p] = NULL]
  /\ UNCHANGED <<slotVars, scanVars, walkVars, rlist, mem, head, next, stack, op>>

PopProtect(p) ==
  /\ op[p] = "pop"
  /\ Protect(p, ref[p], "own", "retire")
  /\ UNCHANGED lfVars

\* reclaim_hazard; what follows is Enlist, CheckLimit and perhaps scan.
PopRetire(p) ==
  /\ Retire(p, "retire")
  /\ Return(p)
  /\ UNCHANGED <<head, next, stack>>

Pop(p) ==
  \/ PopLoad(p) \/ PopNext(p) \/ PopEmpty(p) \/ PopTake(p) \/ PopRetry(p)
  \/ PopProtect(p) \/ PopRetire(p)

(***************************************************************************)
(* top                                                                     *)
(***************************************************************************)
\* old_head = head_.load(), then get_hazard.
TopLoad(p) ==
  /\ p \in Readers
  /\ StartFind(p, "idle")
  /\ op' = [op EXCEPT ![p] = "top"]
  /\ ref' = [ref EXCEPT ![p] = head]
  /\ UNCHANGED <<mem, head, next, stack, temp>>

\* temp = old_head; protect(old_head)
TopProtect(p) ==
  /\ op[p] = "top"
  /\ \/ Protect(p, ref[p], "own", "validate")
     \/ Protect(p, ref[p], "again", "validate")
  /\ temp' = [temp EXCEPT ![p] = ref[p]]
  /\ UNCHANGED <<head, next, stack, op, ref>>

\* Mutant: top() does not look at head_ a second time.
NotValidated(p) == TRUE

\* while(old_head != temp)
Validated(p) == head = temp[p]

\* old_head = head_.load(), until it is still what was protected.
TopValidate(p) ==
  /\ Goto(p, "validate", IF ~ Validated(p) THEN "again"
                         ELSE IF head = Sentinel THEN "leave" ELSE "read")
  /\ ref' = [ref EXCEPT ![p] = head]
  /\ UNCHANGED <<slotVars, scanVars, walkVars, rlist, mem, head, next, stack, op,
                 temp>>

\* opt = old_head->data_
TopRead(p) ==
  /\ Goto(p, "read", "leave")
  /\ UNCHANGED <<slotVars, scanVars, walkVars, rlist, mem, lfVars>>

TopLeave(p) ==
  /\ Release(p, "leave", "idle")
  /\ Return(p)
  /\ UNCHANGED <<head, next, stack>>

Top(p) ==
  TopLoad(p) \/ TopProtect(p) \/ TopValidate(p) \/ TopRead(p) \/ TopLeave(p)

-----------------------------------------------------------------------------
Domain(p) ==
  /\ MakeHazard(p) \/ Enlist(p) \/ CheckLimit(p) \/ Seize(p) \/ Scan(p)
  /\ UNCHANGED lfVars

Step(p) == Push(p) \/ Pop(p) \/ Top(p) \/ Domain(p)

Next == \E p \in Threads : Step(p)

Spec == Init /\ [][Next]_vars

\* A thread that scans is scheduled until it is done.
LiveSpec == Spec /\ \A p \in Threads : WF_vars(Domain(p))

-----------------------------------------------------------------------------
(***************************************************************************)
(* Properties.  RetiredOnce, NothingLeaks, Linked and NoReadAfterFree need *)
(* Poppers to have one member at most.                                     *)
(***************************************************************************)
OnePopper == \A p, q \in Poppers : p = q

Owns(p) == mine[p] # NoSlot

\* Retired slots whose object has not been freed yet.
ToFree == retired \ {dying}

\* The object a thread is about to push, or has popped and not retired yet.
Carries(p) ==
  \/ op[p] = "push"
  \/ op[p] = "pop" /\ pc[p] \notin {"popNext", "popCas"}

At(i) == IF i <= Len(stack) THEN stack[i] ELSE Sentinel

Stacked == {stack[i] : i \in 1 .. Len(stack)}

\* A slot has one hazard_pointer at a time, and while it has one find_free_node
\* cannot give it away and scan() does not count it as retired before reclaim
\* has been called on it.
SlotExclusive ==
  \A p \in Threads : Owns(p) =>
    /\ mine[p] \notin inactive
    /\ mine[p] \notin rlist \cup rmap \cup {dying}
    /\ pc[p] # "enlist" => mine[p] \notin retired
    /\ \A q \in Threads : mine[q] = mine[p] => q = p

\* The assertion of LF_allocator::get_hazard: the slot handed out is empty.
FreshHazard ==
  \A p \in Threads : pc[p] = "own" => data[mine[p]] = NULL

\* An object top() protected and found still at the head is not freed while
\* top() reads it, unless some scan() was cut short at a slot that
\* make_hazard had put behind tail_ but not linked yet; and pop, which protects
\* nothing, reads next_ of no node that went back to the allocator.
NoReadAfterFree ==
  \A p \in Threads : ref[p] \in Objects /\ mem[ref[p]] = "pool" =>
    /\ pc[p] = "read" => cutShort
    /\ pc[p] # "popNext"

\* The same promise where scan() makes it: pmap is to hold "all not retired
\* nodes", so an object scan() is about to free is in it if somebody reads it.
EveryReaderSeen ==
  \A p, q \in Threads :
    pc[p] = "free" /\ pc[q] = "read"
      => \A s \in rmap : data[s] = ref[q] => data[s] \in pmap

\* find_free_node dereferences a null pointer only at a slot whose maker is
\* between moving tail_ and linking; a slot once linked is never a trap.
FaultOnlyInGap ==
  \A p \in Threads : pc[p] = "fault" =>
    \E q \in Threads : pc[q] = "link" /\ mine[q] = h[p]

\* What head_ and the next_ members link together is what was pushed and not
\* popped, each object once and none of them free, although objects are pushed
\* again as soon as scan() has freed them.
Linked ==
  /\ head = At(1)
  /\ \A i \in 1 .. Len(stack) : next[stack[i]] = At(i + 1) /\ mem[stack[i]] = "use"
  /\ next[Sentinel] = NULL
  /\ \A i, j \in 1 .. Len(stack) : stack[i] = stack[j] => i = j

\* No two retired slots hold the same object, but for a slot whose object has just
\* been freed: scan() asserts it, and calls the deleter once for each of them.
RetiredOnce ==
  \A r, s \in ToFree : r # s /\ data[r] # NULL => data[r] # data[s]

\* Memory that is allocated is accounted for: on the stack, in the hands of a
\* thread, or in a retired slot that scan() will come to.
NothingLeaks ==
  \A o \in Objects : mem[o] = "use" =>
    \/ o \in Stacked
    \/ \E p \in Threads : Carries(p) /\ ref[p] = o
    \/ \E s \in ToFree :
         /\ data[s] = o
         /\ s \in rlist \cup rmap \/ \E p \in Threads : mine[p] = s

\* isBusy lets one thread into scan(), the only place where rlist_ is popped.
OneScanner ==
  /\ isBusy <=> \E p \in Threads : pc[p] \in ScanPcs
  /\ \A p, q \in Threads : pc[p] \in ScanPcs /\ pc[q] \in ScanPcs => p = q

\* A scan that has emptied rlist_ ends, although others go on for ever retiring
\* objects and making hazards.
ScanEnds ==
  (\E p \in Threads : pc[p] \in {"walk", "free", "mark"}) ~> (~ isBusy \/ ~ Running)

-----------------------------------------------------------------------------
(***************************************************************************)
(* The inductive invariants: SlotInv for any threads, MemInv on top of it  *)
(* while one thread pops.                                                  *)
(***************************************************************************)
TypeOK ==
  /\ tail \in Slots
  /\ linked \subseteq Slots /\ retired \subseteq Slots /\ inactive \subseteq Slots
  /\ data \in [Slots -> Pointers]
  /\ rlist \subseteq Slots /\ rmap \subseteq Slots
  /\ pmap \subseteq Pointers
  /\ pos \in Slots /\ end \in Slots
  /\ dying \in Slots \cup {NoSlot}
  /\ isBusy \in BOOLEAN /\ cutShort \in BOOLEAN
  /\ pc \in [Threads -> Pcs]
  /\ mine \in [Threads -> Slots \cup {NoSlot}]
  /\ h \in [Threads -> Slots] /\ t \in [Threads -> Slots]
  /\ mem \in [Objects -> {"pool", "use"}]
  /\ head \in Cells
  /\ next \in [Cells -> Pointers]
  /\ stack \in Seq(Objects)
  /\ op \in [Threads -> {"push", "pop", "top", "none"}]
  /\ ref \in [Threads -> Pointers]
  /\ temp \in [Threads -> Pointers]

FindPcs == {"find", "claim", "wipe", "fault"}
HoldPcs == {"link", "own", "validate", "again", "read", "leave", "retire", "enlist"}

\* A slot in the hands of a thread, from the claim to the release.
Holds(p, s) == mine[p] = s \/ (pc[p] = "wipe" /\ h[p] = s)

\* Where a thread is says which operation it is in, whether it has a slot and a
\* node, and that its walk stays before tail_.  The sentinel's next_ is null, so
\* nobody pops it.
Control ==
  /\ next[Sentinel] = NULL
  /\ \A p \in Threads :
       /\ op[p] = "none" <=> pc[p] \in {"idle", "enlist", "check", "seize"} \cup ScanPcs
       /\ op[p] = "push" <=> pc[p] \in {"pushLoad", "pushCas"}
       /\ pc[p] \in {"validate", "again", "read", "leave"} => op[p] = "top"
       /\ pc[p] \in {"popNext", "popCas", "retire"} => op[p] = "pop"
       /\ op[p] = "pop" => ref[p] \in Cells
       /\ op[p] = "top" => ref[p] \in Cells
       /\ Carries(p) => ref[p] \in Objects
       /\ pc[p] = "popCas" /\ ref[p] = Sentinel => temp[p] = NULL
       /\ Owns(p) <=> pc[p] \in HoldPcs
       /\ pc[p] \in FindPcs => h[p] <= t[p] /\ t[p] <= tail
       /\ pc[p] \in FindPcs \ {"find"} => h[p] # t[p]
       /\ pc[p] = "fault" => h[p] \notin linked
       /\ pc[p] = "read" => ref[p] \in Objects

\* Each slot before tail_ is linked, or will be by the one who moved tail_.
Chain ==
  \A s \in 0 .. tail - 1 :
    s \notin linked => \E q \in Threads : pc[q] = "link" /\ mine[q] = s

\* Slots on their way to rlist_.
Enlisting == {mine[p] : p \in {q \in Threads : pc[q] = "enlist"}}

\* Slots that were handed out are in one place at a time: free, in the hands of
\* one thread, on rlist_, in rmap or just emptied by scan().
Apart ==
  /\ inactive \cup rlist \cup rmap \subseteq 0 .. tail - 1
  /\ dying # NoSlot => dying < tail
  /\ inactive \cap rlist = {} /\ inactive \cap rmap = {} /\ rlist \cap rmap = {}
  /\ dying \notin inactive \cup rlist \cup rmap
  /\ retired \subseteq rlist \cup rmap \cup {dying} \cup Enlisting

Held ==
  \A p \in Threads, s \in Slots : Holds(p, s) =>
    /\ s < tail
    /\ s \notin inactive \cup rlist \cup rmap \cup {dying}
    /\ \A q \in Threads : Holds(q, s) => q = p

\* What a slot holds while its owner is at work.
Contents ==
  /\ \A s \in Slots : tail <= s => data[s] = NULL
  /\ \A p \in Threads :
       /\ pc[p] \in {"link", "own"} => data[mine[p]] = NULL
       /\ pc[p] = "validate" => data[mine[p]] = temp[p]
       /\ pc[p] = "read" => data[mine[p]] = ref[p]
       /\ pc[p] = "retire" => data[mine[p]] = ref[p]
       /\ pc[p] = "enlist" => mine[p] \in retired /\ data[mine[p]] \in Objects
  /\ rlist \cup rmap \subseteq retired
  /\ \A s \in retired : data[s] \in Objects

\* One thread scans; its walk goes up to what tail_ was when rlist_ was empty.
Scanning ==
  /\ OneScanner
  /\ rmap # {} => isBusy
  /\ dying # NoSlot <=> \E p \in Threads : pc[p] = "mark"
  /\ dying # NoSlot => dying \in retired
  /\ (\A p \in Threads : pc[p] \notin {"walk", "free", "mark"}) => pos = 0 /\ pmap = {}
  /\ \A p \in Threads : pc[p] = "walk" => pos <= end /\ end <= tail

SlotInv ==
  /\ TypeOK
  /\ Control
  /\ Chain
  /\ Apart
  /\ Held
  /\ Contents
  /\ Scanning

\* What pop has loaded stays on the stack until pop's own CAS, so its next_ does
\* not change either.
PopLocals ==
  \A p \in Threads : pc[p] \in {"popNext", "popCas"} =>
    /\ p \in Poppers
    /\ ref[p] = Sentinel \/ ref[p] \in Stacked
    /\ pc[p] = "popCas" => temp[p] = next[ref[p]]

\* An object in use is in one place: on the stack, with one thread, or in one
\* retired slot.
Memory ==
  /\ \A p \in Threads : Carries(p) =>
       /\ mem[ref[p]] = "use"
       /\ ref[p] \notin Stacked
       /\ \A q \in Threads : Carries(q) /\ ref[q] = ref[p] => q = p
       /\ \A s \in ToFree : data[s] # ref[p]
  /\ \A s \in ToFree : mem[data[s]] = "use" /\ data[s] \notin Stacked
  /\ RetiredOnce
  /\ \A o \in Objects : mem[o] = "use" =>
       \/ o \in Stacked
       \/ \E p \in Threads : Carries(p) /\ ref[p] = o
       \/ \E s \in ToFree : data[s] = o

\* Why a reader is safe: the scan that has its object has yet to pass the
\* reader's slot, or has the object in pmap.
Shielded ==
  cutShort \/
  \A p \in Threads : pc[p] = "read" =>
    /\ mem[ref[p]] # "pool"
    /\ \A q \in Threads, r \in rmap : data[r] = ref[p] =>
         /\ pc[q] = "walk" => \/ pos <= mine[p] /\ mine[p] < end
                              \/ ref[p] \in pmap
         /\ pc[q] \in {"free", "mark"} => ref[p] \in pmap

MemInv ==
  /\ Linked
  /\ PopLocals
  /\ Memory
  /\ Shielded
=============================================================================
