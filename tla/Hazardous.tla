----------------------------- MODULE Hazardous -----------------------------
(***************************************************************************)
(* include/LFS/LF_hazardous.hpp: hazard slots, retirement and scan().      *)
(*                                                                         *)
(* hlist_ is a chain of slots.  make_hazard takes the slot at tail_ and    *)
(* appends an empty one, so slots are numbered here in the order tail_     *)
(* passed them, and the next_ of slot i is null until it is linked and     *)
(* then points to slot i + 1 for ever.  The two low bits of next_ are the  *)
(* sets `retired` (bit 1) and `inactive` (bit 2); a slot in neither is     *)
(* active, and what its data_ points to must not be freed.                 *)
(*                                                                         *)
(* rlist_ is drained as a whole, so its order is left out; its push and    *)
(* pop are single steps here (module FreeList has their atomic steps, and  *)
(* shows that they are a stack while one thread pops, as scan() does).     *)
(*                                                                         *)
(* Assertions end the process, as in a build without NDEBUG.               *)
(*                                                                         *)
(* Memory is sequentially consistent: a store of protect() is visible      *)
(* before the load that follows it.                                        *)
(***************************************************************************)
EXTENDS Integers, FiniteSets

CONSTANTS
  Threads,       \* threads
  Objects,       \* memory cells that are protected and retired
  NULL,          \* the null pointer
  Limit,         \* limit_
  MaxSlot        \* bound: the last slot hlist_ may grow to

ASSUME HazardousAssumption ==
  /\ NULL \notin Objects
  /\ Limit \in Nat
  /\ MaxSlot \in Nat

VARIABLES
  tail,          \* the slot tail_ points to
  linked,        \* slots whose next_ is not null
  retired,       \* slots with bit 1 of next_ set
  inactive,      \* slots with bit 2 of next_ set
  data,          \* data_ of each slot
  rlist,         \* slots on rlist_
  isBusy,        \* a thread is in scan()
  rmap,          \* scan(): retired slots to look at
  pmap,          \* scan(): what active slots protect
  pos,           \* scan(): the slot h
  end,           \* scan(): the slot t
  dying,         \* scan(): a slot whose object was freed, still marked retired
  pc,            \* the step a thread takes next
  mine,          \* the slot a thread's hazard_pointer holds
  h,             \* find_free_node: the slot h
  t,             \* find_free_node: the slot t
  mem,           \* what the allocator knows of an object: in the "pool" or in "use"
  cutShort       \* history: a walk of scan() ended at a slot not linked yet

slotVars == <<tail, linked, retired, inactive, data>>
scanVars == <<isBusy, rmap, pmap, pos, end, dying, cutShort>>
walkVars == <<mine, h, t>>
hazVars  == <<slotVars, scanVars, walkVars, rlist, pc, mem>>

Slots  == 0 .. MaxSlot
NoSlot == -1

MakePcs == {"find", "claim", "wipe", "link"}
ScanPcs == {"drain", "walk", "free", "mark", "abort"}
HazPcs  == MakePcs \cup ScanPcs
           \cup {"own", "enlist", "check", "seize", "fault"}

HazInit ==
  /\ tail = 0
  /\ linked = {}
  /\ retired = {}
  /\ inactive = {}
  /\ data = [s \in Slots |-> NULL]
  /\ rlist = {}
  /\ isBusy = FALSE
  /\ rmap = {}
  /\ pmap = {}
  /\ pos = 0
  /\ end = 0
  /\ dying = NoSlot
  /\ mine = [p \in Threads |-> NoSlot]
  /\ h = [p \in Threads |-> 0]
  /\ t = [p \in Threads |-> 0]
  /\ mem = [o \in Objects |-> "pool"]
  /\ cutShort = FALSE

\* A null dereference and a failed assertion end the process, all threads of it.
Running == \A p \in Threads : pc[p] \notin {"fault", "abort"}

Goto(p, from, to) ==
  /\ pc[p] = from
  /\ Running
  /\ pc' = [pc EXCEPT ![p] = to]

-----------------------------------------------------------------------------
(***************************************************************************)
(* make_hazard                                                             *)
(***************************************************************************)
\* find_free_node: the walk goes from the first slot to what tail_ is now.
\* What the caller does to the objects before it asks is left to the caller.
StartFind(p, from) ==
  /\ Goto(p, from, "find")
  /\ h' = [h EXCEPT ![p] = 0]
  /\ t' = [t EXCEPT ![p] = tail]
  /\ UNCHANGED <<slotVars, scanVars, rlist, mine>>

\* The two local variables are gone.
EndFind(p) ==
  /\ h' = [h EXCEPT ![p] = 0]
  /\ t' = [t EXCEPT ![p] = 0]

\* A slot with bit 2 is tried for, any other is passed by.
FindNext(p) ==
  /\ h[p] # t[p]
  /\ h[p] \in linked
  /\ IF h[p] \in inactive
     THEN Goto(p, "find", "claim") /\ UNCHANGED h
     ELSE Goto(p, "find", "find") /\ h' = [h EXCEPT ![p] = @ + 1]
  /\ UNCHANGED <<slotVars, scanVars, rlist, mine, t, mem>>

\* The next_ just read is null, so the loop dereferences a null h.
FindFault(p) ==
  /\ h[p] # t[p]
  /\ h[p] \notin linked
  /\ Goto(p, "find", "fault")
  /\ UNCHANGED <<slotVars, scanVars, rlist, walkVars, mem>>

\* Mutant: next_ is stored, not exchanged.
ClaimStores(p) == TRUE

\* compare_exchange of next_, from "bit 2 set" to "no bit set".
ClaimWins(p) == h[p] \in inactive

Claim(p) ==
  /\ IF ClaimWins(p)
     THEN /\ Goto(p, "claim", "wipe")
          /\ inactive' = inactive \ {h[p]}
          /\ UNCHANGED h
     ELSE /\ Goto(p, "claim", "find")
          /\ h' = [h EXCEPT ![p] = @ + 1]
          /\ UNCHANGED inactive
  /\ UNCHANGED <<tail, linked, retired, data, scanVars, rlist, mine, t, mem>>

\* Mutant: the slot is handed out as the last owner left it.
Uncleared(s) == data

\* HZP::clear
Cleared(s) == [data EXCEPT ![s] = NULL]

\* h->data_.clear()
Wipe(p) ==
  /\ Goto(p, "wipe", "own")
  /\ data' = Cleared(h[p])
  /\ mine' = [mine EXCEPT ![p] = h[p]]
  /\ EndFind(p)
  /\ UNCHANGED <<tail, linked, retired, inactive, scanVars, rlist, mem>>

\* No free slot: take the one at tail_ and put an empty one there.  The
\* compare_exchange of tail_ repeats until it succeeds.
Extend(p) ==
  /\ h[p] = t[p]
  /\ Goto(p, "find", "link")
  /\ tail < MaxSlot
  /\ tail' = tail + 1
  /\ mine' = [mine EXCEPT ![p] = tail]
  /\ EndFind(p)
  /\ UNCHANGED <<linked, retired, inactive, data, scanVars, rlist, mem>>

\* Mutant: the slot is handed out without the link to the next one.
LinkNothing(p) ==
  /\ Goto(p, "link", "own")
  /\ UNCHANGED <<slotVars, scanVars, rlist, walkVars, mem>>

\* back->next_ = next: until now the chain is broken after slot back.
Link(p) ==
  /\ Goto(p, "link", "own")
  /\ linked' = linked \cup {mine[p]}
  /\ UNCHANGED <<tail, retired, inactive, data, scanVars, rlist, walkVars, mem>>

MakeHazard(p) ==
  \/ FindNext(p) \/ FindFault(p) \/ Claim(p) \/ Wipe(p)
  \/ Extend(p) \/ Link(p)

-----------------------------------------------------------------------------
(***************************************************************************)
(* hazard_pointer                                                          *)
(***************************************************************************)
\* HZP::protect
Protect(p, object, from, to) ==
  /\ Goto(p, from, to)
  /\ data' = [data EXCEPT ![mine[p]] = object]
  /\ UNCHANGED <<tail, linked, retired, inactive, scanVars, rlist, walkVars,
                 mem>>

\* ~hazard_pointer: the slot is free for the next thread; data_ stays.
Release(p, from, to) ==
  /\ Goto(p, from, to)
  /\ inactive' = inactive \cup {mine[p]}
  /\ mine' = [mine EXCEPT ![p] = NoSlot]
  /\ UNCHANGED <<tail, linked, retired, data, scanVars, rlist, h, t, mem>>

\* hazard_pointer::reclaim: bit 1.
Retire(p, from) ==
  /\ Goto(p, from, "enlist")
  /\ retired' = retired \cup {mine[p]}
  /\ UNCHANGED <<tail, linked, inactive, data, scanVars, rlist, walkVars, mem>>

\* rlist_.push(p.ptr_)
Enlist(p) ==
  /\ Goto(p, "enlist", "check")
  /\ rlist' = rlist \cup {mine[p]}
  /\ mine' = [mine EXCEPT ![p] = NoSlot]
  /\ UNCHANGED <<slotVars, scanVars, h, t, mem>>

\* check_limit: rlist_.size() >= limit_
CheckLimit(p) ==
  /\ Goto(p, "check", IF Cardinality(rlist) >= Limit THEN "seize" ELSE "idle")
  /\ UNCHANGED <<slotVars, scanVars, rlist, walkVars, mem>>

\* Mutant: what exchange() returns is not looked at.
AlwaysFree == TRUE

\* The old value of isBusy lets the thread in.
NotBusy == ~ isBusy

\* isBusy.exchange(true): one thread scans, the others do not wait for it.
Seize(p) ==
  /\ Goto(p, "seize", IF NotBusy THEN "drain" ELSE "idle")
  /\ isBusy' = TRUE
  /\ UNCHANGED <<slotVars, rmap, pmap, pos, end, dying, cutShort, rlist, walkVars,
                 mem>>

-----------------------------------------------------------------------------
(***************************************************************************)
(* scan                                                                    *)
(***************************************************************************)
\* rmap has one slot for an object.
InRmap(o) == \E r \in rmap : data[r] = o

\* One turn of the loop that pops rlist_: a slot whose object is in rmap fails
\* assert(it.second), and one with nothing in it only loses its bits.
Drain(p) ==
  /\ \E s \in rlist :
       IF InRmap(data[s])
       THEN Goto(p, "drain", "abort") /\ UNCHANGED <<rlist, rmap, retired, inactive>>
       ELSE /\ Goto(p, "drain", "drain")
            /\ rlist' = rlist \ {s}
            /\ IF data[s] = NULL
               THEN /\ retired' = retired \ {s}
                    /\ inactive' = inactive \ {s}
                    /\ UNCHANGED rmap
               ELSE /\ rmap' = rmap \cup {s}
                    /\ UNCHANGED <<retired, inactive>>
  /\ UNCHANGED <<tail, linked, data, isBusy, pmap, pos, end, dying, cutShort,
                 walkVars, mem>>

\* rlist_ is empty: load the two ends of hlist_.
Drained(p) ==
  /\ rlist = {}
  /\ Goto(p, "drain", "walk")
  /\ end' = tail
  /\ UNCHANGED <<slotVars, isBusy, rmap, pmap, pos, dying, cutShort, rlist,
                 walkVars, mem>>

\* An active slot contributes what it protects.  A next_ that is null ends the
\* walk, wherever it is.
Walk(p) ==
  /\ pos # end
  /\ pmap' = IF pos \in retired \cup inactive THEN pmap
             ELSE pmap \cup {data[pos]}
  /\ IF pos \in linked
     THEN Goto(p, "walk", "walk") /\ pos' = pos + 1 /\ UNCHANGED cutShort
     ELSE Goto(p, "walk", "free") /\ cutShort' = TRUE /\ UNCHANGED pos
  /\ UNCHANGED <<slotVars, isBusy, rmap, end, dying, rlist, walkVars, mem>>

Walked(p) ==
  /\ pos = end
  /\ Goto(p, "walk", "free")
  /\ UNCHANGED <<slotVars, scanVars, rlist, walkVars, mem>>

\* deleter_: the object is back with the allocator.
Delete(p) ==
  /\ Goto(p, "free", "mark")
  /\ \E s \in rmap :
       /\ data[s] \notin pmap
       /\ mem' = [mem EXCEPT ![data[s]] = "pool"]
       /\ rmap' = rmap \ {s}
       /\ dying' = s
  /\ UNCHANGED <<slotVars, isBusy, pmap, pos, end, cutShort, rlist, walkVars>>

\* Mutant: bit 1 is left set.
MarkStillRetired(p) ==
  /\ Goto(p, "mark", "free")
  /\ inactive' = inactive \cup {dying}
  /\ dying' = NoSlot
  /\ UNCHANGED <<tail, linked, retired, data, isBusy, rmap, pmap, pos, end,
                 cutShort, rlist, walkVars, mem>>

\* Only now is its slot free for the next thread: bit 1 off, bit 2 on.
Mark(p) ==
  /\ Goto(p, "mark", "free")
  /\ retired' = retired \ {dying}
  /\ inactive' = inactive \cup {dying}
  /\ dying' = NoSlot
  /\ UNCHANGED <<tail, linked, data, isBusy, rmap, pmap, pos, end, cutShort,
                 rlist, walkVars, mem>>

\* Mutant: a protected slot is dropped instead of kept for the next scan.
KeepNothing(p) ==
  /\ Goto(p, "free", "free")
  /\ \E s \in rmap : data[s] \in pmap /\ rmap' = rmap \ {s}
  /\ UNCHANGED <<slotVars, isBusy, pmap, pos, end, dying, cutShort, rlist,
                 walkVars, mem>>

\* Somebody protects it: it goes back to rlist_.
Keep(p) ==
  /\ Goto(p, "free", "free")
  /\ \E s \in rmap :
       /\ data[s] \in pmap
       /\ rmap' = rmap \ {s}
       /\ rlist' = rlist \cup {s}
  /\ UNCHANGED <<slotVars, isBusy, pmap, pos, end, dying, cutShort, walkVars,
                 mem>>

\* Mutant: isBusy is not reset.
EndScanBusy(p) ==
  /\ rmap = {}
  /\ Goto(p, "free", "idle")
  /\ pmap' = {}
  /\ pos' = 0
  /\ end' = 0
  /\ UNCHANGED <<slotVars, isBusy, rmap, dying, cutShort, rlist, walkVars, mem>>

\* isBusy.store(false), the last step of scan().
EndScan(p) ==
  /\ rmap = {}
  /\ Goto(p, "free", "idle")
  /\ isBusy' = FALSE
  /\ pmap' = {}
  /\ pos' = 0
  /\ end' = 0
  /\ UNCHANGED <<slotVars, rmap, dying, cutShort, rlist, walkVars, mem>>

Scan(p) ==
  \/ Drain(p) \/ Drained(p) \/ Walk(p) \/ Walked(p)
  \/ Delete(p) \/ Mark(p) \/ Keep(p) \/ EndScan(p)
=============================================================================
