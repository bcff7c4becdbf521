---------------------------- MODULE LFStackProofs ----------------------------
(***************************************************************************)
(* LFStack for any number of threads, objects and slots.  For any number   *)
(* of popping threads: slots have one owner and one thread scans.  While   *)
(* one thread pops: nothing is freed twice or lost, and no object is freed *)
(* under a reader unless a walk of scan() was cut short.                   *)
(***************************************************************************)
EXTENDS LFStack, SequenceTheorems, TLAPS

\* The initial state: no slot handed out.
LEMMA InitSlotInv == Init => SlotInv
<1> SUFFICES ASSUME Init PROVE SlotInv
  OBVIOUS
<1> USE HazardousAssumption, StackAssumption DEF Init, HazInit
<1>1. TypeOK
  <2>1. 0 \in Slots /\ "idle" \in Pcs /\ NULL \in Pointers /\ Sentinel \in Cells
    BY DEF Slots, Pcs, Pointers, Cells
  <2>2. stack \in Seq(Objects)
    OBVIOUS
  <2>3. QED
    BY <2>1, <2>2 DEF TypeOK
<1>2. Control
  BY DEF Control, Carries, Owns, FindPcs, HoldPcs, ScanPcs, Cells
<1>3. Chain /\ Apart /\ Held
  BY DEF Chain, Apart, Held, Holds, Slots, NoSlot
<1>4. Contents
  BY DEF Contents
<1>5. Scanning
  BY DEF Scanning, OneScanner, ScanPcs
<1>6. QED
  BY <1>1, <1>2, <1>3, <1>4, <1>5 DEF SlotInv

(***************************************************************************)
(* What the steps of a thread leave alone.                                 *)
(***************************************************************************)
ListPcs == {"idle", "pushLoad", "pushCas", "popNext", "popCas"}

ListStep(p) ==
  \/ CreateNode(p) \/ PushLoad(p) \/ PushTake(p) \/ PushRetry(p)
  \/ PopLoad(p) \/ PopNext(p) \/ PopEmpty(p) \/ PopRetry(p)

SlotStep(p) ==
  \/ PopTake(p) \/ PopProtect(p) \/ PopRetire(p) \/ Top(p) \/ Domain(p)

LEMMA StepIs ==
  ASSUME NEW p \in Threads, Step(p)
  PROVE  ListStep(p) \/ SlotStep(p)
BY DEF Step, Push, Pop, ListStep, SlotStep

\* push and pop leave the slots alone, but for what pop does after its CAS.
LEMMA ListEffect ==
  ASSUME TypeOK, NEW p \in Threads, ListStep(p)
  PROVE  /\ UNCHANGED <<tail, linked, retired, inactive, data, isBusy, rmap, pmap, pos,
                         end, dying, cutShort, mine, h, t, rlist>>
         /\ pc[p] \in ListPcs /\ pc'[p] \in ListPcs
         /\ \A q \in Threads : q # p =>
              pc'[q] = pc[q] /\ op'[q] = op[q] /\ ref'[q] = ref[q] /\ temp'[q] = temp[q]
<1> USE DEF TypeOK, Goto, ListPcs, Return, slotVars, scanVars, walkVars, lfVars
<1>1. CASE CreateNode(p)
  BY <1>1 DEF CreateNode
<1>2. CASE PushLoad(p) \/ PushTake(p) \/ PushRetry(p)
  BY <1>2 DEF PushLoad, PushTake, PushRetry
<1>3. CASE PopLoad(p) \/ PopNext(p) \/ PopEmpty(p) \/ PopRetry(p)
  BY <1>3 DEF PopLoad, PopNext, PopEmpty, PopRetry
<1>4. QED
  BY <1>1, <1>2, <1>3 DEF ListStep

\* What find_free_node does to the thread itself.
LEMMA FindNextEffect ==
  ASSUME TypeOK, NEW p \in Threads, FindNext(p)
  PROVE  /\ pc[p] = "find" /\ h[p] # t[p]
         /\ \A q \in Threads : q # p => pc'[q] = pc[q] /\ h'[q] = h[q]
         /\ \/ pc'[p] = "claim" /\ h'[p] = h[p]
            \/ pc'[p] = "find" /\ h'[p] = h[p] + 1
         /\ UNCHANGED <<slotVars, scanVars, rlist, mine, t, mem>>
BY DEF FindNext, Goto, TypeOK

LEMMA ClaimEffect ==
  ASSUME TypeOK, NEW p \in Threads, Claim(p)
  PROVE  /\ pc[p] = "claim"
         /\ \A q \in Threads : q # p => pc'[q] = pc[q] /\ h'[q] = h[q]
         /\ \/ /\ pc'[p] = "wipe" /\ h'[p] = h[p] /\ h[p] \in inactive
               /\ inactive' = inactive \ {h[p]}
            \/ pc'[p] = "find" /\ h'[p] = h[p] + 1 /\ inactive' = inactive
         /\ UNCHANGED <<tail, linked, retired, data, scanVars, rlist, mine, t, mem>>
BY DEF Claim, ClaimWins, Goto, TypeOK

\* A thread goes on to the next slot.
LEMMA Advance ==
  ASSUME h \in [Threads -> Slots], NEW p \in Threads, h[p] + 1 \in Slots,
         h' = [h EXCEPT ![p] = @ + 1]
  PROVE  h' \in [Threads -> Slots]
OBVIOUS

\* TypeOK.
LEMMA StepType ==
  ASSUME SlotInv, NEW p \in Threads, Step(p)
  PROVE  TypeOK'
<1> USE HazardousAssumption, StackAssumption
<1> USE DEF SlotInv, TypeOK, Goto, Return, Slots, NoSlot, Pcs, HazPcs, MakePcs, ScanPcs,
            Cells, Pointers, slotVars, scanVars, walkVars, lfVars
<1>1. CASE CreateNode(p)
  BY <1>1 DEF CreateNode
<1>2. CASE PushLoad(p) \/ PushRetry(p)
  <2>1. CASE PushLoad(p)
    BY <2>1 DEF PushLoad
  <2>2. CASE PushRetry(p)
    BY <2>2 DEF PushRetry
  <2>3. QED
    BY <1>2, <2>1, <2>2
<1>3. CASE PushTake(p)
  <2>1. ref[p] \in Objects
    BY <1>3 DEF PushTake, Control, Carries
  <2>2. <<ref[p]>> \o stack \in Seq(Objects)
    BY <2>1
  <2>3. QED
    BY <1>3, <2>1, <2>2 DEF PushTake
<1>4. CASE PopLoad(p)
  BY <1>4 DEF PopLoad
<1>5. CASE PopNext(p)
  <2>1. ref[p] \in Cells
    BY <1>5 DEF PopNext, Control
  <2>2. QED
    BY <1>5, <2>1 DEF PopNext
<1>6. CASE PopEmpty(p) \/ PopRetry(p)
  <2>1. CASE PopEmpty(p)
    BY <2>1 DEF PopEmpty
  <2>2. CASE PopRetry(p)
    BY <2>2 DEF PopRetry
  <2>3. QED
    BY <1>6, <2>1, <2>2
<1>7. CASE PopTake(p)
  <2>1. stack' \in Seq(Objects)
    <3>1. stack # <<>> => Tail(stack) \in Seq(Objects)
      BY HeadTailProperties
    <3>2. QED
      BY <1>7, <3>1 DEF PopTake
  <2>2. QED
    BY <1>7, <2>1 DEF PopTake, StartFind
<1>8. CASE PopProtect(p)
  BY <1>8 DEF PopProtect, Protect
<1>9. CASE PopRetire(p)
  <2>1. mine[p] \in Slots
    BY <1>9 DEF PopRetire, Retire, Control, Owns, HoldPcs
  <2>2. QED
    BY <1>9, <2>1 DEF PopRetire, Retire
<1>10. CASE TopLoad(p)
  BY <1>10 DEF TopLoad, StartFind
<1>11. CASE TopProtect(p)
  BY <1>11 DEF TopProtect, Protect
<1>12. CASE TopValidate(p)
  BY <1>12 DEF TopValidate
<1>13. CASE TopRead(p)
  BY <1>13 DEF TopRead
<1>14. CASE TopLeave(p)
  <2>1. mine[p] \in Slots
    BY <1>14 DEF TopLeave, Release, Control, Owns, HoldPcs
  <2>2. QED
    BY <1>14, <2>1 DEF TopLeave, Release
<1>15. CASE FindNext(p) /\ UNCHANGED lfVars
  <2>1. h[p] + 1 \in Slots
    BY <1>15 DEF FindNext, Control, FindPcs
  <2>2. CASE h[p] \in inactive
    BY <1>15, <2>2 DEF FindNext
  <2>3. CASE h[p] \notin inactive
    <3>1. h' \in [Threads -> Slots]
      BY <1>15, <2>1, <2>3, Advance DEF FindNext
    <3>2. QED
      BY <1>15, <2>3, <3>1 DEF FindNext
  <2>4. QED
    BY <2>2, <2>3
<1>16. CASE FindFault(p) /\ UNCHANGED lfVars
  BY <1>16 DEF FindFault
<1>17. CASE Claim(p) /\ UNCHANGED lfVars
  <2>1. h[p] + 1 \in Slots
    BY <1>17 DEF Claim, Control, FindPcs
  <2>2. CASE ClaimWins(p)
    BY <1>17, <2>2 DEF Claim
  <2>3. CASE ~ ClaimWins(p)
    <3>1. h' \in [Threads -> Slots]
      BY <1>17, <2>1, <2>3, Advance DEF Claim
    <3>2. QED
      BY <1>17, <2>3, <3>1 DEF Claim
  <2>4. QED
    BY <2>2, <2>3
<1>18. CASE Wipe(p) /\ UNCHANGED lfVars
  BY <1>18 DEF Wipe, Cleared, EndFind
<1>19. CASE Extend(p) /\ UNCHANGED lfVars
  BY <1>19 DEF Extend, EndFind
<1>20. CASE Link(p) /\ UNCHANGED lfVars
  <2>1. mine[p] \in Slots
    BY <1>20 DEF Link, Control, Owns, HoldPcs
  <2>2. QED
    BY <1>20, <2>1 DEF Link
<1>21. CASE Enlist(p) /\ UNCHANGED lfVars
  <2>1. mine[p] \in Slots
    BY <1>21 DEF Enlist, Control, Owns, HoldPcs
  <2>2. QED
    BY <1>21, <2>1 DEF Enlist
<1>22. CASE (CheckLimit(p) \/ Seize(p)) /\ UNCHANGED lfVars
  <2>1. CASE CheckLimit(p)
    BY <1>22, <2>1 DEF CheckLimit
  <2>2. CASE Seize(p)
    BY <1>22, <2>2 DEF Seize
  <2>3. QED
    BY <1>22, <2>1, <2>2
<1>23. CASE (Drain(p) \/ Drained(p)) /\ UNCHANGED lfVars
  <2>1. CASE Drain(p)
    <3>1. PICK s \in rlist :
            /\ \/ pc' = [pc EXCEPT ![p] = "abort"] \/ pc' = [pc EXCEPT ![p] = "drain"]
            /\ \/ UNCHANGED <<rlist, rmap, retired, inactive>>
               \/ /\ rlist' = rlist \ {s}
                  /\ \/ /\ retired' = retired \ {s} /\ inactive' = inactive \ {s}
                        /\ UNCHANGED rmap
                     \/ rmap' = rmap \cup {s} /\ UNCHANGED <<retired, inactive>>
      BY <2>1 DEF Drain
    <3>3. UNCHANGED <<tail, linked, data, isBusy, pmap, pos, end, dying, cutShort,
                      walkVars, mem>>
      BY <2>1 DEF Drain
    <3>4. /\ rlist' \subseteq Slots /\ rmap' \subseteq Slots
          /\ retired' \subseteq Slots /\ inactive' \subseteq Slots
      BY <3>1
    <3>5. pc' \in [Threads -> Pcs]
      BY <3>1
    <3>6. QED
      BY <1>23, <3>3, <3>4, <3>5
  <2>2. CASE Drained(p)
    BY <1>23, <2>2 DEF Drained
  <2>3. QED
    BY <1>23, <2>1, <2>2
<1>24. CASE Walk(p) /\ UNCHANGED lfVars
  <2>1. pos # end /\ pc[p] = "walk"
    BY <1>24 DEF Walk
  <2>2. pos + 1 \in Slots
    BY <2>1 DEF Scanning
  <2>3. QED
    BY <1>24, <2>2 DEF Walk
<1>25. CASE Walked(p) /\ UNCHANGED lfVars
  BY <1>25 DEF Walked
<1>26. CASE (Delete(p) \/ Mark(p) \/ Keep(p) \/ EndScan(p)) /\ UNCHANGED lfVars
  <2>1. CASE Delete(p)
    BY <1>26, <2>1 DEF Delete
  <2>2. CASE Mark(p)
    <3>1. dying \in Slots
      BY <2>2 DEF Mark, Scanning
    <3>2. QED
      BY <1>26, <2>2, <3>1 DEF Mark
  <2>3. CASE Keep(p)
    BY <1>26, <2>3 DEF Keep
  <2>4. CASE EndScan(p)
    <3>1. 0 \in Slots
      OBVIOUS
    <3>2. QED
      BY <2>4, <1>26, <3>1 DEF EndScan
  <2>5. QED
    BY <1>26, <2>1, <2>2, <2>3, <2>4
<1>27. QED
  BY <1>1, <1>2, <1>3, <1>4, <1>5, <1>6, <1>7, <1>8, <1>9, <1>10, <1>11, <1>12, <1>13, <1>14,
     <1>15, <1>16, <1>17, <1>18, <1>19, <1>20, <1>21, <1>22, <1>23, <1>24, <1>25, <1>26
     DEF Step, Push, Pop, Top, Domain, MakeHazard, Scan

\* Control.
LEMMA StepControl ==
  ASSUME SlotInv, NEW p \in Threads, Step(p)
  PROVE  Control'
<1> USE StackAssumption
<1> USE DEF SlotInv, TypeOK, Control, Carries, Goto, Return, FindPcs, HoldPcs, ScanPcs,
            Owns, Slots, NoSlot, Cells, Pointers, slotVars, scanVars, walkVars, lfVars
<1>1. CASE CreateNode(p)
  BY <1>1 DEF CreateNode
<1>2. CASE PushLoad(p)
  BY <1>2 DEF PushLoad
<1>3. CASE PushTake(p) \/ PushRetry(p)
  <2>1. CASE PushTake(p)
    BY <2>1 DEF PushTake
  <2>2. CASE PushRetry(p)
    BY <2>2 DEF PushRetry
  <2>3. QED
    BY <1>3, <2>1, <2>2
<1>4. CASE PopLoad(p)
  BY <1>4 DEF PopLoad
<1>5. CASE PopNext(p)
  BY <1>5 DEF PopNext
<1>6. CASE PopEmpty(p) \/ PopRetry(p)
  <2>1. CASE PopEmpty(p)
    BY <2>1 DEF PopEmpty
  <2>2. CASE PopRetry(p)
    BY <2>2 DEF PopRetry
  <2>3. QED
    BY <1>6, <2>1, <2>2
<1>7. CASE PopTake(p)
  BY <1>7 DEF PopTake, StartFind
<1>8. CASE PopProtect(p)
  BY <1>8 DEF PopProtect, Protect
<1>9. CASE PopRetire(p)
  BY <1>9 DEF PopRetire, Retire
<1>10. CASE TopLoad(p)
  BY <1>10 DEF TopLoad, StartFind
<1>11. CASE TopProtect(p)
  BY <1>11 DEF TopProtect, Protect
<1>12. CASE TopValidate(p)
  BY <1>12 DEF TopValidate
<1>13. CASE TopRead(p)
  BY <1>13 DEF TopRead
<1>14. CASE TopLeave(p)
  BY <1>14 DEF TopLeave, Release
<1>15. CASE FindNext(p) /\ UNCHANGED lfVars
  BY <1>15 DEF FindNext
<1>16. CASE FindFault(p) /\ UNCHANGED lfVars
  BY <1>16 DEF FindFault
<1>17. CASE Claim(p) /\ UNCHANGED lfVars
  <2>1. CASE ClaimWins(p)
    <3>1. /\ pc[p] = "claim" /\ pc' = [pc EXCEPT ![p] = "wipe"]
          /\ UNCHANGED <<tail, linked, mine, h, t, lfVars>>
      BY <1>17, <2>1 DEF Claim
    <3>2. QED
      BY <3>1
  <2>2. CASE ~ ClaimWins(p)
    <3>1. h[p] + 1 <= t[p]
      BY <1>17 DEF Claim
    <3>2. QED
      BY <1>17, <2>2, <3>1 DEF Claim
  <2>3. QED
    BY <2>1, <2>2
<1>18. CASE Wipe(p) /\ UNCHANGED lfVars
  BY <1>18 DEF Wipe, EndFind
<1>19. CASE Extend(p) /\ UNCHANGED lfVars
  BY <1>19 DEF Extend, EndFind
<1>20. CASE Link(p) /\ UNCHANGED lfVars
  BY <1>20 DEF Link, Running
<1>21. CASE Enlist(p) /\ UNCHANGED lfVars
  BY <1>21 DEF Enlist
<1>22. CASE (CheckLimit(p) \/ Seize(p)) /\ UNCHANGED lfVars
  <2>1. CASE CheckLimit(p)
    BY <1>22, <2>1 DEF CheckLimit
  <2>2. CASE Seize(p)
    BY <1>22, <2>2 DEF Seize
  <2>3. QED
    BY <1>22, <2>1, <2>2
<1>23. CASE Scan(p) /\ UNCHANGED lfVars
  <2>1. /\ pc[p] \in ScanPcs /\ pc'[p] \in ScanPcs \cup {"idle"}
        /\ \A q \in Threads : q # p => pc'[q] = pc[q]
        /\ UNCHANGED <<tail, linked, mine, h, t, op, ref, temp, next>>
    <3>1. CASE Drain(p) \/ Drained(p)
      BY <1>23, <3>1 DEF Drain, Drained
    <3>2. CASE Walk(p) \/ Walked(p)
      BY <1>23, <3>2 DEF Walk, Walked
    <3>3. CASE Delete(p) \/ Mark(p) \/ Keep(p) \/ EndScan(p)
      BY <1>23, <3>3 DEF Delete, Mark, Keep, EndScan
    <3>4. QED
      BY <1>23, <3>1, <3>2, <3>3 DEF Scan
  <2>2. QED
    BY <2>1
<1>24. QED
  BY <1>1, <1>2, <1>3, <1>4, <1>5, <1>6, <1>7, <1>8, <1>9, <1>10, <1>11, <1>12, <1>13, <1>14,
     <1>15, <1>16, <1>17, <1>18, <1>19, <1>20, <1>21, <1>22, <1>23
     DEF Step, Push, Pop, Top, Domain, MakeHazard

\* What the steps of scan() do to the slots.
LEMMA DrainEffect ==
  ASSUME SlotInv, NEW p \in Threads, Drain(p)
  PROVE  /\ pc[p] = "drain" /\ \A q \in Threads : q # p => pc'[q] = pc[q]
         /\ UNCHANGED <<tail, linked, retired, inactive, data, isBusy, pmap, pos, end,
                        dying, cutShort, mine, h, t, mem>>
         /\ \/ pc'[p] = "abort" /\ UNCHANGED <<rlist, rmap>>
            \/ \E s \in rlist : /\ ~ InRmap(data[s]) /\ pc'[p] = "drain"
                                /\ rlist' = rlist \ {s} /\ rmap' = rmap \cup {s}
<1>1. pc[p] = "drain" /\ UNCHANGED <<tail, linked, data, isBusy, pmap, pos, end, dying,
                                     cutShort, mine, h, t, mem>>
  BY DEF Drain, Goto, walkVars
<1>2. \A q \in Threads : q # p => pc'[q] = pc[q]
  BY DEF Drain, Goto, SlotInv, TypeOK
<1>3. \A s \in rlist : data[s] # NULL
  BY HazardousAssumption DEF SlotInv, Contents
<1>4. PICK s \in rlist :
        IF InRmap(data[s])
        THEN Goto(p, "drain", "abort") /\ UNCHANGED <<rlist, rmap, retired, inactive>>
        ELSE /\ Goto(p, "drain", "drain") /\ rlist' = rlist \ {s}
             /\ rmap' = rmap \cup {s} /\ UNCHANGED <<retired, inactive>>
  BY <1>3 DEF Drain
<1>5. CASE InRmap(data[s])
  <2>1. pc'[p] = "abort"
    BY <1>4, <1>5 DEF Goto, SlotInv, TypeOK
  <2>2. UNCHANGED <<rlist, rmap, retired, inactive>>
    BY <1>4, <1>5
  <2>3. QED
    BY <1>1, <1>2, <2>1, <2>2
<1>6. CASE ~ InRmap(data[s])
  <2>1. pc'[p] = "drain"
    BY <1>4, <1>6 DEF Goto, SlotInv, TypeOK
  <2>2. QED
    BY <1>1, <1>2, <1>4, <1>6, <2>1
<1>7. QED
  BY <1>5, <1>6

LEMMA DeleteEffect ==
  ASSUME SlotInv, NEW p \in Threads, Delete(p)
  PROVE  /\ pc[p] = "free" /\ pc'[p] = "mark" /\ \A q \in Threads : q # p => pc'[q] = pc[q]
         /\ dying = NoSlot
         /\ \E s \in rmap : /\ data[s] \notin pmap
                            /\ mem' = [mem EXCEPT ![data[s]] = "pool"]
                            /\ rmap' = rmap \ {s} /\ dying' = s
         /\ UNCHANGED <<tail, linked, retired, inactive, data, isBusy, pmap, pos, end,
                        cutShort, mine, h, t, rlist>>
<1>1. pc[p] = "free" /\ pc'[p] = "mark" /\ \A q \in Threads : q # p => pc'[q] = pc[q]
  BY DEF Delete, Goto, SlotInv, TypeOK
<1>2. dying = NoSlot
  BY <1>1 DEF SlotInv, Scanning, OneScanner, ScanPcs
<1>3. QED
  BY <1>1, <1>2 DEF Delete, slotVars, walkVars

LEMMA MarkEffect ==
  ASSUME SlotInv, NEW p \in Threads, Mark(p)
  PROVE  /\ pc[p] = "mark" /\ pc'[p] = "free" /\ \A q \in Threads : q # p => pc'[q] = pc[q]
         /\ dying \in retired /\ dying # NoSlot /\ dying' = NoSlot
         /\ retired' = retired \ {dying} /\ inactive' = inactive \cup {dying}
         /\ UNCHANGED <<tail, linked, data, isBusy, rmap, pmap, pos, end, cutShort, mine,
                        h, t, rlist, mem>>
<1>1. pc[p] = "mark" /\ pc'[p] = "free" /\ \A q \in Threads : q # p => pc'[q] = pc[q]
  BY DEF Mark, Goto, SlotInv, TypeOK
<1>2. dying \in retired /\ dying # NoSlot
  BY <1>1 DEF SlotInv, Scanning
<1>3. QED
  BY <1>1, <1>2 DEF Mark, walkVars

\* A step that does not move tail_ and keeps what others are about to link.
LEMMA ChainKept ==
  ASSUME Chain, tail' = tail, linked \subseteq linked',
         \A q \in Threads : pc[q] = "link" =>
           mine[q] \in linked' \/ (pc'[q] = "link" /\ mine'[q] = mine[q])
  PROVE  Chain'
BY DEF Chain

\* Chain: only Extend leaves a slot to be linked, and makes p the one to do it.
LEMMA StepChain ==
  ASSUME SlotInv, NEW p \in Threads, Step(p)
  PROVE  Chain'
<1> USE DEF SlotInv, TypeOK, Goto, Slots, NoSlot, slotVars, scanVars, walkVars
<1> DEFINE Keeps ==
             /\ tail' = tail /\ linked \subseteq linked'
             /\ \A q \in Threads : pc[q] = "link" =>
                  mine[q] \in linked' \/ (pc'[q] = "link" /\ mine'[q] = mine[q])
<1>1. Keeps => Chain'
  BY ChainKept
<1>2. CASE ListStep(p)
  <2>1. Keeps
    BY <1>2, ListEffect DEF ListPcs
  <2>2. QED
    BY <1>1, <2>1
<1>3. CASE PopTake(p) \/ PopProtect(p) \/ PopRetire(p)
  BY <1>1, <1>3 DEF PopTake, StartFind, PopProtect, Protect, PopRetire, Retire
<1>4. CASE Top(p)
  BY <1>1, <1>4 DEF Top, TopLoad, StartFind, TopProtect, Protect, TopValidate, TopRead,
                    TopLeave, Release
<1>5. CASE FindNext(p) \/ Claim(p)
  BY <1>1, <1>5, FindNextEffect, ClaimEffect
<1>6. CASE FindFault(p) \/ Wipe(p) \/ Link(p) \/ Enlist(p) \/ CheckLimit(p) \/ Seize(p)
  BY <1>1, <1>6 DEF FindFault, Wipe, Link, Enlist, CheckLimit, Seize
<1>7. CASE Drain(p) \/ Delete(p) \/ Mark(p)
  BY <1>1, <1>7, DrainEffect, DeleteEffect, MarkEffect
<1>8. CASE Drained(p) \/ Walk(p) \/ Walked(p) \/ Keep(p) \/ EndScan(p)
  BY <1>1, <1>8 DEF Drained, Walk, Walked, Keep, EndScan
<1>9. CASE Extend(p)
  <2>1. tail' = tail + 1 /\ linked' = linked /\ pc'[p] = "link" /\ mine'[p] = tail
    BY <1>9 DEF Extend
  <2>2. \A q \in Threads : pc[q] = "link" => pc'[q] = "link" /\ mine'[q] = mine[q]
    BY <1>9 DEF Extend
  <2>3. Chain /\ tail \in Int
    OBVIOUS
  <2> HIDE DEF SlotInv
  <2>4. QED
    BY <2>1, <2>2, <2>3 DEF Chain
<1>10. QED
  BY <1>2, <1>3, <1>4, <1>5, <1>6, <1>7, <1>8, <1>9, StepIs
     DEF SlotStep, Domain, MakeHazard, Scan

\* A step that neither takes a slot nor gives one away.
LEMMA ApartKept ==
  ASSUME Apart, UNCHANGED <<tail, inactive, rlist, rmap, retired, dying>>,
         \A q \in Threads : /\ pc'[q] = "enlist" <=> pc[q] = "enlist"
                            /\ pc[q] = "enlist" => mine'[q] = mine[q]
  PROVE  Apart'
BY DEF Apart, Enlisting

LEMMA HeldKept ==
  ASSUME Held, tail \in Int, tail' \in Int, tail <= tail',
         (inactive' \cup rlist' \cup rmap' \cup {dying'}) \ {NoSlot}
           \subseteq inactive \cup rlist \cup rmap \cup {dying},
         \A q \in Threads, s \in Slots : Holds(q, s)' => Holds(q, s)
  PROVE  Held'
BY DEF Held, Slots, NoSlot

\* A step in which a thread gives its slot away.
LEMMA HeldGiven ==
  ASSUME Held, NEW p \in Threads, NEW s \in Slots, Holds(p, s), tail' = tail,
         dying' = dying,
         inactive' \cup rlist' \cup rmap' \subseteq inactive \cup rlist \cup rmap \cup {s},
         \A q \in Threads, r \in Slots : Holds(q, r)' => Holds(q, r) /\ q # p
  PROVE  Held'
BY DEF Held

\* Apart: slots go from one place to the next.
LEMMA StepApart ==
  ASSUME SlotInv, NEW p \in Threads, Step(p)
  PROVE  Apart'
<1> USE DEF SlotInv, TypeOK, Goto, Slots, NoSlot, slotVars, scanVars, walkVars
<1> DEFINE Keeps ==
             /\ UNCHANGED <<tail, inactive, rlist, rmap, retired, dying>>
             /\ \A q \in Threads : /\ pc'[q] = "enlist" <=> pc[q] = "enlist"
                                   /\ pc[q] = "enlist" => mine'[q] = mine[q]
<1>1. Keeps => Apart'
  BY ApartKept
<1>2. CASE ListStep(p)
  <2>1. Keeps
    BY <1>2, ListEffect DEF ListPcs
  <2>2. QED
    BY <1>1, <2>1
<1>3. CASE PopTake(p) \/ PopProtect(p)
  BY <1>1, <1>3 DEF PopTake, StartFind, PopProtect, Protect
<1>4. CASE TopLoad(p) \/ TopProtect(p) \/ TopValidate(p) \/ TopRead(p)
  BY <1>1, <1>4 DEF TopLoad, StartFind, TopProtect, Protect, TopValidate, TopRead
<1>5. CASE FindNext(p)
  BY <1>1, <1>5, FindNextEffect
<1>6. CASE FindFault(p) \/ Wipe(p) \/ Link(p) \/ CheckLimit(p) \/ Seize(p)
  BY <1>1, <1>6 DEF FindFault, Wipe, EndFind, Link, CheckLimit, Seize
<1>7. CASE Drained(p) \/ Walk(p) \/ Walked(p) \/ EndScan(p)
  BY <1>1, <1>7 DEF Drained, Walk, Walked, EndScan
<1>0. Apart
  OBVIOUS
<1> USE DEF Apart
<1>8. CASE PopRetire(p)
  <2>1. /\ pc[p] = "retire" /\ pc'[p] = "enlist"
        /\ \A q \in Threads : q # p => pc'[q] = pc[q]
        /\ retired' = retired \cup {mine[p]}
        /\ UNCHANGED <<tail, inactive, rlist, rmap, dying, mine>>
    BY <1>8 DEF PopRetire, Retire
  <2> HIDE DEF SlotInv
  <2>2. QED
    BY <1>0, <2>1 DEF Enlisting
<1>9. CASE TopLeave(p)
  <2>1. /\ pc[p] = "leave" /\ pc'[p] = "idle"
        /\ \A q \in Threads : q # p => mine'[q] = mine[q] /\ pc'[q] = pc[q]
        /\ inactive' = inactive \cup {mine[p]}
        /\ UNCHANGED <<tail, rlist, rmap, retired, dying>>
    BY <1>9 DEF TopLeave, Release
  <2>2. mine[p] \in Slots /\ Holds(p, mine[p])
    BY <2>1 DEF Control, Owns, HoldPcs, Holds
  <2>3. mine[p] \in 0 .. tail - 1 /\ mine[p] \notin rlist \cup rmap \cup {dying}
    BY <2>2 DEF Held
  <2> HIDE DEF SlotInv
  <2>4. QED
    BY <1>0, <2>1, <2>3 DEF Enlisting
<1>10. CASE Claim(p)
  <2>1. /\ pc[p] # "enlist" /\ pc'[p] # "enlist"
        /\ \A q \in Threads : q # p => pc'[q] = pc[q]
        /\ inactive' \subseteq inactive
        /\ UNCHANGED <<tail, rlist, rmap, retired, mine, dying>>
    BY <1>10, ClaimEffect
  <2> HIDE DEF SlotInv
  <2>2. QED
    BY <1>0, <2>1 DEF Enlisting
<1>11. CASE Extend(p)
  BY <1>11 DEF Extend, EndFind, Enlisting
<1>12. CASE Enlist(p)
  <2>1. /\ pc[p] = "enlist" /\ pc'[p] = "check"
        /\ \A q \in Threads : q # p => mine'[q] = mine[q] /\ pc'[q] = pc[q]
        /\ rlist' = rlist \cup {mine[p]}
        /\ UNCHANGED <<tail, inactive, rmap, retired, dying>>
    BY <1>12 DEF Enlist
  <2>2. mine[p] \in Slots /\ Holds(p, mine[p])
    BY <2>1 DEF Control, Owns, HoldPcs, Holds
  <2>3. mine[p] \in 0 .. tail - 1 /\ mine[p] \notin inactive \cup rmap \cup {dying}
    BY <2>2 DEF Held
  <2> HIDE DEF SlotInv
  <2>4. QED
    BY <1>0, <2>1, <2>3 DEF Enlisting
<1>13. CASE Drain(p)
  <2>1. CASE UNCHANGED <<rlist, rmap>>
    BY <1>1, <1>13, <2>1, DrainEffect
  <2>2. ASSUME NEW s \in rlist, rlist' = rlist \ {s}, rmap' = rmap \cup {s},
               pc'[p] = "drain"
        PROVE  Apart'
    <3>1. \A q \in Threads : pc'[q] = pc[q]
      BY <1>13, <2>2, DrainEffect
    <3>2. UNCHANGED <<tail, inactive, retired, mine, dying>>
      BY <1>13, DrainEffect
    <3> HIDE DEF SlotInv
    <3>3. QED
      BY <1>0, <2>2, <3>1, <3>2 DEF Enlisting
  <2>3. QED
    BY <1>13, <2>1, <2>2, DrainEffect
<1>14. CASE Delete(p)
  <2>1. PICK s \in rmap : rmap' = rmap \ {s} /\ dying' = s
    BY <1>14, DeleteEffect
  <2>2. \A q \in Threads : pc'[q] = "enlist" <=> pc[q] = "enlist"
    BY <1>14, DeleteEffect
  <2>3. UNCHANGED <<tail, inactive, retired, rlist, mine>> /\ dying = NoSlot
    BY <1>14, DeleteEffect
  <2>4. dying \notin retired
    BY <2>3
  <2>5. retired \subseteq rlist \cup rmap \cup Enlisting
    BY <1>0, <2>4
  <2>6. Enlisting' = Enlisting
    BY <2>2, <2>3 DEF Enlisting
  <2>7. tail \in Int
    OBVIOUS
  <2> HIDE DEF SlotInv
  <2>8. retired' \subseteq rlist' \cup rmap' \cup {dying'} \cup Enlisting'
    BY <2>1, <2>3, <2>5, <2>6
  <2>9. /\ inactive' \cup rlist' \cup rmap' \subseteq 0 .. tail' - 1
        /\ dying' # NoSlot => dying' < tail'
    BY <1>0, <2>1, <2>3, <2>7
  <2>10. /\ inactive' \cap rlist' = {} /\ inactive' \cap rmap' = {} /\ rlist' \cap rmap' = {}
        /\ dying' \notin inactive' \cup rlist' \cup rmap'
    BY <1>0, <2>1, <2>3
  <2>11. QED
    BY <2>8, <2>9, <2>10
<1>15. CASE Mark(p)
  <2>1. \A q \in Threads : pc'[q] = "enlist" <=> pc[q] = "enlist"
    BY <1>15, MarkEffect
  <2>2. /\ UNCHANGED <<tail, rmap, rlist, mine>> /\ retired' = retired \ {dying}
        /\ inactive' = inactive \cup {dying} /\ dying' = NoSlot
        /\ dying # NoSlot
    BY <1>15, MarkEffect
  <2>3. dying \in 0 .. tail - 1
    BY <2>2
  <2>4. NoSlot \notin inactive' \cup rlist' \cup rmap'
    BY <2>2
  <2> HIDE DEF SlotInv, NoSlot
  <2>5. retired' \subseteq rlist' \cup rmap' \cup Enlisting'
    BY <1>0, <2>1, <2>2 DEF Enlisting
  <2>6. QED
    BY <1>0, <2>2, <2>3, <2>4, <2>5
<1>16. CASE Keep(p)
  <2>1. PICK s \in rmap : /\ rmap' = rmap \ {s} /\ rlist' = rlist \cup {s}
                          /\ UNCHANGED <<tail, inactive, retired, mine, dying>>
    BY <1>16 DEF Keep
  <2>2. \A q \in Threads : pc'[q] = pc[q]
    BY <1>16 DEF Keep
  <2> HIDE DEF SlotInv
  <2>3. QED
    BY <1>0, <2>1, <2>2 DEF Enlisting
<1>17. QED
  BY <1>2, <1>3, <1>4, <1>5, <1>6, <1>7, <1>8, <1>9, <1>10, <1>11, <1>12, <1>13, <1>14,
     <1>15, <1>16, StepIs DEF SlotStep, Top, Domain, MakeHazard, Scan

\* Held: a slot that is claimed, or taken at tail_, has no other owner.
LEMMA StepHeld ==
  ASSUME SlotInv, NEW p \in Threads, Step(p)
  PROVE  Held'
<1> USE DEF SlotInv, TypeOK, Goto, Slots, NoSlot, slotVars, scanVars, walkVars
<1> DEFINE Keeps ==
             /\ tail' = tail
             /\ (inactive' \cup rlist' \cup rmap' \cup {dying'}) \ {NoSlot}
                  \subseteq inactive \cup rlist \cup rmap \cup {dying}
             /\ \A q \in Threads, s \in Slots : Holds(q, s)' => Holds(q, s)
<1>1. Keeps => Held'
  BY HeldKept
<1>2. CASE ListStep(p)
  <2>1. Keeps
    BY <1>2, ListEffect DEF ListPcs, Holds
  <2>2. QED
    BY <1>1, <2>1
<1>3. CASE PopTake(p) \/ PopProtect(p) \/ PopRetire(p)
  BY <1>1, <1>3 DEF PopTake, StartFind, PopProtect, Protect, PopRetire, Retire, Holds
<1>4. CASE TopLoad(p) \/ TopProtect(p) \/ TopValidate(p) \/ TopRead(p)
  BY <1>1, <1>4 DEF TopLoad, StartFind, TopProtect, Protect, TopValidate, TopRead, Holds
<1>5. CASE FindNext(p)
  BY <1>1, <1>5, FindNextEffect DEF Holds
<1>6. CASE FindFault(p) \/ Wipe(p) \/ Link(p) \/ CheckLimit(p) \/ Seize(p)
  BY <1>1, <1>6 DEF FindFault, Wipe, EndFind, Link, CheckLimit, Seize, Holds
<1>7. CASE Drained(p) \/ Walk(p) \/ Walked(p) \/ EndScan(p)
  BY <1>1, <1>7 DEF Drained, Walk, Walked, EndScan, Holds
<1>8. CASE Drain(p) \/ Delete(p) \/ Mark(p)
  <2>1. \A q \in Threads, s \in Slots : Holds(q, s)' => Holds(q, s)
    BY <1>8, DrainEffect, DeleteEffect, MarkEffect DEF Holds
  <2>2. tail' = tail
    BY <1>8, DrainEffect, DeleteEffect, MarkEffect
  <2>3. CASE Drain(p)
    <3>1. rlist' \cup rmap' = rlist \cup rmap /\ UNCHANGED <<inactive, dying>>
      BY <2>3, DrainEffect
    <3>2. Keeps
      BY <2>1, <2>2, <3>1
    <3>3. QED
      BY <1>1, <3>2
  <2>4. CASE Delete(p)
    <3>1. PICK s \in rmap : rmap' = rmap \ {s} /\ dying' = s
      BY <2>4, DeleteEffect
    <3>2. UNCHANGED <<inactive, rlist>>
      BY <2>4, DeleteEffect
    <3>3. QED
      BY <1>1, <2>1, <2>2, <3>1, <3>2
  <2>5. CASE Mark(p)
    BY <1>1, <2>1, <2>2, <2>5, MarkEffect
  <2>6. QED
    BY <1>8, <2>3, <2>4, <2>5
<1>9. CASE Keep(p)
  BY <1>1, <1>9 DEF Keep, Holds
<1>10. CASE TopLeave(p) \/ Enlist(p)
  <2>1. /\ mine[p] \in Slots /\ Holds(p, mine[p])
        /\ inactive' \cup rlist' \cup rmap' = inactive \cup rlist \cup rmap \cup {mine[p]}
        /\ tail' = tail /\ dying' = dying
    BY <1>10 DEF TopLeave, Release, Enlist, Control, Owns, HoldPcs, Holds
  <2>2. \A q \in Threads, r \in Slots : Holds(q, r)' => Holds(q, r) /\ q # p
    BY <1>10 DEF TopLeave, Release, Enlist, Holds
  <2>3. QED
    BY <2>1, <2>2, HeldGiven
<1>11. CASE Claim(p)
  <2>1. CASE pc'[p] = "wipe"
    <3>1. /\ h[p] \in inactive /\ inactive' = inactive \ {h[p]}
          /\ UNCHANGED <<tail, rlist, rmap, dying>>
      BY <1>11, <2>1, ClaimEffect
    <3>2. \A q \in Threads, s \in Slots :
            Holds(q, s)' <=> Holds(q, s) \/ (q = p /\ s = h[p])
      BY <1>11, <2>1, ClaimEffect DEF Holds
    <3>3. h[p] < tail /\ h[p] \notin rlist \cup rmap \cup {dying}
      BY <3>1 DEF Apart
    <3>4. \A q \in Threads : ~ Holds(q, h[p])
      BY <3>1 DEF Held
    <3>5. QED
      BY <3>1, <3>2, <3>3, <3>4 DEF Held
  <2>2. CASE pc'[p] = "find"
    BY <1>1, <1>11, <2>2, ClaimEffect DEF Holds
  <2>3. QED
    BY <1>11, <2>1, <2>2, ClaimEffect
<1>12. CASE Extend(p)
  <2>1. tail' = tail + 1 /\ UNCHANGED <<inactive, rlist, rmap, dying>>
    BY <1>12 DEF Extend
  <2>2. \A q \in Threads, s \in Slots : Holds(q, s)' => Holds(q, s) \/ (q = p /\ s = tail)
    BY <1>12 DEF Extend, EndFind, Holds
  <2>3. /\ tail \notin inactive \cup rlist \cup rmap \cup {dying}
        /\ \A q \in Threads : ~ Holds(q, tail)
    BY DEF Apart, Held
  <2>4. QED
    BY <2>1, <2>2, <2>3 DEF Held
<1>13. QED
  BY <1>2, <1>3, <1>4, <1>5, <1>6, <1>7, <1>8, <1>9, <1>10, <1>11, <1>12, StepIs
     DEF SlotStep, Top, Domain, MakeHazard, Scan

\* A slot in the hands of a thread is retired only on its way to rlist_.
LEMMA NotRetired ==
  ASSUME SlotInv, NEW p \in Threads, NEW s \in Slots, Holds(p, s), pc[p] # "enlist"
  PROVE  s \notin retired
<1>1. s \notin rlist \cup rmap \cup {dying} /\ \A q \in Threads : Holds(q, s) => q = p
  BY DEF SlotInv, Held
<1>2. s \notin Enlisting
  BY <1>1 DEF Enlisting, Holds
<1>3. QED
  BY <1>1, <1>2 DEF SlotInv, Apart

\* A step that writes to no slot, and starts nothing that Contents speaks of.
LEMMA ContentsKept ==
  ASSUME Contents, UNCHANGED <<tail, data, mine, retired>>,
         rlist' \cup rmap' \subseteq rlist \cup rmap,
         \A q \in Threads :
           pc'[q] \in {"link", "own", "validate", "read", "retire", "enlist"} =>
             pc'[q] = pc[q] /\ ref'[q] = ref[q] /\ temp'[q] = temp[q]
  PROVE  Contents'
BY DEF Contents

\* Contents: only its owner writes to a slot.
LEMMA StepContents ==
  ASSUME SlotInv, NEW p \in Threads, Step(p)
  PROVE  Contents'
<1> USE DEF SlotInv, TypeOK, Goto, Slots, NoSlot, slotVars, scanVars, walkVars, lfVars
<1> DEFINE Keeps ==
             /\ UNCHANGED <<tail, data, mine, retired>>
             /\ rlist' \cup rmap' \subseteq rlist \cup rmap
             /\ \A q \in Threads :
                  pc'[q] \in {"link", "own", "validate", "read", "retire", "enlist"} =>
                    pc'[q] = pc[q] /\ ref'[q] = ref[q] /\ temp'[q] = temp[q]
<1>1. Keeps => Contents'
  BY ContentsKept
<1>2. CASE ListStep(p)
  <2>1. Keeps
    BY <1>2, ListEffect DEF ListPcs
  <2>2. QED
    BY <1>1, <2>1
<1>3. CASE PopTake(p)
  BY <1>1, <1>3 DEF PopTake, StartFind
<1>4. CASE TopLoad(p) \/ TopRead(p)
  BY <1>1, <1>4 DEF TopLoad, StartFind, TopRead
<1>5. CASE (FindNext(p) \/ Claim(p)) /\ UNCHANGED lfVars
  BY <1>1, <1>5, FindNextEffect, ClaimEffect
<1>6. CASE (FindFault(p) \/ CheckLimit(p) \/ Seize(p)) /\ UNCHANGED lfVars
  BY <1>1, <1>6 DEF FindFault, CheckLimit, Seize
<1>7. CASE (Drained(p) \/ Walk(p) \/ Walked(p)) /\ UNCHANGED lfVars
  BY <1>1, <1>7 DEF Drained, Walk, Walked
<1>8. CASE (Drain(p) \/ Delete(p)) /\ UNCHANGED lfVars
  <2>1. rlist' \cup rmap' \subseteq rlist \cup rmap
    BY <1>8, DrainEffect, DeleteEffect
  <2>2. QED
    BY <1>1, <1>8, <2>1, DrainEffect, DeleteEffect
<1>9. CASE (Keep(p) \/ EndScan(p)) /\ UNCHANGED lfVars
  BY <1>1, <1>9 DEF Keep, EndScan
<1>0. Contents
  OBVIOUS
<1> USE DEF Contents
<1>10. CASE PopProtect(p)
  <2>1. /\ pc[p] = "own" /\ op[p] = "pop" /\ pc' = [pc EXCEPT ![p] = "retire"]
        /\ data' = [data EXCEPT ![mine[p]] = ref[p]]
        /\ UNCHANGED <<tail, mine, ref, temp, retired, rlist, rmap>>
    BY <1>10 DEF PopProtect, Protect
  <2>2. mine[p] \in Slots /\ Holds(p, mine[p])
    BY <2>1 DEF Control, Owns, HoldPcs, Holds
  <2>3. /\ mine[p] < tail /\ mine[p] \notin retired
        /\ \A q \in Threads : q # p => mine[q] # mine[p]
    BY <2>1, <2>2, NotRetired DEF Held, Holds
  <2>4. data'[mine[p]] = ref[p] /\ \A s \in Slots : s # mine[p] => data'[s] = data[s]
    BY <2>1, <2>2
  <2>5. \A q \in Threads : pc[q] \in HoldPcs => mine[q] \in Slots
    BY DEF Control, Owns
  <2>6. \A q \in Threads : q # p => pc'[q] = pc[q]
    BY <2>1
  <2>7. pc'[p] = "retire"
    BY <2>1
  <2>8. \A s \in retired : s \in Slots
    OBVIOUS
  <2>9. tail \in Int
    OBVIOUS
  <2> HIDE DEF SlotInv
  <2>10. \A s \in Slots : tail' <= s => data'[s] = NULL
    BY <1>0, <2>1, <2>2, <2>3, <2>4, <2>9
  <2>11. QED
    BY <1>0, <2>1, <2>3, <2>4, <2>5, <2>6, <2>7, <2>8, <2>10 DEF HoldPcs
<1>11. CASE PopRetire(p)
  <2>1. /\ pc[p] = "retire" /\ pc'[p] = "enlist" /\ retired' = retired \cup {mine[p]}
        /\ \A q \in Threads : q # p => /\ pc'[q] = pc[q] /\ ref'[q] = ref[q]
                                       /\ temp'[q] = temp[q]
        /\ UNCHANGED <<tail, mine, data, rlist, rmap>>
    BY <1>11 DEF PopRetire, Retire, Return
  <2>2. data[mine[p]] \in Objects
    BY <2>1 DEF Control, Carries
  <2> HIDE DEF SlotInv
  <2>3. QED
    BY <1>0, <2>1, <2>2
<1>12. CASE TopProtect(p)
  <2>1. /\ pc[p] \in {"own", "again"} /\ pc' = [pc EXCEPT ![p] = "validate"]
        /\ data' = [data EXCEPT ![mine[p]] = ref[p]]
        /\ temp' = [temp EXCEPT ![p] = ref[p]]
        /\ UNCHANGED <<tail, mine, ref, retired, rlist, rmap>>
    BY <1>12 DEF TopProtect, Protect
  <2>2. mine[p] \in Slots /\ Holds(p, mine[p])
    BY <2>1 DEF Control, Owns, HoldPcs, Holds
  <2>3. /\ mine[p] < tail /\ mine[p] \notin retired
        /\ \A q \in Threads : q # p => mine[q] # mine[p]
    BY <2>1, <2>2, NotRetired DEF Held, Holds
  <2>4. data'[mine[p]] = ref[p] /\ \A s \in Slots : s # mine[p] => data'[s] = data[s]
    BY <2>1, <2>2
  <2>5. \A q \in Threads : pc[q] \in HoldPcs => mine[q] \in Slots
    BY DEF Control, Owns
  <2>6. \A q \in Threads : q # p => pc'[q] = pc[q] /\ temp'[q] = temp[q]
    BY <2>1
  <2>7. pc'[p] = "validate" /\ temp'[p] = ref[p]
    BY <2>1
  <2>8. \A s \in retired : s \in Slots
    OBVIOUS
  <2>9. tail \in Int
    OBVIOUS
  <2> HIDE DEF SlotInv
  <2>10. \A s \in Slots : tail' <= s => data'[s] = NULL
    BY <1>0, <2>1, <2>2, <2>3, <2>4, <2>9
  <2>11. QED
    BY <1>0, <2>1, <2>3, <2>4, <2>5, <2>6, <2>7, <2>8, <2>10 DEF HoldPcs
<1>13. CASE TopValidate(p)
  BY <1>13 DEF TopValidate, Validated
<1>14. CASE TopLeave(p)
  <2>1. /\ pc[p] = "leave" /\ pc'[p] = "idle" /\ UNCHANGED <<tail, data, retired, rlist, rmap>>
        /\ \A q \in Threads : q # p => /\ pc'[q] = pc[q] /\ mine'[q] = mine[q]
                                       /\ ref'[q] = ref[q] /\ temp'[q] = temp[q]
    BY <1>14 DEF TopLeave, Release, Return
  <2> HIDE DEF SlotInv
  <2>2. QED
    BY <1>0, <2>1
<1>15. CASE Wipe(p) /\ UNCHANGED lfVars
  <2>1. /\ pc[p] = "wipe" /\ pc'[p] = "own" /\ mine'[p] = h[p]
        /\ \A q \in Threads : q # p => pc'[q] = pc[q] /\ mine'[q] = mine[q]
        /\ data' = [data EXCEPT ![h[p]] = NULL]
        /\ UNCHANGED <<tail, retired, rlist, rmap, ref, temp>>
    BY <1>15 DEF Wipe, Cleared, EndFind
  <2>2. h[p] \in Slots /\ Holds(p, h[p])
    BY <2>1 DEF Holds
  <2>3. h[p] \notin retired /\ \A q \in Threads : q # p => mine[q] # h[p]
    BY <2>1, <2>2, NotRetired DEF Held, Holds
  <2>4. data'[h[p]] = NULL /\ \A s \in Slots : s # h[p] => data'[s] = data[s]
    BY <2>1, <2>2
  <2>5. \A q \in Threads : pc[q] \in HoldPcs => mine[q] \in Slots
    BY DEF Control, Owns
  <2>6. \A s \in retired : s \in Slots
    OBVIOUS
  <2> HIDE DEF SlotInv
  <2>7. QED
    BY <1>0, <2>1, <2>2, <2>3, <2>4, <2>5, <2>6 DEF HoldPcs
<1>16. CASE Extend(p) /\ UNCHANGED lfVars
  BY <1>16 DEF Extend, EndFind
<1>17. CASE Link(p) /\ UNCHANGED lfVars
  BY <1>17 DEF Link
<1>18. CASE Enlist(p) /\ UNCHANGED lfVars
  BY <1>18 DEF Enlist
<1>19. CASE Mark(p) /\ UNCHANGED lfVars
  <2>1. \A q \in Threads : pc'[q] # "mark" /\ pc'[q] # "free" => pc'[q] = pc[q]
    BY <1>19, MarkEffect
  <2>2. \A q \in Threads : pc[q] = "enlist" => mine[q] # dying
    BY DEF Control, Owns, HoldPcs, Held, Holds
  <2>3. dying \notin rlist \cup rmap
    BY DEF Apart
  <2>4. retired' = retired \ {dying} /\ UNCHANGED <<tail, data, mine, rlist, rmap, ref, temp>>
    BY <1>19, MarkEffect
  <2> HIDE DEF SlotInv
  <2>5. QED
    BY <1>0, <2>1, <2>2, <2>3, <2>4
<1>20. QED
  BY <1>2, <1>3, <1>4, <1>5, <1>6, <1>7, <1>8, <1>9, <1>10, <1>11, <1>12, <1>13,
     <1>14, <1>15, <1>16, <1>17, <1>18, <1>19, StepIs
     DEF SlotStep, Top, Domain, MakeHazard, Scan

\* A step outside scan().
LEMMA ScanningKept ==
  ASSUME Scanning, NEW p \in Threads,
         UNCHANGED <<rmap, pmap, pos, end, dying, isBusy>>, retired \subseteq retired',
         end \in Int, tail \in Int, tail' \in Int, tail <= tail',
         pc[p] \notin ScanPcs, pc'[p] \notin ScanPcs,
         \A q \in Threads \ {p} : pc'[q] = pc[q]
  PROVE  Scanning'
<1> USE DEF Scanning, ScanPcs
<1>1. \A q \in Threads, x \in ScanPcs : pc'[q] = x <=> pc[q] = x
  OBVIOUS
<1>2. OneScanner'
  BY <1>1 DEF OneScanner
<1>3. /\ rmap' # {} => isBusy'
      /\ dying' # NoSlot <=> \E q \in Threads : pc'[q] = "mark"
      /\ dying' # NoSlot => dying' \in retired'
  BY <1>1
<1>4. (\A q \in Threads : pc[q] \notin {"walk", "free", "mark"})' => pos' = 0 /\ pmap' = {}
  BY <1>1
<1>5. (\A q \in Threads : pc[q] = "walk" => pos <= end /\ end <= tail)'
  BY <1>1
<1>6. QED
  BY <1>2, <1>3, <1>4, <1>5

\* Scanning: only the one thread in scan() changes what it says.
LEMMA StepScanning ==
  ASSUME SlotInv, NEW p \in Threads, Step(p)
  PROVE  Scanning'
<1> USE DEF SlotInv, TypeOK, Goto, Slots, scanVars, slotVars
<1> DEFINE Outside ==
             /\ UNCHANGED <<rmap, pmap, pos, end, dying, isBusy>>
             /\ retired \subseteq retired'
             /\ tail' \in Int /\ tail <= tail'
             /\ pc[p] \notin ScanPcs /\ pc'[p] \notin ScanPcs
             /\ \A q \in Threads \ {p} : pc'[q] = pc[q]
<1>0. end \in Int /\ tail \in Int /\ Scanning /\ TypeOK
  OBVIOUS
<1>1. Outside => Scanning'
  <2> HIDE DEF SlotInv, TypeOK
  <2>1. QED
    BY <1>0, ScanningKept
<1>2. CASE ListStep(p)
  <2>1. /\ UNCHANGED <<tail, retired, rmap, pmap, pos, end, dying, isBusy>>
        /\ pc[p] \in ListPcs /\ pc'[p] \in ListPcs
        /\ \A q \in Threads : q # p => pc'[q] = pc[q]
    BY <1>2, ListEffect
  <2> HIDE DEF SlotInv, TypeOK
  <2>2. QED
    BY <1>0, <1>1, <2>1 DEF ListPcs, ScanPcs
<1>3. CASE PopTake(p) \/ PopProtect(p) \/ PopRetire(p)
  BY <1>1, <1>3 DEF PopTake, StartFind, PopProtect, Protect, PopRetire, Retire, ScanPcs
<1>4. CASE Top(p)
  BY <1>1, <1>4 DEF Top, TopLoad, StartFind, TopProtect, Protect, TopValidate, TopRead,
                    TopLeave, Release, ScanPcs
<1>5. CASE FindNext(p) \/ Claim(p)
  <2>1. pc[p] \in {"find", "claim"} /\ pc'[p] \in {"find", "claim", "wipe"}
    BY <1>5, FindNextEffect, ClaimEffect
  <2>2. \A q \in Threads \ {p} : pc'[q] = pc[q]
    BY <1>5, FindNextEffect, ClaimEffect
  <2>3. UNCHANGED <<tail, retired, rmap, pmap, pos, end, dying, isBusy>>
    BY <1>5, FindNextEffect, ClaimEffect
  <2>4. QED
    BY <1>1, <2>1, <2>2, <2>3 DEF ScanPcs
<1>6. CASE FindFault(p) \/ Wipe(p) \/ Extend(p) \/ Link(p)
  BY <1>1, <1>6 DEF FindFault, Wipe, Extend, Link, ScanPcs
<1>7. CASE Enlist(p) \/ CheckLimit(p)
  BY <1>1, <1>7 DEF Enlist, CheckLimit, ScanPcs
<1> USE DEF Scanning, OneScanner, ScanPcs
<1>8. CASE Seize(p)
  BY <1>8 DEF Seize, NotBusy
<1>9. CASE Drain(p)
  <2>1. /\ pc[p] = "drain" /\ pc'[p] \in {"abort", "drain"}
        /\ \A q \in Threads : q # p => pc'[q] = pc[q]
        /\ UNCHANGED <<tail, retired, pmap, pos, end, dying, isBusy>>
    BY <1>9, DrainEffect
  <2>2. QED
    BY <2>1
<1>10. CASE Drained(p)
  BY <1>10 DEF Drained, Apart
<1>11. CASE Walk(p)
  <2>1. CASE pos \in linked
    <3>1. pos + 1 <= end /\ pos' = pos + 1
      BY <1>11, <2>1 DEF Walk
    <3>2. QED
      BY <1>11, <2>1, <3>1 DEF Walk
  <2>2. CASE pos \notin linked
    BY <1>11, <2>2 DEF Walk
  <2>3. QED
    BY <2>1, <2>2
<1>12. CASE Walked(p)
  BY <1>12 DEF Walked
<1>13. CASE Delete(p)
  <2>1. /\ pc[p] = "free" /\ pc'[p] = "mark"
        /\ \A q \in Threads : q # p => pc'[q] = pc[q]
        /\ UNCHANGED <<tail, retired, pmap, pos, end, isBusy>>
    BY <1>13, DeleteEffect
  <2>2. PICK s \in rmap : rmap' = rmap \ {s} /\ dying' = s
    BY <1>13, DeleteEffect
  <2>3. s # NoSlot /\ s \in retired
    BY <2>2 DEF NoSlot, Contents
  <2>4. QED
    BY <2>1, <2>2, <2>3
<1>14. CASE Mark(p)
  <2>1. /\ pc[p] = "mark" /\ pc'[p] = "free"
        /\ \A q \in Threads : q # p => pc'[q] = pc[q]
        /\ dying' = NoSlot
        /\ UNCHANGED <<tail, rmap, pmap, pos, end, isBusy>>
    BY <1>14, MarkEffect
  <2>2. QED
    BY <2>1
<1>15. CASE Keep(p)
  BY <1>15 DEF Keep
<1>16. CASE EndScan(p)
  BY <1>16 DEF EndScan
<1>17. QED
  BY <1>2, <1>3, <1>4, <1>5, <1>6, <1>7, <1>8, <1>9, <1>10, <1>11, <1>12, <1>13, <1>14,
     <1>15, <1>16, StepIs DEF SlotStep, Domain, MakeHazard, Scan

\* A step of no thread.
LEMMA SlotStutter ==
  ASSUME SlotInv, UNCHANGED vars
  PROVE  SlotInv'
<1> USE DEF vars, hazVars, slotVars, scanVars, walkVars, lfVars
<1>1. TypeOK'
  BY DEF SlotInv, TypeOK
<1>2. Control' /\ Chain' /\ Apart' /\ Held'
  BY DEF SlotInv, Control, Carries, Owns, Chain, Apart, Enlisting, Held, Holds
<1>3. Contents' /\ Scanning'
  BY DEF SlotInv, Contents, Scanning, OneScanner
<1>4. QED
  BY <1>1, <1>2, <1>3 DEF SlotInv

LEMMA SlotInductive ==
  ASSUME SlotInv, [Next]_vars
  PROVE  SlotInv'
<1>1. CASE Next
  BY <1>1, StepType, StepControl, StepChain, StepApart, StepHeld, StepContents,
     StepScanning DEF SlotInv, Next
<1>2. CASE UNCHANGED vars
  BY <1>2, SlotStutter
<1>3. QED
  BY <1>1, <1>2

\* The slots, for any number of threads that push, pop and read: however their
\* steps interleave, SlotInv holds in every state.
THEOREM SlotInvariance == Spec => []SlotInv
BY InitSlotInv, SlotInductive, PTL DEF Spec

\* A slot has one hazard_pointer at a time, and while it has one it is neither
\* free nor retired: make_hazard, ~hazard_pointer, reclaim and scan().
THEOREM SlotsExclusive == Spec => []SlotExclusive
<1>1. SlotInv => SlotExclusive
  <2>1. SUFFICES ASSUME SlotInv, NEW p \in Threads, Owns(p)
                 PROVE  /\ mine[p] \notin inactive
                        /\ mine[p] \notin rlist \cup rmap \cup {dying}
                        /\ pc[p] # "enlist" => mine[p] \notin retired
                        /\ \A q \in Threads : mine[q] = mine[p] => q = p
    BY DEF SlotExclusive
  <2>2. mine[p] \in Slots /\ Holds(p, mine[p])
    BY <2>1 DEF SlotInv, TypeOK, Owns, Holds
  <2>3. \A q \in Threads : mine[q] = mine[p] => Holds(q, mine[p])
    BY DEF Holds
  <2>4. QED
    BY <2>1, <2>2, <2>3, NotRetired DEF SlotInv, Held
<1>2. QED
  BY SlotInvariance, <1>1, PTL

\* What get_hazard asserts: the slot it hands out is empty.
THEOREM HazardsFresh == Spec => []FreshHazard
<1>1. SlotInv => FreshHazard
  BY DEF SlotInv, Contents, FreshHazard
<1>2. QED
  BY SlotInvariance, <1>1, PTL

\* find_free_node follows a null pointer only where make_hazard has moved tail_ and
\* not linked the slot yet.
THEOREM FaultsOnlyInGap == Spec => []FaultOnlyInGap
<1>1. SlotInv => FaultOnlyInGap
  <2>1. SUFFICES ASSUME SlotInv, NEW p \in Threads, pc[p] = "fault"
                 PROVE  \E q \in Threads : pc[q] = "link" /\ mine[q] = h[p]
    BY DEF FaultOnlyInGap
  <2>2. h[p] \in 0 .. tail - 1 /\ h[p] \notin linked
    BY <2>1 DEF SlotInv, TypeOK, Control, FindPcs, Slots
  <2>3. QED
    BY <2>1, <2>2 DEF SlotInv, Chain
<1>2. QED
  BY SlotInvariance, <1>1, PTL

\* isBusy lets one thread at a time into scan().
THEOREM ScansAlone == Spec => []OneScanner
<1>1. SlotInv => OneScanner
  BY DEF SlotInv, Scanning
<1>2. QED
  BY SlotInvariance, <1>1, PTL

(***************************************************************************)
(* Memory, while one thread pops.                                          *)
(***************************************************************************)
\* The initial state: the pool is full and the stack empty.
LEMMA InitMemInv == Init => MemInv
<1> SUFFICES ASSUME Init PROVE MemInv
  OBVIOUS
<1> USE StackAssumption DEF Init, HazInit
<1>1. Linked
  BY DEF Linked, At, Cells
<1>2. PopLocals /\ Shielded
  BY DEF PopLocals, Shielded
<1>3. Memory
  BY DEF Memory, RetiredOnce, ToFree, Carries
<1>4. QED
  BY <1>1, <1>2, <1>3 DEF MemInv

\* The stack after a pop and after a push, and what is on it.
LEMMA Popped ==
  ASSUME stack \in Seq(Objects), stack # <<>>, stack' = Tail(stack)
  PROVE  /\ Len(stack) \in Nat \ {0} /\ Len(stack') = Len(stack) - 1
         /\ Head(stack) = stack[1] /\ stack[1] \in Objects
         /\ \A i \in 1 .. Len(stack') : i + 1 \in 1 .. Len(stack) /\ stack'[i] = stack[i + 1]
<1>1. Len(stack) \in Nat \ {0} /\ Head(stack) = stack[1] /\ stack[1] \in Objects
  OBVIOUS
<1>2. /\ Len(stack') = Len(stack) - 1
      /\ \A i \in 1 .. Len(stack') : stack'[i] = stack[i + 1]
  BY HeadTailProperties
<1>3. QED
  BY <1>1, <1>2

LEMMA Pushed ==
  ASSUME stack \in Seq(Objects), NEW o \in Objects, stack' = <<o>> \o stack
  PROVE  /\ Len(stack) \in Nat /\ Len(stack') = Len(stack) + 1 /\ stack'[1] = o
         /\ \A i \in 1 .. Len(stack) : i + 1 \in 1 .. Len(stack') /\ stack'[i + 1] = stack[i]
         /\ \A i \in 1 .. Len(stack') :
              i = 1 \/ (i - 1 \in 1 .. Len(stack) /\ stack'[i] = stack[i - 1])
<1>1. <<o>> \in Seq(Objects) /\ Len(<<o>>) = 1 /\ <<o>>[1] = o /\ Len(stack) \in Nat
  OBVIOUS
<1>2. /\ Len(stack') = Len(stack) + 1 /\ stack'[1] = o
      /\ \A i \in 2 .. Len(stack') : stack'[i] = stack[i - 1]
  BY <1>1, ConcatProperties
<1>3. \A i \in 1 .. Len(stack) :
        i + 1 \in 2 .. Len(stack') /\ i + 1 \in 1 .. Len(stack') /\ (i + 1) - 1 = i
  BY <1>1, <1>2
<1>4. \A i \in 1 .. Len(stack') : i = 1 \/ (i \in 2 .. Len(stack') /\ i - 1 \in 1 .. Len(stack))
  BY <1>1, <1>2
<1>5. QED
  BY <1>1, <1>2, <1>3, <1>4

LEMMA PushedOn ==
  ASSUME stack \in Seq(Objects), NEW o \in Objects, stack' = <<o>> \o stack
  PROVE  \A x : x \in Stacked' <=> x = o \/ x \in Stacked
<1>1. ASSUME NEW x, x \in Stacked' PROVE x = o \/ x \in Stacked
  BY <1>1, Pushed DEF Stacked
<1>2. o \in Stacked'
  BY Pushed DEF Stacked
<1>3. ASSUME NEW x, x \in Stacked PROVE x \in Stacked'
  <2>1. PICK i \in 1 .. Len(stack) : stack[i] = x
    BY <1>3 DEF Stacked
  <2>2. i + 1 \in 1 .. Len(stack') /\ stack'[i + 1] = x
    BY <2>1, Pushed
  <2>3. QED
    BY <2>2 DEF Stacked
<1>4. QED
  BY <1>1, <1>2, <1>3

LEMMA PoppedOn ==
  ASSUME stack \in Seq(Objects), stack # <<>>, stack' = Tail(stack),
         \A i, j \in 1 .. Len(stack) : stack[i] = stack[j] => i = j
  PROVE  \A x : x \in Stacked' <=> x # Head(stack) /\ x \in Stacked
<1>1. /\ Len(stack) \in Nat \ {0} /\ Len(stack') = Len(stack) - 1 /\ Head(stack) = stack[1]
      /\ \A i \in 1 .. Len(stack') : i + 1 \in 1 .. Len(stack) /\ stack'[i] = stack[i + 1]
  BY Popped
<1>2. ASSUME NEW x, x \in Stacked' PROVE x # Head(stack) /\ x \in Stacked
  <2>1. PICK i \in 1 .. Len(stack') : stack'[i] = x
    BY <1>2 DEF Stacked
  <2>2. i + 1 \in 1 .. Len(stack) /\ stack[i + 1] = x /\ i + 1 # 1 /\ 1 \in 1 .. Len(stack)
    BY <1>1, <2>1
  <2>3. QED
    BY <1>1, <2>2 DEF Stacked
<1>3. ASSUME NEW x, x \in Stacked, x # Head(stack) PROVE x \in Stacked'
  <2>1. PICK i \in 1 .. Len(stack) : stack[i] = x
    BY <1>3 DEF Stacked
  <2>2. i - 1 \in 1 .. Len(stack') /\ (i - 1) + 1 = i
    BY <1>1, <1>3, <2>1
  <2>3. stack'[i - 1] = x
    BY <1>1, <2>1, <2>2
  <2>4. QED
    BY <2>2, <2>3 DEF Stacked
<1>4. QED
  BY <1>2, <1>3

\* What the steps of Hazardous do to memory.
LEMMA DomainEffect ==
  ASSUME SlotInv, NEW p \in Threads, Domain(p)
  PROVE  /\ UNCHANGED lfVars
         /\ \A q \in Threads : q # p => pc'[q] = pc[q]
         /\ pc[p] \notin {"popNext", "popCas"} /\ pc'[p] \notin {"popNext", "popCas", "read"}
         /\ \A s \in retired : data'[s] = data[s]
         /\ Delete(p) \/ (mem' = mem /\ ToFree' = ToFree)
<1> USE DEF Goto, slotVars, scanVars, walkVars
<1>0. UNCHANGED lfVars /\ TypeOK
  BY DEF Domain, SlotInv
<1> USE DEF TypeOK
<1>1. CASE FindNext(p) \/ Claim(p)
  BY <1>0, <1>1, FindNextEffect, ClaimEffect DEF ToFree
<1>2. CASE FindFault(p) \/ Extend(p) \/ Link(p)
  BY <1>0, <1>2 DEF FindFault, Extend, Link, ToFree
<1>3. CASE Wipe(p)
  <2>1. h[p] \in Slots /\ h[p] \notin retired
    BY <1>0, <1>3, NotRetired DEF Wipe, Holds
  <2>2. QED
    BY <1>0, <1>3, <2>1 DEF Wipe, Cleared, ToFree
<1>4. CASE Enlist(p) \/ CheckLimit(p) \/ Seize(p)
  BY <1>0, <1>4 DEF Enlist, CheckLimit, Seize, ToFree
<1>5. CASE Drain(p)
  BY <1>0, <1>5, DrainEffect DEF ToFree
<1>6. CASE Drained(p) \/ Walk(p) \/ Walked(p) \/ Keep(p) \/ EndScan(p)
  BY <1>0, <1>6 DEF Drained, Walk, Walked, Keep, EndScan, ToFree
<1>7. CASE Delete(p)
  BY <1>0, <1>7, DeleteEffect
<1>8. CASE Mark(p)
  <2>1. NoSlot \notin retired
    BY <1>0 DEF NoSlot, Slots
  <2>2. QED
    BY <1>0, <1>8, <2>1, MarkEffect DEF ToFree
<1>9. QED
  BY <1>1, <1>2, <1>3, <1>4, <1>5, <1>6, <1>7, <1>8 DEF Domain, MakeHazard, Scan

\* A step that leaves the list alone.
LEMMA LinkedKept ==
  ASSUME Linked, UNCHANGED <<head, next, stack>>,
         \A i \in 1 .. Len(stack) : mem'[stack[i]] = mem[stack[i]]
  PROVE  Linked'
BY DEF Linked, At

\* PopTake: the node the CAS takes is the first of the stack, and its next_ is what
\* pop has read.
LEMMA PopTakes ==
  ASSUME SlotInv, MemInv, NEW p \in Threads, PopTake(p)
  PROVE  /\ stack # <<>> /\ Head(stack) = ref[p] /\ stack' = Tail(stack)
         /\ temp[p] = next[ref[p]]
<1>0. TypeOK /\ Linked /\ PopLocals
  BY DEF SlotInv, MemInv
<1>1. /\ pc[p] = "popCas" /\ temp[p] # NULL /\ head = ref[p]
      /\ stack' = IF stack # <<>> /\ Head(stack) = ref[p] THEN Tail(stack) ELSE stack
  BY DEF PopTake, PopWins, StartFind, Goto
<1>2. temp[p] = next[ref[p]]
  BY <1>0, <1>1 DEF PopLocals
<1>3. ref[p] # Sentinel
  BY <1>0, <1>1, <1>2 DEF Linked
<1>4. Len(stack) \in Nat /\ (1 <= Len(stack) => stack # <<>> /\ Head(stack) = stack[1])
  BY <1>0 DEF TypeOK
<1>5. 1 <= Len(stack) /\ stack[1] = ref[p]
  BY <1>0, <1>1, <1>3 DEF Linked, At
<1>6. QED
  BY <1>1, <1>2, <1>4, <1>5

\* Linked: what is not on the stack may be written to, and pop takes the first.
LEMMA StepLinked ==
  ASSUME SlotInv, MemInv, NEW p \in Threads, Step(p)
  PROVE  Linked'
<1> USE DEF Goto, slotVars, scanVars, walkVars, lfVars
<1>0. TypeOK /\ Linked /\ PopLocals /\ Memory /\ Control
  BY DEF SlotInv, MemInv
<1>1. \A i \in 1 .. Len(stack) : stack[i] \in Objects /\ stack[i] \in Stacked
  BY <1>0 DEF TypeOK, Stacked
<1>2. CASE CreateNode(p)
  <2>1. PICK o \in Objects : /\ mem[o] = "pool" /\ mem' = [mem EXCEPT ![o] = "use"]
                             /\ next' = [next EXCEPT ![o] = NULL]
    BY <1>2 DEF CreateNode
  <2>2. \A i \in 1 .. Len(stack) : stack[i] # o
    BY <1>0, <2>1 DEF Linked
  <2>3. UNCHANGED <<head, stack>>
    BY <1>2 DEF CreateNode
  <2>4. \A i \in 1 .. Len(stack) : next'[stack[i]] = next[stack[i]] /\ mem'[stack[i]] = mem[stack[i]]
    BY <1>0, <1>1, <2>1, <2>2 DEF TypeOK, Cells
  <2>5. next'[Sentinel] = next[Sentinel]
    BY <1>0, <2>1, StackAssumption DEF TypeOK, Cells
  <2>6. QED
    BY <1>0, <2>3, <2>4, <2>5 DEF Linked, At
<1>3. CASE PushLoad(p)
  <2>1. /\ next' = [next EXCEPT ![ref[p]] = head] /\ pc[p] = "pushLoad"
        /\ UNCHANGED <<head, stack, mem>>
    BY <1>3 DEF PushLoad
  <2>2. ref[p] \in Objects /\ ref[p] \notin Stacked
    BY <1>0, <2>1 DEF Control, Carries, Memory
  <2>3. /\ \A i \in 1 .. Len(stack) : next'[stack[i]] = next[stack[i]]
        /\ next'[Sentinel] = next[Sentinel]
    BY <1>0, <1>1, <2>1, <2>2, StackAssumption DEF TypeOK, Cells
  <2>4. QED
    BY <1>0, <2>1, <2>3 DEF Linked, At
<1>4. CASE PushTake(p)
  <2> DEFINE o == ref[p]
  <2>1. /\ head' = o /\ head = next[o] /\ stack' = <<o>> \o stack /\ pc[p] = "pushCas"
        /\ UNCHANGED <<mem, next>>
    BY <1>4 DEF PushTake
  <2>2. o \in Objects /\ o \notin Stacked /\ mem[o] = "use"
    BY <1>0, <2>1 DEF Control, Carries, Memory
  <2>3. /\ Len(stack) \in Nat /\ Len(stack') = Len(stack) + 1 /\ stack'[1] = o
        /\ \A i \in 1 .. Len(stack) : i + 1 \in 1 .. Len(stack') /\ stack'[i + 1] = stack[i]
        /\ \A i \in 1 .. Len(stack') :
             i = 1 \/ (i - 1 \in 1 .. Len(stack) /\ stack'[i] = stack[i - 1])
    BY <1>0, <2>1, <2>2, Pushed DEF TypeOK
  <2> HIDE DEF o
  <2>4. At(1)' = o /\ \A i \in 1 .. Len(stack') : At(i + 1)' = At(i)
    BY <2>3 DEF At
  <2>5. \A i \in 1 .. Len(stack') : next[stack'[i]] = At(i)
    <3>1. next[stack'[1]] = At(1)
      BY <1>0, <2>1, <2>3 DEF Linked, o
    <3>2. ASSUME NEW i \in 1 .. Len(stack'), i # 1 PROVE next[stack'[i]] = At(i)
      <4>1. i - 1 \in 1 .. Len(stack) /\ stack'[i] = stack[i - 1] /\ (i - 1) + 1 = i
        BY <2>3, <3>2
      <4>2. next[stack[i - 1]] = At((i - 1) + 1)
        BY <1>0, <4>1 DEF Linked
      <4>3. QED
        BY <4>1, <4>2
    <3>3. QED
      BY <3>1, <3>2
  <2>6. \A i \in 1 .. Len(stack') : mem[stack'[i]] = "use"
    <3>1. mem[stack'[1]] = "use"
      BY <2>2, <2>3 DEF o
    <3>2. ASSUME NEW i \in 1 .. Len(stack'), i # 1 PROVE mem[stack'[i]] = "use"
      <4>1. i - 1 \in 1 .. Len(stack) /\ stack'[i] = stack[i - 1]
        BY <2>3, <3>2
      <4>2. QED
        BY <1>0, <4>1 DEF Linked
    <3>3. QED
      BY <3>1, <3>2
  <2>7. \A i, j \in 1 .. Len(stack') : stack'[i] = stack'[j] => i = j
    <3>1. \A i \in 1 .. Len(stack) : stack[i] # o
      BY <2>2 DEF Stacked, o
    <3>2. \A i \in 1 .. Len(stack') : i # 1 =>
            i - 1 \in 1 .. Len(stack) /\ stack'[i] = stack[i - 1] /\ stack'[i] # o
      BY <2>3, <3>1
    <3>3. ASSUME NEW i \in 1 .. Len(stack'), NEW j \in 1 .. Len(stack'),
                 stack'[i] = stack'[j], i # 1, j # 1
          PROVE  i = j
      <4>1. i - 1 = j - 1
        BY <1>0, <3>2, <3>3 DEF Linked
      <4>2. QED
        BY <2>3, <4>1
    <3>4. QED
      BY <2>3, <3>2, <3>3
  <2>8. QED
    BY <1>0, <2>1, <2>4, <2>5, <2>6, <2>7 DEF Linked, o
<1>5. CASE PopTake(p)
  <2>1. /\ pc[p] = "popCas" /\ temp[p] # NULL /\ head = ref[p] /\ head' = temp[p]
        /\ stack' = IF stack # <<>> /\ Head(stack) = ref[p] THEN Tail(stack) ELSE stack
        /\ UNCHANGED <<mem, next>>
    BY <1>5 DEF PopTake, PopWins, StartFind
  <2>2. temp[p] = next[ref[p]]
    BY <1>5, PopTakes
  <2>3. stack # <<>> /\ Head(stack) = ref[p] /\ stack' = Tail(stack)
    BY <1>5, PopTakes
  <2>4. /\ Len(stack) \in Nat \ {0} /\ Len(stack') = Len(stack) - 1 /\ ref[p] = stack[1]
        /\ \A i \in 1 .. Len(stack') : i + 1 \in 1 .. Len(stack) /\ stack'[i] = stack[i + 1]
    BY <1>0, <2>3, Popped DEF TypeOK
  <2>5. At(1)' = At(2) /\ \A i \in 1 .. Len(stack') : At(i + 1)' = At((i + 1) + 1)
    BY <2>4 DEF At
  <2>6. head' = At(2)
    BY <1>0, <2>1, <2>2, <2>4 DEF Linked
  <2>7. ASSUME NEW i \in 1 .. Len(stack')
        PROVE  next[stack'[i]] = At((i + 1) + 1) /\ mem[stack'[i]] = "use"
    <3>1. i + 1 \in 1 .. Len(stack) /\ stack'[i] = stack[i + 1]
      BY <2>4
    <3>2. next[stack[i + 1]] = At((i + 1) + 1) /\ mem[stack[i + 1]] = "use"
      BY <1>0, <3>1 DEF Linked
    <3>3. QED
      BY <3>1, <3>2
  <2>8. ASSUME NEW i \in 1 .. Len(stack'), NEW j \in 1 .. Len(stack'),
               stack'[i] = stack'[j]
        PROVE  i = j
    <3>1. /\ i + 1 \in 1 .. Len(stack) /\ stack'[i] = stack[i + 1]
          /\ j + 1 \in 1 .. Len(stack) /\ stack'[j] = stack[j + 1]
      BY <2>4
    <3>2. i + 1 = j + 1
      BY <1>0, <2>8, <3>1 DEF Linked
    <3>3. QED
      BY <3>2
  <2>9. QED
    BY <1>0, <2>1, <2>5, <2>6, <2>7, <2>8 DEF Linked
<1>6. CASE PushRetry(p) \/ PopLoad(p) \/ PopNext(p) \/ PopEmpty(p) \/ PopRetry(p)
  BY <1>0, <1>6, LinkedKept DEF PushRetry, PopLoad, PopNext, PopEmpty, PopRetry
<1>7. CASE PopProtect(p) \/ PopRetire(p)
  BY <1>0, <1>7, LinkedKept DEF PopProtect, Protect, PopRetire, Retire
<1>8. CASE Top(p)
  BY <1>0, <1>8, LinkedKept DEF Top, TopLoad, StartFind, TopProtect, Protect, TopValidate,
                                TopRead, TopLeave, Release
<1>9. CASE Domain(p)
  <2>1. CASE Delete(p)
    <3>1. PICK s \in rmap : mem' = [mem EXCEPT ![data[s]] = "pool"]
      BY <2>1, DeleteEffect
    <3>2. s \in ToFree
      BY <2>1, DeleteEffect DEF SlotInv, Contents, Apart, ToFree
    <3>3. data[s] \notin Stacked
      BY <1>0, <3>2 DEF Memory
    <3>4. \A i \in 1 .. Len(stack) : mem'[stack[i]] = mem[stack[i]]
      BY <1>0, <1>1, <3>1, <3>3 DEF TypeOK
    <3>5. QED
      BY <1>0, <1>9, <3>4, LinkedKept, DomainEffect
  <2>2. CASE mem' = mem
    BY <1>0, <1>9, <2>2, LinkedKept, DomainEffect
  <2>3. QED
    BY <1>9, <2>1, <2>2, DomainEffect
<1>10. QED
  BY <1>2, <1>3, <1>4, <1>5, <1>6, <1>7, <1>8, <1>9 DEF Step, Push, Pop

\* PopLocals: only the one popper takes nodes off the stack, and what is on it is
\* not written to.
LEMMA StepPopLocals ==
  ASSUME OnePopper, SlotInv, MemInv, NEW p \in Threads, Step(p)
  PROVE  PopLocals'
<1> USE DEF Goto, Return, slotVars, scanVars, walkVars, lfVars
<1>0. TypeOK /\ Linked /\ PopLocals /\ Memory /\ Control
  BY DEF SlotInv, MemInv
<1>1. \A q \in Threads : pc[q] \in {"popNext", "popCas"} => ref[q] \in Cells
  BY <1>0 DEF Control
<1> DEFINE Same(q) == pc'[q] = pc[q] /\ ref'[q] = ref[q] /\ temp'[q] = temp[q]
<1> DEFINE Keeps ==
             /\ UNCHANGED <<stack, next>>
             /\ \A q \in Threads : q # p => Same(q)
             /\ pc'[p] \notin {"popNext", "popCas"}
<1>2. Keeps => PopLocals'
  BY <1>0 DEF PopLocals, Stacked
<1>3. CASE CreateNode(p)
  <2>1. PICK o \in Objects : mem[o] = "pool" /\ next' = [next EXCEPT ![o] = NULL]
    BY <1>3 DEF CreateNode
  <2>2. /\ \A q \in Threads : q # p => Same(q)
        /\ pc'[p] = "pushLoad" /\ stack' = stack
    BY <1>0, <1>3 DEF CreateNode, TypeOK
  <2>3. o \notin Stacked /\ o # Sentinel
    BY <1>0, <2>1, StackAssumption DEF Linked, Stacked
  <2>4. \A n \in Cells : n # o => next'[n] = next[n]
    BY <1>0, <2>1 DEF TypeOK
  <2>5. QED
    BY <1>0, <1>1, <2>2, <2>3, <2>4 DEF PopLocals, Stacked
<1>4. CASE PushLoad(p)
  <2>1. /\ next' = [next EXCEPT ![ref[p]] = head] /\ pc[p] = "pushLoad"
        /\ pc'[p] = "pushCas" /\ stack' = stack
        /\ \A q \in Threads : q # p => Same(q)
    BY <1>0, <1>4 DEF PushLoad, TypeOK
  <2>2. ref[p] \notin Stacked /\ ref[p] # Sentinel
    BY <1>0, <2>1, StackAssumption DEF Control, Carries, Memory
  <2>3. \A n \in Cells : n # ref[p] => next'[n] = next[n]
    BY <1>0, <2>1 DEF TypeOK
  <2>4. QED
    BY <1>0, <1>1, <2>1, <2>2, <2>3 DEF PopLocals, Stacked
<1>5. CASE PushTake(p)
  <2>1. /\ stack' = <<ref[p]>> \o stack /\ pc[p] = "pushCas" /\ pc'[p] = "idle"
        /\ next' = next /\ \A q \in Threads : q # p => Same(q)
    BY <1>0, <1>5 DEF PushTake, TypeOK
  <2>2. ref[p] \in Objects
    BY <1>0, <2>1 DEF Control, Carries
  <2>3. \A x : x \in Stacked => x \in Stacked'
    BY <1>0, <2>1, <2>2, PushedOn DEF TypeOK
  <2>4. QED
    BY <1>0, <2>1, <2>3 DEF PopLocals
<1>6. CASE PushRetry(p)
  BY <1>0, <1>2, <1>6 DEF PushRetry, TypeOK
<1>7. CASE PopLoad(p) \/ PopRetry(p)
  <2>1. /\ pc'[p] = "popNext" /\ ref'[p] = head /\ UNCHANGED <<stack, next>>
        /\ \A q \in Threads : q # p => Same(q)
    BY <1>0, <1>7 DEF PopLoad, PopRetry, TypeOK
  <2>2. p \in Poppers
    BY <1>0, <1>7 DEF PopLoad, PopRetry, PopLocals
  <2>3. head = Sentinel \/ head \in Stacked
    <3>1. Len(stack) \in Nat
      BY <1>0 DEF TypeOK
    <3>2. QED
      BY <1>0, <3>1 DEF Linked, At, Stacked
  <2>4. QED
    BY <1>0, <2>1, <2>2, <2>3 DEF PopLocals, Stacked
<1>8. CASE PopNext(p)
  <2>1. /\ pc[p] = "popNext" /\ pc'[p] = "popCas" /\ UNCHANGED <<stack, next, ref>>
        /\ temp'[p] = next[ref[p]]
        /\ \A q \in Threads : q # p => Same(q)
    BY <1>0, <1>8 DEF PopNext, TypeOK
  <2>2. QED
    BY <1>0, <2>1 DEF PopLocals, Stacked
<1>9. CASE PopEmpty(p)
  BY <1>0, <1>2, <1>9 DEF PopEmpty, TypeOK
<1>10. CASE PopTake(p)
  <2>1. /\ pc[p] = "popCas" /\ pc'[p] = "find"
        /\ \A q \in Threads : q # p => Same(q)
    BY <1>0, <1>10 DEF PopTake, StartFind, TypeOK
  <2>2. \A q \in Threads : pc[q] \in {"popNext", "popCas"} => q = p
    BY <1>0, <2>1 DEF PopLocals, OnePopper
  <2>3. QED
    BY <2>1, <2>2 DEF PopLocals
<1>11. CASE PopProtect(p) \/ PopRetire(p)
  BY <1>0, <1>2, <1>11 DEF PopProtect, Protect, PopRetire, Retire, TypeOK
<1>12. CASE Top(p)
  BY <1>0, <1>2, <1>12 DEF Top, TopLoad, StartFind, TopProtect, Protect, TopValidate,
                           TopRead, TopLeave, Release, TypeOK
<1>13. CASE Domain(p)
  BY <1>2, <1>13, DomainEffect
<1>14. QED
  BY <1>3, <1>4, <1>5, <1>6, <1>7, <1>8, <1>9, <1>10, <1>11, <1>12, <1>13
     DEF Step, Push, Pop

\* A step that pops nothing, pushes nothing, retires nothing and frees nothing.
LEMMA MemoryKept ==
  ASSUME Memory, UNCHANGED <<mem, stack, ToFree>>,
         \A s \in ToFree : data'[s] = data[s],
         \A q \in Threads : /\ Carries(q)' <=> Carries(q)
                            /\ Carries(q) => ref'[q] = ref[q]
  PROVE  Memory'
BY DEF Memory, RetiredOnce, Stacked

\* CreateNode: an object of the pool is with nobody else.
LEMMA CreateMemory ==
  ASSUME SlotInv, MemInv, NEW p \in Threads, CreateNode(p)
  PROVE  Memory'
<1>0. TypeOK /\ Linked /\ Memory /\ Control
  BY DEF SlotInv, MemInv
<1>1. PICK o \in Objects : /\ mem[o] = "pool" /\ mem' = [mem EXCEPT ![o] = "use"]
                           /\ ref' = [ref EXCEPT ![p] = o]
      /\ pc[p] = "idle" /\ op' = [op EXCEPT ![p] = "push"]
      /\ pc' = [pc EXCEPT ![p] = "pushLoad"]
      /\ UNCHANGED <<stack, retired, dying, data>>
  BY DEF CreateNode, Goto, slotVars, scanVars
<1>2. /\ Carries(p)' /\ ref'[p] = o /\ ~ Carries(p)
      /\ \A q \in Threads : q # p => (Carries(q)' <=> Carries(q)) /\ ref'[q] = ref[q]
  BY <1>0, <1>1 DEF TypeOK, Carries, Control
<1>3. /\ mem'[o] = "use" /\ \A x \in Objects : x # o => mem'[x] = mem[x]
      /\ ToFree' = ToFree /\ \A x : x \in Stacked' <=> x \in Stacked
  BY <1>0, <1>1 DEF TypeOK, ToFree, Stacked
<1>4. /\ o \notin Stacked
      /\ \A q \in Threads : Carries(q) => ref[q] # o /\ ref[q] \in Objects
      /\ \A s \in ToFree : data[s] # o /\ data[s] \in Objects
  BY <1>0, <1>1 DEF Linked, Stacked, Memory, Control, SlotInv, Contents, ToFree
<1>5. \A q \in Threads : Carries(q)' =>
        /\ mem'[ref'[q]] = "use" /\ ref'[q] \notin Stacked'
        /\ \A r \in Threads : Carries(r)' /\ ref'[r] = ref'[q] => r = q
        /\ \A s \in ToFree' : data'[s] # ref'[q]
  BY <1>0, <1>1, <1>2, <1>3, <1>4 DEF Memory
<1>6. \A s \in ToFree' : mem'[data'[s]] = "use" /\ data'[s] \notin Stacked'
  BY <1>0, <1>1, <1>3, <1>4 DEF Memory
<1>7. \A x \in Objects : mem'[x] = "use" =>
        \/ x \in Stacked'
        \/ \E q \in Threads : Carries(q)' /\ ref'[q] = x
        \/ \E s \in ToFree' : data'[s] = x
  BY <1>0, <1>1, <1>2, <1>3 DEF Memory
<1>8. RetiredOnce'
  BY <1>0, <1>1, <1>3 DEF Memory, RetiredOnce
<1>9. QED
  BY <1>5, <1>6, <1>7, <1>8 DEF Memory

\* PushTake: the object goes from its pusher to the stack.
LEMMA PushMemory ==
  ASSUME SlotInv, MemInv, NEW p \in Threads, PushTake(p)
  PROVE  Memory'
<1>0. TypeOK /\ Memory /\ Control
  BY DEF SlotInv, MemInv
<1>1. /\ pc[p] = "pushCas" /\ stack' = <<ref[p]>> \o stack
      /\ pc' = [pc EXCEPT ![p] = "idle"] /\ op' = [op EXCEPT ![p] = "none"]
      /\ ref' = [ref EXCEPT ![p] = NULL]
      /\ UNCHANGED <<mem, retired, dying, data>>
  BY DEF PushTake, Goto, Return, slotVars, scanVars
<1>2. /\ Carries(p) /\ ~ Carries(p)' /\ ref[p] \in Objects
      /\ \A q \in Threads : q # p => (Carries(q)' <=> Carries(q)) /\ ref'[q] = ref[q]
  BY <1>0, <1>1 DEF TypeOK, Carries, Control
<1>3. ToFree' = ToFree /\ \A x : x \in Stacked' <=> x = ref[p] \/ x \in Stacked
  BY <1>0, <1>1, <1>2, PushedOn DEF TypeOK, ToFree
<1>4. \A q \in Threads : Carries(q)' =>
        /\ mem'[ref'[q]] = "use" /\ ref'[q] \notin Stacked'
        /\ \A r \in Threads : Carries(r)' /\ ref'[r] = ref'[q] => r = q
        /\ \A s \in ToFree' : data'[s] # ref'[q]
  BY <1>0, <1>1, <1>2, <1>3 DEF Memory
<1>5. \A s \in ToFree' : mem'[data'[s]] = "use" /\ data'[s] \notin Stacked'
  BY <1>0, <1>1, <1>2, <1>3 DEF Memory
<1>6. \A x \in Objects : mem'[x] = "use" =>
        \/ x \in Stacked'
        \/ \E q \in Threads : Carries(q)' /\ ref'[q] = x
        \/ \E s \in ToFree' : data'[s] = x
  BY <1>0, <1>1, <1>2, <1>3 DEF Memory
<1>7. RetiredOnce'
  BY <1>0, <1>1, <1>3 DEF Memory, RetiredOnce
<1>8. QED
  BY <1>4, <1>5, <1>6, <1>7 DEF Memory

\* PopTake: the first object of the stack goes to its popper.
LEMMA PopMemory ==
  ASSUME SlotInv, MemInv, NEW p \in Threads, PopTake(p)
  PROVE  Memory'
<1>0. TypeOK /\ Memory /\ Linked /\ Control
  BY DEF SlotInv, MemInv
<1>1. /\ stack # <<>> /\ Head(stack) = ref[p] /\ stack' = Tail(stack)
      /\ temp[p] = next[ref[p]]
  BY PopTakes
<1>2. /\ pc[p] = "popCas" /\ pc' = [pc EXCEPT ![p] = "find"]
      /\ UNCHANGED <<mem, retired, dying, data, op, ref>>
  BY DEF PopTake, StartFind, Goto, slotVars, scanVars
<1>3. /\ Carries(p)' /\ ~ Carries(p)
      /\ \A q \in Threads : q # p => (Carries(q)' <=> Carries(q))
  BY <1>0, <1>2 DEF TypeOK, Carries, Control
<1>4. /\ ToFree' = ToFree /\ \A x : x \in Stacked' <=> x # ref[p] /\ x \in Stacked
      /\ ref[p] \in Stacked /\ mem[ref[p]] = "use"
  <2>1. ToFree' = ToFree
    BY <1>2 DEF ToFree
  <2>2. \A x : x \in Stacked' <=> x # ref[p] /\ x \in Stacked
    BY <1>0, <1>1, PoppedOn DEF TypeOK, Linked
  <2>3. 1 \in 1 .. Len(stack) /\ stack[1] = ref[p]
    BY <1>0, <1>1, Popped DEF TypeOK
  <2>4. QED
    BY <1>0, <2>1, <2>2, <2>3 DEF Stacked, Linked
<1>5. \A q \in Threads : Carries(q)' =>
        /\ mem'[ref'[q]] = "use" /\ ref'[q] \notin Stacked'
        /\ \A r \in Threads : Carries(r)' /\ ref'[r] = ref'[q] => r = q
        /\ \A s \in ToFree' : data'[s] # ref'[q]
  BY <1>0, <1>2, <1>3, <1>4 DEF Memory
<1>6. \A s \in ToFree' : mem'[data'[s]] = "use" /\ data'[s] \notin Stacked'
  BY <1>0, <1>2, <1>4 DEF Memory
<1>7. \A x \in Objects : mem'[x] = "use" =>
        \/ x \in Stacked'
        \/ \E q \in Threads : Carries(q)' /\ ref'[q] = x
        \/ \E s \in ToFree' : data'[s] = x
  BY <1>0, <1>2, <1>3, <1>4 DEF Memory
<1>8. RetiredOnce'
  BY <1>0, <1>2, <1>4 DEF Memory, RetiredOnce
<1>9. QED
  BY <1>5, <1>6, <1>7, <1>8 DEF Memory

\* PopRetire: the object goes from its popper to a retired slot.
LEMMA RetireMemory ==
  ASSUME SlotInv, MemInv, NEW p \in Threads, PopRetire(p)
  PROVE  Memory'
<1>0. TypeOK /\ Memory /\ Control
  BY DEF SlotInv, MemInv
<1>1. /\ pc[p] = "retire" /\ retired' = retired \cup {mine[p]}
      /\ pc' = [pc EXCEPT ![p] = "enlist"] /\ op' = [op EXCEPT ![p] = "none"]
      /\ ref' = [ref EXCEPT ![p] = NULL]
      /\ UNCHANGED <<mem, stack, dying, data>>
  BY DEF PopRetire, Retire, Goto, Return, scanVars
<1>2. /\ Carries(p) /\ ~ Carries(p)' /\ ref[p] \in Objects
      /\ \A q \in Threads : q # p => (Carries(q)' <=> Carries(q)) /\ ref'[q] = ref[q]
  BY <1>0, <1>1 DEF TypeOK, Carries, Control
<1>3. data[mine[p]] = ref[p] /\ mine[p] \in Slots /\ Holds(p, mine[p])
  BY <1>0, <1>1 DEF SlotInv, Contents, TypeOK, Control, Owns, HoldPcs, Holds, NoSlot
<1>4. ToFree' = ToFree \cup {mine[p]} /\ \A x : x \in Stacked' <=> x \in Stacked
  BY <1>1, <1>3 DEF ToFree, SlotInv, Held, Stacked
<1>5. \A q \in Threads : Carries(q)' =>
        /\ mem'[ref'[q]] = "use" /\ ref'[q] \notin Stacked'
        /\ \A r \in Threads : Carries(r)' /\ ref'[r] = ref'[q] => r = q
        /\ \A s \in ToFree' : data'[s] # ref'[q]
  BY <1>0, <1>1, <1>2, <1>3, <1>4 DEF Memory
<1>6. \A s \in ToFree' : mem'[data'[s]] = "use" /\ data'[s] \notin Stacked'
  BY <1>0, <1>1, <1>2, <1>3, <1>4 DEF Memory
<1>7. ASSUME NEW x \in Objects, mem'[x] = "use"
      PROVE  \/ x \in Stacked'
             \/ \E q \in Threads : Carries(q)' /\ ref'[q] = x
             \/ \E s \in ToFree' : data'[s] = x
  <2>1. CASE x = ref[p]
    BY <1>1, <1>3, <1>4, <2>1
  <2>2. CASE x # ref[p]
    BY <1>0, <1>1, <1>2, <1>4, <1>7, <2>2 DEF Memory
  <2>3. QED
    BY <2>1, <2>2
<1>8. RetiredOnce'
  BY <1>0, <1>1, <1>2, <1>3, <1>4 DEF Memory, RetiredOnce
<1>9. QED
  BY <1>5, <1>6, <1>7, <1>8 DEF Memory

\* Delete: nobody else has the object that goes back to the pool.
LEMMA DeleteMemory ==
  ASSUME SlotInv, MemInv, NEW p \in Threads, Delete(p), UNCHANGED lfVars
  PROVE  Memory'
<1>0. TypeOK /\ Memory /\ Linked /\ Control
  BY DEF SlotInv, MemInv
<1>1. /\ pc[p] = "free" /\ pc'[p] = "mark" /\ dying = NoSlot
      /\ \A q \in Threads : q # p => pc'[q] = pc[q]
      /\ UNCHANGED <<retired, data, op, ref, stack>>
  BY DeleteEffect DEF lfVars
<1>2. PICK s \in rmap : mem' = [mem EXCEPT ![data[s]] = "pool"] /\ dying' = s
  BY DeleteEffect
<1>3. NoSlot \notin retired /\ s \in retired /\ data[s] \in Objects
  BY <1>0 DEF TypeOK, NoSlot, Slots, SlotInv, Contents
<1>4. ToFree = retired /\ ToFree' = retired \ {s} /\ s \in ToFree
  BY <1>1, <1>2, <1>3 DEF ToFree
<1>5. /\ \A q \in Threads : (Carries(q)' <=> Carries(q))
      /\ \A x : x \in Stacked' <=> x \in Stacked
  BY <1>1 DEF Carries, Stacked
<1>6. /\ \A r \in ToFree : r # s => data[r] # data[s] /\ data[r] \in Objects
      /\ \A q \in Threads : Carries(q) => ref[q] # data[s] /\ ref[q] \in Objects
      /\ data[s] \notin Stacked
  BY <1>0, <1>3, <1>4, HazardousAssumption
     DEF Memory, RetiredOnce, Control, SlotInv, Contents
<1>7. mem'[data[s]] = "pool" /\ \A x \in Objects : x # data[s] => mem'[x] = mem[x]
  BY <1>0, <1>2, <1>3 DEF TypeOK
<1>8. \A q \in Threads : Carries(q)' =>
        /\ mem'[ref'[q]] = "use" /\ ref'[q] \notin Stacked'
        /\ \A r \in Threads : Carries(r)' /\ ref'[r] = ref'[q] => r = q
        /\ \A r \in ToFree' : data'[r] # ref'[q]
  BY <1>0, <1>1, <1>4, <1>5, <1>6, <1>7 DEF Memory
<1>9. \A r \in ToFree' : mem'[data'[r]] = "use" /\ data'[r] \notin Stacked'
  BY <1>0, <1>1, <1>4, <1>5, <1>6, <1>7 DEF Memory
<1>10. \A x \in Objects : mem'[x] = "use" =>
        \/ x \in Stacked'
        \/ \E q \in Threads : Carries(q)' /\ ref'[q] = x
        \/ \E r \in ToFree' : data'[r] = x
  BY <1>0, <1>1, <1>4, <1>5, <1>7 DEF Memory
<1>11. RetiredOnce'
  BY <1>0, <1>1, <1>4 DEF Memory, RetiredOnce
<1>12. QED
  BY <1>8, <1>9, <1>10, <1>11 DEF Memory

\* Memory.
LEMMA StepMemory ==
  ASSUME SlotInv, MemInv, NEW p \in Threads, Step(p)
  PROVE  Memory'
<1> USE DEF Goto, Return, slotVars, scanVars, walkVars, lfVars
<1>0. TypeOK /\ Memory /\ Control
  BY DEF SlotInv, MemInv
<1> DEFINE Keeps ==
             /\ UNCHANGED <<mem, stack, ToFree>>
             /\ \A s \in ToFree : data'[s] = data[s]
             /\ \A q \in Threads : /\ Carries(q)' <=> Carries(q)
                                   /\ Carries(q) => ref'[q] = ref[q]
<1>1. Keeps => Memory'
  BY <1>0, MemoryKept
<1>2. CASE CreateNode(p)
  BY <1>2, CreateMemory
<1>3. CASE PushTake(p)
  BY <1>3, PushMemory
<1>4. CASE PopTake(p)
  BY <1>4, PopMemory
<1>5. CASE PopRetire(p)
  BY <1>5, RetireMemory
<1>6. CASE PushLoad(p) \/ PushRetry(p)
  BY <1>0, <1>1, <1>6 DEF PushLoad, PushRetry, TypeOK, Carries, ToFree
<1>7. CASE PopLoad(p) \/ PopNext(p) \/ PopEmpty(p) \/ PopRetry(p)
  BY <1>0, <1>1, <1>7
     DEF PopLoad, PopNext, PopEmpty, PopRetry, TypeOK, Carries, Control, ToFree
<1>8. CASE PopProtect(p) \/ TopProtect(p)
  <2>1. mine[p] \in Slots /\ mine[p] \notin retired
    BY <1>0, <1>8, NotRetired
       DEF PopProtect, TopProtect, Protect, TypeOK, Control, Owns, HoldPcs, Holds
  <2>2. QED
    BY <1>0, <1>1, <1>8, <2>1 DEF PopProtect, TopProtect, Protect, TypeOK, Carries, ToFree
<1>9. CASE TopLoad(p)
  BY <1>0, <1>1, <1>9 DEF TopLoad, StartFind, TypeOK, Carries, Control, ToFree
<1>10. CASE TopValidate(p) \/ TopRead(p) \/ TopLeave(p)
  BY <1>0, <1>1, <1>10
     DEF TopValidate, TopRead, TopLeave, Release, TypeOK, Carries, Control, ToFree
<1>11. CASE Domain(p)
  <2>1. CASE Delete(p)
    BY <1>11, <2>1, DeleteMemory, DomainEffect
  <2>2. CASE mem' = mem /\ ToFree' = ToFree
    <3>1. \A q \in Threads : (Carries(q)' <=> Carries(q)) /\ ref'[q] = ref[q]
      BY <1>11, DomainEffect DEF Carries
    <3>2. (\A s \in ToFree : data'[s] = data[s]) /\ stack' = stack
      BY <1>11, DomainEffect DEF ToFree
    <3>3. QED
      BY <1>1, <2>2, <3>1, <3>2
  <2>3. QED
    BY <1>11, <2>1, <2>2, DomainEffect
<1>12. QED
  BY <1>2, <1>3, <1>4, <1>5, <1>6, <1>7, <1>8, <1>9, <1>10, <1>11
     DEF Step, Push, Pop, Top

\* A step that starts no read and does not move the walk.
LEMMA ShieldedKept ==
  ASSUME Shielded, UNCHANGED <<cutShort, pos, end, pmap>>, rmap' \subseteq rmap,
         \A r \in rmap : data'[r] = data[r],
         \A q \in Threads : /\ pc'[q] = "walk" => pc[q] = "walk"
                            /\ pc'[q] \in {"free", "mark"} => pc[q] \in {"free", "mark"},
         \A q \in Threads : pc'[q] = "read" =>
           /\ pc[q] = "read" /\ ref'[q] = ref[q] /\ mine'[q] = mine[q]
           /\ mem[ref[q]] # "pool" => mem'[ref[q]] # "pool"
  PROVE  Shielded'
BY DEF Shielded

\* A reader has a slot before tail_, active, with its object.
LEMMA ReaderSlot ==
  ASSUME SlotInv, NEW q \in Threads, pc[q] = "read"
  PROVE  /\ mine[q] \in Slots /\ mine[q] < tail
         /\ mine[q] \notin retired \cup inactive
         /\ data[mine[q]] = ref[q] /\ ref[q] \in Objects
<1>1. mine[q] \in Slots /\ Holds(q, mine[q])
  BY DEF SlotInv, TypeOK, Control, Owns, HoldPcs, Holds
<1>2. mine[q] \notin retired
  BY <1>1, NotRetired
<1>3. QED
  BY <1>1, <1>2 DEF SlotInv, Control, Held, Contents

\* One thread is in scan().
LEMMA OthersElsewhere ==
  ASSUME SlotInv, NEW p \in Threads, pc[p] \in ScanPcs
  PROVE  \A q \in Threads : q # p => pc[q] \notin ScanPcs
BY DEF SlotInv, Scanning, OneScanner

\* TopValidate: what is at the head now is in nobody's rmap.
LEMMA ValidateShields ==
  ASSUME SlotInv, MemInv, NEW p \in Threads, TopValidate(p)
  PROVE  Shielded'
<1>0. TypeOK /\ Linked /\ Memory /\ Shielded
  BY DEF SlotInv, MemInv
<1>1. /\ pc' = [pc EXCEPT ![p] = IF ~ Validated(p) THEN "again"
                                 ELSE IF head = Sentinel THEN "leave" ELSE "read"]
      /\ ref' = [ref EXCEPT ![p] = head]
      /\ UNCHANGED <<cutShort, pos, end, pmap, rmap, data, mine, mem>>
  BY DEF TopValidate, Goto, slotVars, scanVars, walkVars
<1>2. \A q \in Threads : q # p => pc'[q] = pc[q] /\ ref'[q] = ref[q]
  BY <1>0, <1>1 DEF TypeOK
<1>3. /\ pc'[p] \notin {"walk", "free", "mark"} /\ ref'[p] = head
      /\ pc'[p] = "read" => head # Sentinel
  BY <1>0, <1>1 DEF TypeOK
<1>4. head # Sentinel => mem[head] = "use" /\ head \in Stacked
  <2>1. Len(stack) \in Nat
    BY <1>0 DEF TypeOK
  <2>2. QED
    BY <1>0, <2>1 DEF Linked, At, Stacked
<1>5. rmap \subseteq ToFree
  BY DEF SlotInv, Contents, Apart, ToFree
<1>6. pc'[p] = "read" => mem[ref'[p]] = "use" /\ \A r \in rmap : data[r] # ref'[p]
  BY <1>0, <1>3, <1>4, <1>5 DEF Memory
<1>7. QED
  BY <1>0, <1>1, <1>2, <1>3, <1>6 DEF Shielded

\* Drained: the walk that begins has every slot before it.
LEMMA DrainedShields ==
  ASSUME SlotInv, MemInv, NEW p \in Threads, Drained(p), UNCHANGED lfVars
  PROVE  Shielded'
<1>0. TypeOK /\ Shielded /\ Scanning
  BY DEF SlotInv, MemInv
<1>1. /\ pc[p] = "drain" /\ pc' = [pc EXCEPT ![p] = "walk"] /\ end' = tail
      /\ UNCHANGED <<cutShort, pos, pmap, rmap, data, mine, mem, ref>>
  BY DEF Drained, Goto, slotVars, scanVars, walkVars, lfVars
<1>2. \A q \in Threads : q # p => pc'[q] = pc[q] /\ pc[q] \notin ScanPcs
  BY <1>0, <1>1, OthersElsewhere DEF TypeOK, ScanPcs
<1>3. pc'[p] = "walk" /\ pos = 0
  BY <1>0, <1>1, <1>2 DEF TypeOK, Scanning, ScanPcs
<1>4. \A q \in Threads : pc[q] = "read" => pos <= mine[q] /\ mine[q] < tail
  BY <1>3, ReaderSlot DEF Slots
<1>5. QED
  BY <1>0, <1>1, <1>2, <1>3, <1>4 DEF Shielded, ScanPcs

\* Walk: at the slot of a reader its object comes into pmap.
LEMMA WalkShields ==
  ASSUME SlotInv, MemInv, NEW p \in Threads, Walk(p), UNCHANGED lfVars
  PROVE  Shielded'
<1>0. TypeOK /\ Shielded
  BY DEF SlotInv, MemInv
<1>1. /\ pc[p] = "walk" /\ pos # end
      /\ pmap' = IF pos \in retired \cup inactive THEN pmap ELSE pmap \cup {data[pos]}
      /\ UNCHANGED <<end, rmap, data, mine, mem, ref>>
  BY DEF Walk, Goto, slotVars, scanVars, walkVars, lfVars
<1>2. \A q \in Threads : q # p => pc'[q] = pc[q] /\ pc[q] \notin ScanPcs
  BY <1>0, <1>1, OthersElsewhere DEF TypeOK, ScanPcs, Walk, Goto
<1>3. CASE pos \notin linked
  BY <1>3 DEF Walk, Shielded
<1>4. CASE pos \in linked
  <2>1. pos' = pos + 1 /\ cutShort' = cutShort /\ pc'[p] = "walk"
    BY <1>0, <1>4 DEF Walk, Goto, TypeOK
  <2>2. pmap \subseteq pmap'
    BY <1>1
  <2>3. \A q \in Threads : pc[q] = "read" /\ pos <= mine[q] =>
                             ref[q] \in pmap' \/ pos + 1 <= mine[q]
    <3>1. SUFFICES ASSUME NEW q \in Threads, pc[q] = "read", pos = mine[q]
                   PROVE  ref[q] \in pmap'
      BY <1>0, ReaderSlot DEF TypeOK, Slots
    <3>2. QED
      BY <1>1, <3>1, ReaderSlot
  <2>4. QED
    BY <1>0, <1>1, <1>2, <2>1, <2>2, <2>3 DEF Shielded, ScanPcs
<1>5. QED
  BY <1>3, <1>4

\* Walked: the walk has passed every reader that matters.
LEMMA WalkedShields ==
  ASSUME SlotInv, MemInv, NEW p \in Threads, Walked(p), UNCHANGED lfVars
  PROVE  Shielded'
<1>0. TypeOK /\ Shielded
  BY DEF SlotInv, MemInv
<1>1. /\ pc[p] = "walk" /\ pos = end /\ pc' = [pc EXCEPT ![p] = "free"]
      /\ UNCHANGED <<pos, end, pmap, cutShort, rmap, data, mine, mem, ref>>
  BY DEF Walked, Goto, slotVars, scanVars, walkVars, lfVars
<1>2. \A q \in Threads : q # p => pc'[q] = pc[q] /\ pc[q] \notin ScanPcs
  BY <1>0, <1>1, OthersElsewhere DEF TypeOK, ScanPcs
<1>3. pc'[p] = "free"
  BY <1>0, <1>1 DEF TypeOK
<1>4. \A q \in Threads : pc[q] = "read" => ~ (pos <= mine[q] /\ mine[q] < end)
  <2>1. ASSUME NEW q \in Threads, pc[q] = "read", pos <= mine[q], mine[q] < end
        PROVE  FALSE
    <3>1. mine[q] \in Slots
      BY <2>1, ReaderSlot
    <3>2. pos \in Slots
      BY <1>0 DEF TypeOK
    <3>3. QED
      BY <1>1, <2>1, <3>1, <3>2 DEF Slots
  <2>2. QED
    BY <2>1
<1>5. QED
  BY <1>0, <1>1, <1>2, <1>3, <1>4 DEF Shielded, ScanPcs

\* Delete: what a reader reads is in pmap, and stays.
LEMMA DeleteShields ==
  ASSUME SlotInv, MemInv, NEW p \in Threads, Delete(p), UNCHANGED lfVars
  PROVE  Shielded'
<1>0. TypeOK /\ Shielded
  BY DEF SlotInv, MemInv
<1>1. PICK s \in rmap : /\ data[s] \notin pmap
                        /\ mem' = [mem EXCEPT ![data[s]] = "pool"]
                        /\ rmap' = rmap \ {s}
  BY DeleteEffect
<1>2. /\ pc[p] = "free" /\ pc'[p] = "mark"
      /\ \A q \in Threads : q # p => pc'[q] = pc[q]
      /\ UNCHANGED <<pos, end, pmap, cutShort, data, mine, ref>>
  BY DeleteEffect DEF lfVars
<1>3. CASE cutShort
  BY <1>2, <1>3 DEF Shielded
<1>4. CASE ~ cutShort
  <2>1. \A q \in Threads : pc[q] = "read" => ref[q] # data[s]
    BY <1>0, <1>1, <1>2, <1>4 DEF Shielded
  <2>2. \A q \in Threads : pc[q] = "read" => mem'[ref[q]] = mem[ref[q]]
    BY <1>0, <1>1, <2>1, ReaderSlot DEF TypeOK
  <2>3. \A q \in Threads : /\ pc'[q] = "walk" => pc[q] = "walk"
                           /\ pc'[q] \in {"free", "mark"} => pc[q] \in {"free", "mark"}
                           /\ pc'[q] = "read" => pc[q] = "read"
    BY <1>2
  <2>4. QED
    BY <1>0, <1>1, <1>2, <2>2, <2>3, ShieldedKept
<1>5. QED
  BY <1>3, <1>4

\* Shielded.
LEMMA StepShielded ==
  ASSUME SlotInv, MemInv, NEW p \in Threads, Step(p)
  PROVE  Shielded'
<1> USE DEF Goto, Return, slotVars, scanVars, walkVars, lfVars
<1> DEFINE Keeps ==
             /\ UNCHANGED <<cutShort, pos, end, pmap>>
             /\ rmap' \subseteq rmap
             /\ \A r \in rmap : data'[r] = data[r]
             /\ \A q \in Threads :
                  /\ pc'[q] = "walk" => pc[q] = "walk"
                  /\ pc'[q] \in {"free", "mark"} => pc[q] \in {"free", "mark"}
             /\ \A q \in Threads : pc'[q] = "read" =>
                  /\ pc[q] = "read" /\ ref'[q] = ref[q] /\ mine'[q] = mine[q]
                  /\ mem[ref[q]] # "pool" => mem'[ref[q]] # "pool"
<1>1. Keeps => Shielded'
  BY ShieldedKept DEF MemInv
<1>2. TypeOK /\ Control /\ Shielded /\ rmap \subseteq retired
  BY DEF SlotInv, MemInv, Contents
<1> USE DEF TypeOK
<1>3. CASE CreateNode(p)
  <2>1. PICK o \in Objects : mem' = [mem EXCEPT ![o] = "use"]
    BY <1>3 DEF CreateNode
  <2>2. \A x \in Objects : mem[x] # "pool" => mem'[x] # "pool"
    BY <1>2, <2>1
  <2>3. \A q \in Threads : pc[q] = "read" => ref[q] \in Objects
    BY <1>2 DEF Control
  <2>4. QED
    BY <1>1, <1>2, <1>3, <2>2, <2>3 DEF CreateNode
<1>4. CASE PushLoad(p) \/ PushTake(p) \/ PushRetry(p)
  BY <1>1, <1>2, <1>4 DEF PushLoad, PushTake, PushRetry
<1>5. CASE PopLoad(p) \/ PopNext(p) \/ PopEmpty(p) \/ PopRetry(p)
  BY <1>1, <1>2, <1>5 DEF PopLoad, PopNext, PopEmpty, PopRetry
<1>6. CASE PopTake(p)
  BY <1>1, <1>2, <1>6 DEF PopTake, StartFind
<1>7. CASE PopProtect(p) \/ TopProtect(p)
  <2>1. mine[p] \in Slots /\ mine[p] \notin retired
    BY <1>2, <1>7, NotRetired
       DEF PopProtect, TopProtect, Protect, Control, Owns, HoldPcs, Holds
  <2>2. QED
    BY <1>1, <1>2, <1>7, <2>1 DEF PopProtect, TopProtect, Protect
<1>8. CASE PopRetire(p)
  BY <1>1, <1>2, <1>8 DEF PopRetire, Retire
<1>9. CASE TopLoad(p)
  BY <1>1, <1>2, <1>9 DEF TopLoad, StartFind
<1>10. CASE TopValidate(p)
  BY <1>10, ValidateShields
<1>11. CASE TopRead(p) \/ TopLeave(p)
  BY <1>1, <1>2, <1>11 DEF TopRead, TopLeave, Release
<1>12. CASE Domain(p)
  <2>0. /\ UNCHANGED lfVars /\ \A s \in rmap : data'[s] = data[s]
    BY <1>2, <1>12, DomainEffect
  <2>1. CASE FindNext(p) \/ Claim(p)
    BY <1>1, <1>2, <2>0, <2>1, FindNextEffect, ClaimEffect
  <2>2. CASE FindFault(p) \/ Extend(p) \/ Link(p) \/ Wipe(p)
    BY <1>1, <1>2, <2>0, <2>2 DEF FindFault, Extend, Link, Wipe
  <2>3. CASE Enlist(p) \/ CheckLimit(p) \/ Seize(p)
    BY <1>1, <1>2, <2>0, <2>3 DEF Enlist, CheckLimit, Seize
  <2>4. CASE Drain(p)
    <3>1. /\ pc[p] = "drain" /\ pc'[p] \in {"drain", "abort"}
          /\ \A q \in Threads : q # p => pc'[q] = pc[q]
          /\ UNCHANGED <<cutShort, mine, mem>>
      BY <2>4, DrainEffect DEF SlotInv, Drain
    <3>2. \A q \in Threads : pc'[q] \notin {"walk", "free", "mark"}
      BY <3>1, OthersElsewhere DEF ScanPcs
    <3>3. \A q \in Threads : pc'[q] = "read" => pc[q] = "read"
      BY <3>1
    <3>4. ref' = ref
      BY <2>0
    <3>5. QED
      BY <1>2, <3>1, <3>2, <3>3, <3>4 DEF Shielded
  <2>5. CASE Drained(p)
    BY <2>0, <2>5, DrainedShields
  <2>6. CASE Walk(p)
    BY <2>0, <2>6, WalkShields
  <2>7. CASE Walked(p)
    BY <2>0, <2>7, WalkedShields
  <2>8. CASE Delete(p)
    BY <2>0, <2>8, DeleteShields
  <2>9. CASE Mark(p)
    <3>1. /\ pc[p] = "mark" /\ pc'[p] = "free"
          /\ \A q \in Threads : q # p => pc'[q] = pc[q]
          /\ UNCHANGED <<cutShort, pos, end, pmap, rmap, mine, mem, ref>>
      BY <2>0, <2>9, MarkEffect
    <3>2. QED
      BY <1>1, <2>0, <3>1
  <2>10. CASE Keep(p)
    BY <1>1, <1>2, <2>0, <2>10 DEF Keep
  <2>11. CASE EndScan(p)
    <3>1. /\ rmap' = {} /\ UNCHANGED <<cutShort, mem>>
          /\ \A q \in Threads : pc'[q] = "read" => pc[q] = "read"
      BY <1>2, <2>11 DEF EndScan
    <3>2. QED
      BY <1>2, <2>0, <3>1 DEF Shielded
  <2>12. QED
    BY <1>12, <2>1, <2>2, <2>3, <2>4, <2>5, <2>6, <2>7, <2>8, <2>9, <2>10, <2>11
       DEF Domain, MakeHazard, Scan
<1>13. QED
  BY <1>3, <1>4, <1>5, <1>6, <1>7, <1>8, <1>9, <1>10, <1>11, <1>12
     DEF Step, Push, Pop, Top

\* A step of no thread.
LEMMA MemStutter ==
  ASSUME MemInv, UNCHANGED vars
  PROVE  MemInv'
<1> USE DEF vars, hazVars, slotVars, scanVars, walkVars, lfVars
<1>1. Linked' /\ PopLocals' /\ Shielded'
  BY DEF MemInv, Linked, At, PopLocals, Stacked, Shielded
<1>2. Memory'
  BY DEF MemInv, Memory, RetiredOnce, ToFree, Carries, Stacked
<1>3. QED
  BY <1>1, <1>2 DEF MemInv

\* With one thread that pops, and any number that push and read: no interleaving of
\* their single loads, stores and exchanges breaks the list, loses or doubles an
\* object, or frees one under a reader while every walk of scan() is complete.
THEOREM Invariance == ASSUME OnePopper PROVE Spec => []MemInv
<1>1. ASSUME SlotInv, MemInv, [Next]_vars
      PROVE  MemInv'
  <2>1. CASE Next
    BY <1>1, <2>1, StepLinked, StepPopLocals, StepMemory, StepShielded DEF MemInv, Next
  <2>2. CASE UNCHANGED vars
    BY <1>1, <2>2, MemStutter
  <2>3. QED
    BY <1>1, <2>1, <2>2
<1>2. QED
  BY InitMemInv, <1>1, SlotInvariance, PTL DEF Spec

\* push and pop on nodes that are freed and come back from the pool: while one
\* thread pops, head_ and the next_ members always are the objects on the stack.
THEOREM StackIntact == ASSUME OnePopper PROVE Spec => []Linked
<1>1. MemInv => Linked
  BY DEF MemInv
<1>2. QED
  BY Invariance, <1>1, PTL

\* What scan() asserts: no object is in two retired slots, so the deleter is not
\* called twice.  With two popping threads it does not hold.
THEOREM FreedOnce == ASSUME OnePopper PROVE Spec => []RetiredOnce
<1>1. MemInv => RetiredOnce
  BY DEF MemInv, Memory
<1>2. QED
  BY Invariance, <1>1, PTL

\* An object from the pool is on the stack, with its thread, or in a retired slot
\* that scan() comes to.
THEOREM NothingLost == ASSUME OnePopper PROVE Spec => []NothingLeaks
<1>1. SlotInv /\ MemInv => NothingLeaks
  <2>1. SUFFICES ASSUME SlotInv, MemInv, NEW s \in ToFree
                 PROVE  s \in rlist \cup rmap \/ \E p \in Threads : mine[p] = s
    BY DEF MemInv, Memory, NothingLeaks
  <2>2. s \in rlist \cup rmap \cup Enlisting
    BY <2>1 DEF SlotInv, Apart, ToFree
  <2>3. QED
    BY <2>2 DEF Enlisting
<1>2. QED
  BY Invariance, SlotInvariance, <1>1, PTL

\* The promise of the hazard pointers: what top() has protected and validated is
\* not freed while top() reads it, unless a walk of scan() ended at a slot that was
\* not linked yet; and pop, which protects nothing, reads no freed node.
THEOREM ReadersSafe == ASSUME OnePopper PROVE Spec => []NoReadAfterFree
<1>1. SlotInv /\ MemInv => NoReadAfterFree
  <2>1. SUFFICES ASSUME SlotInv, MemInv, NEW p \in Threads, ref[p] \in Objects,
                        mem[ref[p]] = "pool"
                 PROVE  (pc[p] = "read" => cutShort) /\ pc[p] # "popNext"
    BY DEF NoReadAfterFree
  <2>2. pc[p] = "read" => cutShort
    BY <2>1 DEF MemInv, Shielded
  <2>3. pc[p] # "popNext"
    BY <2>1, StackAssumption DEF MemInv, PopLocals, Linked, Stacked
  <2>4. QED
    BY <2>2, <2>3
<1>2. QED
  BY Invariance, SlotInvariance, <1>1, PTL
=============================================================================
