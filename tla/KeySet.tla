------------------------------- MODULE KeySet -------------------------------
(***************************************************************************)
(* A set with atomic operations: what LF_set promises.  A call takes       *)
(* effect, and gets its answer, at one moment between call and return.     *)
(***************************************************************************)
CONSTANTS Threads, Keys

VARIABLES
  members,       \* the set
  op,            \* the operation a thread is in, "none" if none
  arg,           \* its key
  answer         \* "yes", "no", or "none" while it has not taken effect

kvars == <<members, op, arg, answer>>

Init ==
  /\ members = {}
  /\ op = [p \in Threads |-> "none"]
  /\ arg = [p \in Threads |-> 0]
  /\ answer = [p \in Threads |-> "none"]

Begin(p) ==
  /\ op[p] = "none"
  /\ \E o \in {"insert", "find", "remove"} : op' = [op EXCEPT ![p] = o]
  /\ \E k \in Keys : arg' = [arg EXCEPT ![p] = k]
  /\ UNCHANGED <<members, answer>>

Effect(p) ==
  /\ op[p] # "none" /\ answer[p] = "none"
  /\ LET present == arg[p] \in members
         ok      == IF op[p] = "insert" THEN ~ present ELSE present
     IN  answer' = [answer EXCEPT ![p] = IF ok THEN "yes" ELSE "no"]
  /\ members' = CASE op[p] = "insert" -> members \cup {arg[p]}
                  [] op[p] = "remove" -> members \ {arg[p]}
                  [] OTHER            -> members
  /\ UNCHANGED <<op, arg>>

Return(p) ==
  /\ answer[p] # "none"
  /\ op' = [op EXCEPT ![p] = "none"]
  /\ arg' = [arg EXCEPT ![p] = 0]
  /\ answer' = [answer EXCEPT ![p] = "none"]
  /\ UNCHANGED members

Next == \E p \in Threads : Begin(p) \/ Effect(p) \/ Return(p)

Spec == Init /\ [][Next]_kvars
=============================================================================
