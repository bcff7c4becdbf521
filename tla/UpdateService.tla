--------------------------- MODULE UpdateService ---------------------------
(***************************************************************************)
(* What the bot promises its users, without polls, streams or messages:    *)
(* updates are taken up one at a time, oldest first, none twice in one     *)
(* life of the bot; the inbox loses an update only after the bot has dealt *)
(* with it, or, all but the newest, before the bot has taken its first.    *)
(***************************************************************************)
EXTENDS Integers

CONSTANT MaxId   \* bound: the number of updates ever sent

VARIABLES
  sent,          \* updates sent so far, numbered 1 .. sent
  inbox,         \* updates kept for the bot
  done,          \* updates taken up in this life of the bot
  current        \* the update being dealt with, 0 if none

svars == <<sent, inbox, done, current>>

Init ==
  /\ sent = 0
  /\ inbox = {}
  /\ done = {}
  /\ current = 0

Arrive ==
  /\ sent < MaxId
  /\ sent' = sent + 1
  /\ inbox' = inbox \cup {sent + 1}
  /\ UNCHANGED <<done, current>>

Confirm ==
  /\ \E gone \in SUBSET (inbox \cap (done \ {current})) : inbox' = inbox \ gone
  /\ UNCHANGED <<sent, done, current>>

Forget ==
  /\ done = {}
  /\ inbox' = {u \in inbox : \A v \in inbox : v <= u}
  /\ UNCHANGED <<sent, done, current>>

Take ==
  /\ current = 0
  /\ \E u \in inbox \ done :
       /\ \A v \in inbox \ done : u <= v
       /\ \A v \in done : v < u
       /\ done' = done \cup {u}
       /\ current' \in {0, u}
  /\ UNCHANGED <<sent, inbox>>

Finish ==
  /\ current' = 0
  /\ UNCHANGED <<sent, inbox, done>>

NewLife ==
  /\ done' = {}
  /\ current' = 0
  /\ UNCHANGED <<sent, inbox>>

Next == Arrive \/ Confirm \/ Forget \/ Take \/ Finish \/ NewLife

Spec == Init /\ [][Next]_svars
============================================================================
