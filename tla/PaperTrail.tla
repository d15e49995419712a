----------------------------- MODULE PaperTrail -----------------------------
(***************************************************************************)
(* What the bank asks of one paper original: the branch hands it over, and *)
(* somebody else receives it, or misses it, at central storage; there it   *)
(* is kept until its retention period has ended, and then a manager may    *)
(* dispose of it.  Every move is written down as it is made, in the order  *)
(* of the moves, and none is made twice.  Custody implements this          *)
(* specification.                                                          *)
(***************************************************************************)
EXTENDS Sequences

CONSTANTS Branch, Storage, Managers, None

VARIABLES at,        \* where the original is
          sender,    \* who handed it over
          receiver,  \* who received its batch
          due,       \* its retention period has ended
          trail      \* the events written down

vars == <<at, sender, receiver, due, trail>>

Init == /\ at = "AT_BRANCH" /\ trail = <<>>
        /\ sender = None /\ receiver = None /\ due = FALSE

HandOver(p) ==
  /\ at = "AT_BRANCH" /\ at' = "IN_TRANSIT"
  /\ sender' = p /\ trail' = Append(trail, "HANDED_OVER")
  /\ UNCHANGED <<receiver, due>>

Arrive(p) ==
  /\ at = "IN_TRANSIT" /\ p # sender
  /\ \/ at' = "STORED" /\ trail' = Append(trail, "RECEIVED")
     \/ at' = "MISSING" /\ trail' = Append(trail, "MISSING")
  /\ receiver' = p
  /\ UNCHANGED <<sender, due>>

FallDue == at = "STORED" /\ due' = TRUE /\ UNCHANGED <<at, sender, receiver, trail>>

Dispose ==
  /\ at = "STORED" /\ due
  /\ at' = "DISPOSED" /\ trail' = Append(trail, "DISPOSED")
  /\ UNCHANGED <<sender, receiver, due>>

Next == \/ \E p \in Branch \cup Managers : HandOver(p)
        \/ \E p \in Storage \cup Managers : Arrive(p)
        \/ FallDue \/ Dispose

Spec == Init /\ [][Next]_vars
===========================================================================
