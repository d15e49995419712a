---------------------------- MODULE MCAllocation ----------------------------
(* Items and polls are interchangeable.  Reviewers are when all of them    *)
(* may work every item; otherwise only Home may, and nothing follows from  *)
(* whether Home's units are known: the view leaves that out, and the       *)
(* history no guard and no checked property reads.                         *)
EXTENDS Allocation, TLC

CONSTANT Home

OneUnit   == [i \in Items |-> {Home}]
EveryUnit == [i \in Items |-> Reviewers]

Symmetry    == Permutations(Items) \union Permutations(Workers)
AllSymmetry == Symmetry \union Permutations(Reviewers)

\* The units a poll has read matter from their reading to the last write they serve.
Reads(k) ==
  [k EXCEPT !.known = IF k.step \in {"taking", "listing", "moving", "writing"} THEN @ \ {Home} ELSE {}]

View == <<known \ {Home}, arrived, record, claim, pending, auto, opening, givenUp, unread \ {Home}, loose,
          [w \in Workers |-> Reads(worker[w])], requests, faults>>
=============================================================================
