-------------------------- MODULE OutwardScreen ---------------------------
(***************************************************************************)
(* The maker's page for outward cheques.  It asks for its list every ten   *)
(* seconds whether or not the last answer has come, takes a decided cheque *)
(* off the list before the server has seen the decision, and puts right    *)
(* what the server refuses.  OutwardStage takes the server's side apart.   *)
(***************************************************************************)
EXTENDS WebClient

CONSTANT MaxSends     \* bound on the decisions the page sends

ASSUME SendBound == MaxSends \in Nat

VARIABLES
  stage,    \* the server: cheques nobody decided, and those a decision was staged for
  taken,    \* the server: cheques another reviewer has claimed
  review,   \* the page: the rows it shows
  selected, \* the page: the row in the decision panel
  decided,  \* the page: "decided this session"
  answers,  \* lists on their way to the page
  decides   \* decisions on their way to the server, and their answers

outwardVars == <<stage, taken, review, selected, decided, answers, decides>>

Entries == [no : 1..MaxSends, item : Items, action : {"CONFIRMED", "REJECTED"}]

OutwardInit ==
  /\ stage = [waiting |-> {}, staged |-> {}, mine |-> {}, sent |-> 0]
  /\ taken = {}
  /\ review = {} /\ selected = None /\ decided = {}
  /\ answers = {}
  /\ decides = [sent |-> {}, accepted |-> {}, refused |-> {}]

----------------------------------------------------------------------------
(* The list *)

(* The answer is the list as it is when the server reads it.  Lists arrive *)
(* in any order; at most two are asked for at once, besides the ones a     *)
(* refusal causes.                                                         *)
fetchLiveQueue ==
  /\ Cardinality(answers) < 2
  /\ answers' = answers \cup {stage.waiting}
  /\ UNCHANGED <<stage, taken, review, selected, decided, decides>>

(* Seeded bug: an answer adds its rows to the ones the page has.           *)
MergeReview(a) ==
  /\ review' = review \cup a
  /\ answers' = answers \ {a}
  /\ UNCHANGED <<stage, taken, selected, decided, decides>>

setReview(a) ==
  /\ review' = a
  /\ answers' = answers \ {a}
  /\ UNCHANGED <<stage, taken, selected, decided, decides>>

selectItem(i) ==
  /\ i \in review
  /\ selected' = i
  /\ UNCHANGED <<stage, taken, review, decided, answers, decides>>

(* A tab of the list was clicked.                                          *)
setTab ==
  /\ selected # None
  /\ selected' = None
  /\ UNCHANGED <<stage, taken, review, decided, answers, decides>>

----------------------------------------------------------------------------
(* A decision *)

(* The row leaves the list and is shown as decided at once.                *)
decide(action) ==
  /\ selected # None /\ stage.sent < MaxSends
  /\ LET entry == [no |-> stage.sent + 1, item |-> selected, action |-> action] IN
     /\ decided' = decided \cup {entry}
     /\ decides' = [decides EXCEPT !.sent = @ \cup {entry}]
  /\ stage' = [stage EXCEPT !.sent = @ + 1]
  /\ review' = review \ {selected}
  /\ selected' = None
  /\ UNCHANGED <<taken, answers>>

ServeDecide(e) ==
  /\ e \in decides.sent
  /\ IF e.item \in stage.waiting \ taken
       THEN /\ stage' = [stage EXCEPT !.waiting = @ \ {e.item}, !.staged = @ \cup {e.item},
                                      !.mine = @ \cup {e}]
            /\ decides' = [decides EXCEPT !.sent = @ \ {e}, !.accepted = @ \cup {e}]
       ELSE /\ decides' = [decides EXCEPT !.sent = @ \ {e}, !.refused = @ \cup {e}]
            /\ UNCHANGED stage
  /\ UNCHANGED <<taken, review, selected, decided, answers>>

Accepted(e) ==
  /\ e \in decides.accepted
  /\ decides' = [decides EXCEPT !.accepted = @ \ {e}]
  /\ UNCHANGED <<stage, taken, review, selected, decided, answers>>

(* The entry goes and the list is asked for again.                         *)
TakeBack(e) ==
  /\ decided' = decided \ {e}
  /\ answers' = answers \cup {stage.waiting}
  /\ UNCHANGED <<stage, taken, review, selected>>

(* Seeded bug: the message is shown, the entry stays.                      *)
KeepEntry(e) ==
  /\ e \in decides.refused
  /\ decides' = [decides EXCEPT !.refused = @ \ {e}]
  /\ answers' = answers \cup {stage.waiting}
  /\ UNCHANGED <<stage, taken, review, selected, decided>>

Refused(e) ==
  /\ e \in decides.refused
  /\ decides' = [decides EXCEPT !.refused = @ \ {e}]
  /\ TakeBack(e)

(* The network fails before the decision or its answer got through.        *)
Lost(e) ==
  /\ e \in decides.sent \cup decides.accepted
  /\ decides' = [decides EXCEPT !.sent = @ \ {e}, !.accepted = @ \ {e}]
  /\ TakeBack(e)

----------------------------------------------------------------------------
(* The scanners and the other reviewers *)

HeldBack(i) ==
  /\ i \notin stage.waiting \cup stage.staged
  /\ stage' = [stage EXCEPT !.waiting = @ \cup {i}]
  /\ UNCHANGED <<taken, review, selected, decided, answers, decides>>

OtherClaims(i) ==
  /\ i \in stage.waiting
  /\ taken' = IF i \in taken THEN taken \ {i} ELSE taken \cup {i}
  /\ UNCHANGED <<stage, review, selected, decided, answers, decides>>

OtherDecides(i) ==
  /\ i \in stage.waiting \cap taken
  /\ stage' = [stage EXCEPT !.waiting = @ \ {i}, !.staged = @ \cup {i}]
  /\ taken' = taken \ {i}
  /\ UNCHANGED <<review, selected, decided, answers, decides>>

----------------------------------------------------------------------------
OutwardNext ==
  \/ fetchLiveQueue \/ setTab
  \/ \E a \in answers : setReview(a)
  \/ \E i \in Items : selectItem(i) \/ HeldBack(i) \/ OtherClaims(i) \/ OtherDecides(i)
  \/ \E action \in {"CONFIRMED", "REJECTED"} : decide(action)
  \/ \E e \in decides.sent \cup decides.accepted \cup decides.refused :
       ServeDecide(e) \/ Accepted(e) \/ Refused(e) \/ Lost(e)

----------------------------------------------------------------------------
(* Properties *)

OutwardTypeOK ==
  /\ stage \in [waiting : SUBSET Items, staged : SUBSET Items, mine : SUBSET Entries,
                sent : 0..MaxSends]
  /\ taken \subseteq Items /\ review \subseteq Items /\ selected \in Items \cup {None}
  /\ decided \subseteq Entries /\ answers \subseteq SUBSET Items
  /\ decides \in [sent : SUBSET Entries, accepted : SUBSET Entries, refused : SUBSET Entries]

(* What the page lists as decided in this session the server has accepted, *)
(* unless the request is still under way: a refused or lost decision does  *)
(* not stay on the list beside another one for the same cheque.            *)
DecidedIsStaged ==
  \A e \in decided : e \in stage.mine \cup decides.sent \cup decides.refused

(* A staged cheque leaves the page for good although lists read before the *)
(* decision may still bring it back for a while.                           *)
StagedLeaves == \A i \in Items : i \in stage.staged ~> [](i \notin review)
===========================================================================
