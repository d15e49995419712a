------------------------- MODULE ValidationScreen -------------------------
(***************************************************************************)
(* The checker's page for outward cheques: rows that wait for a checker,   *)
(* asked for again and again, above rows of decisions the page only shows. *)
(* Approving sends the maker's decision as the row has it; returning opens *)
(* a list of reasons first, also while an approval is on its way.          *)
(***************************************************************************)
EXTENDS WebClient

VARIABLES
  row,        \* the server: each cheque's staged decision, where it stands, what Me filed
  rows,       \* the page: waiting rows, and the maker's decision on each
  picker,     \* the page: the row whose list of reasons is open
  busy,       \* the page: the row whose buttons are disabled
  arriving,   \* lists on their way to the page
  validates,  \* requests on their way to the server, and their answers
  overruled   \* history: cheques this checker's return was filed for

validationVars == <<row, rows, picker, busy, arriving, validates, overruled>>

Decisions == {"CONFIRMED", "REJECTED"}
Statuses  == {"none", "MAKER_DECIDED", "FINAL"}
Waiting   == {i \in Items : row[i].status = "MAKER_DECIDED"}
NoRows    == [i \in Items |-> None]
Listing   == [i \in Items |-> IF i \in Waiting THEN row[i].maker ELSE None]
Request   == [item : Items, action : Decisions, agrees : BOOLEAN,
              step : {"sent", "done", "refused"}]

ValidationInit ==
  /\ row = [i \in Items |-> [status |-> "none", maker |-> None, filed |-> None]]
  /\ rows = NoRows /\ picker = None /\ busy = None
  /\ arriving = {}
  /\ validates = {}
  /\ overruled = {}

----------------------------------------------------------------------------
(* The list *)

(* One list is asked for at a time; that lists overtake one another is a   *)
(* matter of OutwardScreen.                                                *)
useOutwardStagedQueue ==
  /\ arriving = {}
  /\ arriving' = arriving \cup {Listing}
  /\ UNCHANGED <<row, rows, picker, busy, validates, overruled>>

setInstruments(a) ==
  /\ rows' = a
  /\ arriving' = arriving \ {a}
  /\ UNCHANGED <<row, picker, busy, validates, overruled>>

----------------------------------------------------------------------------
(* The buttons *)

submitOutwardValidation(i, action, agrees) ==
  /\ Cardinality(validates) < MaxPosts
  /\ busy' = i
  /\ validates' = validates \cup {[item |-> i, action |-> action, agrees |-> agrees,
                                   step |-> "sent"]}

(* Seeded bug: approving confirms the cheque.                              *)
ApproveConfirms(i) ==
  /\ rows[i] # None /\ busy # i
  /\ submitOutwardValidation(i, "CONFIRMED", TRUE)
  /\ UNCHANGED <<row, rows, picker, arriving, overruled>>

handleApprove(i) ==
  /\ rows[i] # None /\ busy # i
  /\ submitOutwardValidation(i, rows[i], TRUE)
  /\ UNCHANGED <<row, rows, picker, arriving, overruled>>

(* The button that opens the reasons is never disabled; it and the list of *)
(* reasons are part of the row.                                            *)
openReasons(i) ==
  /\ rows[i] # None /\ picker # i
  /\ picker' = i
  /\ UNCHANGED <<row, rows, busy, arriving, validates, overruled>>

ReasonsShown == picker # None /\ rows[picker] # None

closeReasons ==
  /\ ReasonsShown /\ picker' = None
  /\ UNCHANGED <<row, rows, busy, arriving, validates, overruled>>

doReturn ==
  /\ ReasonsShown /\ picker' = None
  /\ submitOutwardValidation(picker, "REJECTED", FALSE)
  /\ UNCHANGED <<row, rows, arriving, overruled>>

----------------------------------------------------------------------------
(* The server *)

(* validate_outward_review files whatever the checker decided on a cheque  *)
(* that still waits.                                                       *)
Validate(q) ==
  /\ q.step = "sent"
  /\ IF q.item \in Waiting
       THEN /\ row' = [row EXCEPT ![q.item].status = "FINAL", ![q.item].filed = q.action]
            /\ validates' = (validates \ {q}) \cup {[q EXCEPT !.step = "done"]}
            /\ overruled' = IF q.agrees THEN overruled ELSE overruled \cup {q.item}
       ELSE /\ validates' = (validates \ {q}) \cup {[q EXCEPT !.step = "refused"]}
            /\ UNCHANGED <<row, overruled>>
  /\ UNCHANGED <<rows, picker, busy, arriving>>

(* A success takes the row off the page; either answer makes every row's   *)
(* buttons work again.                                                     *)
removeRow(q) ==
  /\ q.step = "done"
  /\ rows' = [rows EXCEPT ![q.item] = None]
  /\ busy' = None
  /\ validates' = validates \ {q}
  /\ UNCHANGED <<row, picker, arriving, overruled>>

setActionError(q) ==
  /\ q.step = "refused"
  /\ busy' = None
  /\ validates' = validates \ {q}
  /\ UNCHANGED <<row, rows, picker, arriving, overruled>>

(* A maker decides; another checker or the timeout settles.                *)
Staged(i) ==
  /\ row[i].status = "none"
  /\ \E d \in Decisions : row' = [row EXCEPT ![i].status = "MAKER_DECIDED", ![i].maker = d]
  /\ UNCHANGED <<rows, picker, busy, arriving, validates, overruled>>

OtherSettles(i) ==
  /\ i \in Waiting
  /\ row' = [row EXCEPT ![i].status = "FINAL"]
  /\ UNCHANGED <<rows, picker, busy, arriving, validates, overruled>>

----------------------------------------------------------------------------
ValidationNext ==
  \/ useOutwardStagedQueue \/ closeReasons \/ doReturn
  \/ \E a \in arriving : setInstruments(a)
  \/ \E i \in Items : handleApprove(i) \/ openReasons(i) \/ Staged(i) \/ OtherSettles(i)
  \/ \E q \in validates : Validate(q) \/ removeRow(q) \/ setActionError(q)

----------------------------------------------------------------------------
(* Properties *)

ValidationTypeOK ==
  /\ row \in [Items -> [status : Statuses, maker : Decisions \cup {None},
                        filed : Decisions \cup {None}]]
  /\ rows \in [Items -> Decisions \cup {None}]
  /\ picker \in Items \cup {None} /\ busy \in Items \cup {None}
  /\ arriving \subseteq [Items -> Decisions \cup {None}]
  /\ validates \subseteq Request /\ overruled \subseteq Items

(* What this checker files differs from the maker's word only when they    *)
(* chose to return the cheque: approving an old row never overrules.       *)
ApprovalAgrees ==
  \A i \in Items : row[i].filed # None /\ row[i].filed # row[i].maker => i \in overruled

(* A settled cheque leaves the checker's page for good.                    *)
SettledLeaves == \A i \in Items : row[i].status = "FINAL" ~> [](rows[i] = None)
===========================================================================
