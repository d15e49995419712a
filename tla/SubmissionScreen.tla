-------------------------- MODULE SubmissionScreen ---------------------------
(***************************************************************************)
(* The page on which staff file outward cheques with the clearing house.   *)
(* It asks for the makers' list every 30 seconds, but an answer with no    *)
(* rows is not taken over.  The panel shows the cheque as filed as soon as *)
(* the button is pressed, and the page builds its request itself, without  *)
(* the token that writes need.                                             *)
(***************************************************************************)
EXTENDS WebClient

VARIABLES
  unfiled,     \* the server: cheques that wait for a maker, the rejected ones among them,
               \* those that left, those filed from here
  instruments, \* the page: its rows
  current,     \* the page: the row in the panel
  panel,       \* the panel: what it shows besides the row
  files        \* requests under way

submissionVars == <<unfiled, instruments, current, panel, files>>

NoPanel == [submitted |-> FALSE, picking |-> FALSE]
FilePage == [sendsToken |-> FALSE]

SubmissionInit ==
  /\ unfiled = [waiting |-> {}, rejected |-> {}, left |-> {}, filed |-> {}]
  /\ instruments = {} /\ current = None
  /\ panel = NoPanel
  /\ files = {}

----------------------------------------------------------------------------
(* The list: the first row is selected when the selected one has gone, and *)
(* the panel starts afresh with its row.                                   *)

(* Seeded bug: the selection stays although its row has gone.              *)
AlwaysKeeps(rows) == TRUE

Keeps(rows) == current \in rows

Adopt(rows) ==
  /\ instruments' = rows
  /\ IF Keeps(rows) THEN UNCHANGED <<current, panel>>
     ELSE /\ current' \in (IF rows = {} THEN {None} ELSE rows)
          /\ panel' = NoPanel

(* Rejected cheques are left out; what is left may well be nothing.        *)
useOutwardQueue ==
  /\ unfiled.waiting # {}
  /\ Adopt(unfiled.waiting \ unfiled.rejected)
  /\ UNCHANGED <<unfiled, files>>

setSelected(i) ==
  /\ i \in instruments /\ i # current
  /\ current' = i /\ panel' = NoPanel
  /\ UNCHANGED <<unfiled, instruments, files>>

----------------------------------------------------------------------------
(* The panel: once it shows the cheque as filed it offers nothing more.    *)

Post(i, action) ==
  /\ Cardinality(files) < MaxPosts
  /\ files' = files \cup {[item |-> i, action |-> action]}

SubmitToNGCH ==
  /\ current # None /\ ~panel.submitted
  /\ panel' = [panel EXCEPT !.submitted = TRUE]
  /\ Post(current, "CONFIRM")
  /\ UNCHANGED <<unfiled, instruments, current>>

setShowReturnPicker ==
  /\ current # None /\ ~panel.submitted
  /\ panel' = [panel EXCEPT !.picking = ~@]
  /\ UNCHANGED <<unfiled, instruments, current, files>>

ReturnPicker ==
  /\ current # None /\ ~panel.submitted /\ panel.picking
  /\ panel' = [panel EXCEPT !.picking = FALSE]
  /\ Post(current, "RETURN")
  /\ UNCHANGED <<unfiled, instruments, current>>

----------------------------------------------------------------------------
(* The server, for a session whose token is the one this tab has           *)

Answer(q, token) ==
  /\ q \in files
  /\ files' = files \ {q}
  /\ IF Admits(token, csrfHeader(FilePage, token)) /\ q.item \in unfiled.waiting
       THEN /\ unfiled' = [unfiled EXCEPT !.waiting = @ \ {q.item}, !.filed = @ \cup {q.item}]
            /\ instruments' = instruments \ {q.item}
            /\ current' \in (IF instruments' = {} THEN {None} ELSE instruments')
            /\ panel' = IF current' = current THEN panel ELSE NoPanel
       ELSE UNCHANGED <<unfiled, instruments, current, panel>>

(* The scanners hold a cheque back; a maker decides on one, elsewhere.     *)
NewItem(i) ==
  /\ i \notin unfiled.waiting \cup unfiled.left \cup unfiled.filed
  /\ \E rejected \in {{}, {i}} :
        unfiled' = [unfiled EXCEPT !.waiting = @ \cup {i}, !.rejected = @ \cup rejected]
  /\ UNCHANGED <<instruments, current, panel, files>>

MakerDecides(i) ==
  /\ i \in unfiled.waiting
  /\ unfiled' = [unfiled EXCEPT !.waiting = @ \ {i}, !.left = @ \cup {i}]
  /\ UNCHANGED <<instruments, current, panel, files>>

----------------------------------------------------------------------------
SubmissionNext ==
  \/ useOutwardQueue \/ SubmitToNGCH \/ setShowReturnPicker \/ ReturnPicker
  \/ \E i \in Items : setSelected(i) \/ NewItem(i) \/ MakerDecides(i)
  \/ \E q \in files : Answer(q, Me)

----------------------------------------------------------------------------
(* Properties *)

SubmissionTypeOK ==
  /\ unfiled \in [waiting : SUBSET Items, rejected : SUBSET Items, left : SUBSET Items,
               filed : SUBSET Items]
  /\ instruments \subseteq Items /\ current \in instruments \cup {None}
  /\ panel \in [submitted : BOOLEAN, picking : BOOLEAN]
  /\ files \subseteq [item : Items, action : {"CONFIRM", "RETURN"}]

(* A cheque a maker decided elsewhere leaves the page - unless it was the  *)
(* last to wait: then the page keeps it.                                   *)
DecidedLeave ==
  \A i \in Items : i \in unfiled.left ~> i \notin instruments \/ unfiled.waiting = {}
===========================================================================
