--------------------------- MODULE ReviewScreen ---------------------------
(***************************************************************************)
(* The inward review queue as a reviewer sees and works it: a list that is *)
(* asked for again every 15 seconds, sorted by deadline, a focus mode that *)
(* shows the item at a position of that list and takes single keys as      *)
(* decisions, and dialogs that hold on to the row they were opened for.    *)
(* Other reviewers work meanwhile.                                         *)
(*                                                                         *)
(* The requests behind the buttons are one step here; ReviewDesk takes     *)
(* them apart.  The list's tabs only hide rows and are left out.           *)
(***************************************************************************)
EXTENDS WebClient

CONSTANT Dialogs     \* the dialogs the reviewer uses: all three are alike here

ASSUME DialogsAssumption == Dialogs \subseteq {"hold", "return", "release"}

VARIABLES
  desk,     \* the server: running reviews, those open for a decision, claims
  list,     \* the screen: the last answer to the list's request
  focus,    \* the screen: focus mode and the position it shows
  dialogs,  \* the screen: the row each dialog was opened for
  posts,    \* requests under way
  held      \* history: the items that were claimed for Me at some time

reviewVars == <<desk, list, focus, dialogs, posts, held>>

Blank   == [items |-> {}, mine |-> {}, taken |-> {}]
Operations == {"claim", "confirm"} \cup Dialogs

ReviewInit ==
  /\ desk = [running |-> {}, open |-> {}, ended |-> {}, holder |-> Nobody]
  /\ list = Blank
  /\ focus = [on |-> FALSE, at |-> 0]
  /\ dialogs = [d \in Dialogs |-> None]
  /\ posts = {}
  /\ held = {}

----------------------------------------------------------------------------
(* The list *)

(* GET /queue lists every review that runs, the decided ones included.     *)
Queue == [items |-> desk.running,
          mine  |-> {i \in desk.running : desk.holder[i] = Me},
          taken |-> {i \in desk.running : desk.holder[i] # None}]

(* Seeded bug: the list is not replaced while focus mode shows a row.      *)
RefreshOutsideFocus ==
  /\ list' = IF focus.on THEN list ELSE Queue
  /\ UNCHANGED <<desk, focus, dialogs, posts, held>>

(* The answer to the interval's request, or to the one a success causes.   *)
Refresh ==
  /\ list' = Queue
  /\ UNCHANGED <<desk, focus, dialogs, posts, held>>

----------------------------------------------------------------------------
(* Focus mode *)

Position(i) == Cardinality({j \in list.items : j < i})
InFocus(i)  == focus.on /\ i \in list.items /\ Position(i) = focus.at

EnterFocus ==
  /\ ~focus.on /\ list.items # {}
  /\ focus' = [on |-> TRUE, at |-> 0]
  /\ UNCHANGED <<desk, list, dialogs, posts, held>>

(* Seeded bug: the key does not stop at the end.                           *)
ArrowPastEnd ==
  /\ focus.on
  /\ focus' = [focus EXCEPT !.at = @ + 1]
  /\ UNCHANGED <<desk, list, dialogs, posts, held>>

(* The arrow keys stop at the ends of the list as it is now.               *)
Arrow ==
  /\ focus.on
  /\ LET last == Cardinality(list.items) - 1 IN
     \E at \in {IF focus.at + 1 < last THEN focus.at + 1 ELSE last,
                IF focus.at > 1 THEN focus.at - 1 ELSE 0} :
        focus' = [focus EXCEPT !.at = at]
  /\ UNCHANGED <<desk, list, dialogs, posts, held>>

Escape ==
  /\ focus.on
  /\ focus' = [focus EXCEPT !.on = FALSE]
  /\ UNCHANGED <<desk, list, dialogs, posts, held>>

----------------------------------------------------------------------------
(* Buttons and keys *)

(* Seeded bug: a key works on any claimed row.                             *)
AnyClaimedRow(i) == i \in list.taken

(* What a row offers: to claim it when nobody has it, everything else when *)
(* it is the reviewer's own.  In focus mode only the row in focus offers.  *)
ListOffers(i)  == ~focus.on /\ i \in list.items
FocusOffers(i) == InFocus(i)
Offers(i)      == ListOffers(i) \/ FocusOffers(i)
Unclaimed(i)   == i \notin list.taken
MineToWork(i)  == i \in list.taken /\ i \in list.mine

apiPost(op, i) ==
  /\ Cardinality(posts) < MaxPosts
  /\ posts' = posts \cup {[op |-> op, item |-> i]}

handleClaim(i) ==
  /\ Offers(i) /\ Unclaimed(i)
  /\ apiPost("claim", i)
  /\ UNCHANGED <<desk, list, focus, dialogs, held>>

(* The button, or the key A, which works with a dialog open, too.          *)
handleConfirm(i) ==
  /\ Offers(i) /\ MineToWork(i)
  /\ apiPost("confirm", i)
  /\ UNCHANGED <<desk, list, focus, dialogs, held>>

OpenDialog(d, i) ==
  /\ Offers(i) /\ MineToWork(i)
  /\ dialogs' = [dialogs EXCEPT ![d] = i]
  /\ UNCHANGED <<desk, list, focus, posts, held>>

(* A dialog is confirmed for the row it was opened for, however old.       *)
ConfirmDialog(d) ==
  /\ dialogs[d] # None
  /\ dialogs' = [dialogs EXCEPT ![d] = None]
  /\ apiPost(d, dialogs[d])
  /\ UNCHANGED <<desk, list, focus, held>>

CancelDialog(d) ==
  /\ dialogs[d] # None
  /\ dialogs' = [dialogs EXCEPT ![d] = None]
  /\ UNCHANGED <<desk, list, focus, posts, held>>

----------------------------------------------------------------------------
(* The server *)

(* A claim is granted when the item is free; a decision when the item is   *)
(* open and not another's; releasing frees one's own claim only.  Placing  *)
(* a hold looks at neither.                                                *)
Grants(q) ==
  CASE q.op = "claim" -> desk.holder[q.item] \in {None, Me}
    [] q.op \in {"confirm", "return"} ->
         q.item \in desk.open /\ desk.holder[q.item] \in {None, Me}
    [] OTHER -> TRUE

Effect(q) ==
  CASE q.op = "claim" -> [desk EXCEPT !.holder[q.item] = Me]
    [] q.op \in {"confirm", "return"} ->
         [desk EXCEPT !.open = @ \ {q.item}, !.holder[q.item] = None]
    [] q.op = "release" -> [desk EXCEPT !.holder[q.item] = IF @ = Me THEN None ELSE @]
    [] OTHER -> desk

(* A request that succeeds has the list asked for again (Refresh); one     *)
(* that is refused shows its message and leaves the list alone.            *)
Serve(q) ==
  /\ desk' = IF Grants(q) THEN Effect(q) ELSE desk
  /\ held' = IF Grants(q) /\ q.op = "claim" THEN held \cup {q.item} ELSE held
  /\ posts' = posts \ {q}
  /\ UNCHANGED <<list, focus, dialogs>>

Arrives(i) ==
  /\ i \notin desk.running \cup desk.ended
  /\ desk' = [desk EXCEPT !.running = @ \cup {i}, !.open = @ \cup {i}]
  /\ UNCHANGED <<list, focus, dialogs, posts, held>>

(* Another reviewer claims or decides, the allocation assigns the item to  *)
(* Me, or a claim lapses.                                                  *)
OtherWorks(i) ==
  /\ i \in desk.open
  /\ \/ desk.holder[i] = None /\ \E r \in People : desk' = [desk EXCEPT !.holder[i] = r]
     \/ desk.holder[i] = Other /\ desk' = [desk EXCEPT !.open = @ \ {i}, !.holder[i] = None]
     \/ desk.holder[i] # None /\ desk' = [desk EXCEPT !.holder[i] = None]
  /\ held' = held \cup {j \in Items : desk'.holder[j] = Me}
  /\ UNCHANGED <<list, focus, dialogs, posts>>

(* The review of a decided item ends once it is filed.                     *)
Closes(i) ==
  /\ i \in desk.running \ desk.open
  /\ desk' = [desk EXCEPT !.running = @ \ {i}, !.ended = @ \cup {i}]
  /\ UNCHANGED <<list, focus, dialogs, posts, held>>

----------------------------------------------------------------------------
ReviewNext ==
  \/ Refresh \/ EnterFocus \/ Arrow \/ Escape
  \/ \E i \in Items : handleClaim(i) \/ handleConfirm(i) \/ Arrives(i) \/ OtherWorks(i)
                      \/ Closes(i) \/ \E d \in Dialogs : OpenDialog(d, i)
  \/ \E d \in Dialogs : ConfirmDialog(d) \/ CancelDialog(d)
  \/ \E q \in posts : Serve(q)

----------------------------------------------------------------------------
(* Properties *)

ReviewTypeOK ==
  /\ desk \in [running : SUBSET Items, open : SUBSET Items, ended : SUBSET Items,
               holder : [Items -> People \cup {None}]]
  /\ list \in [items : SUBSET Items, mine : SUBSET Items, taken : SUBSET Items]
  /\ focus \in [on : BOOLEAN, at : -1..Cardinality(Items)]
  /\ dialogs \in [Dialogs -> Items \cup {None}]
  /\ posts \subseteq [op : Operations, item : Items]
  /\ held \subseteq Items

(* A reviewer sends a decision, a hold or a release only for an item that  *)
(* was theirs at some time: neither a list that changes under focus mode   *)
(* nor a dialog left open reaches a cheque the reviewer never held.        *)
OnlyHeldItems ==
  \A q \in posts : q.op # "claim" => q.item \in held

(* Again and again the list is rid of every cheque whose review has ended, *)
(* whatever the reviewer does, as long as it is asked for and answered.    *)
EndedLeaveList == []<>(desk.ended \cap list.items = {})
===========================================================================
