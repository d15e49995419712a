------------------------------ MODULE Custody ------------------------------
(***************************************************************************)
(* The paper originals of one branch's accepted cheques: handed over in    *)
(* batches, received at central storage by somebody else, kept, disposed   *)
(* of.  A request first looks at what it needs and then writes in a        *)
(* transaction; other requests come in between.  Me works on the custody   *)
(* page, which asks for its lists when it is opened and after every        *)
(* success, and everybody else uses the API.                               *)
(***************************************************************************)
EXTENDS WebClient, Sequences

CONSTANTS
  Branch,      \* the branch's staff, who hand over
  Storage,     \* central storage's staff, who receive
  Managers,    \* who may do both, and dispose of originals; Me is one
  MaxBatches   \* bound on the batches handed over

ASSUME KeepersAssumption == Me \in Managers /\ None \notin Branch \cup Storage \cup Managers
ASSUME MaxBatchesAssumption == MaxBatches \in Nat

VARIABLES
  custody,   \* cts.instrument_custody: each original's status and batch
  handover,  \* cts.custody_handovers
  history,   \* cts.custody_events, by original
  expired,   \* originals whose retention period has ended
  act,       \* each person's request
  shown,     \* the page: its lists
  picked     \* the page: the originals ticked for a handover

custodyVars == <<custody, handover, history, expired, act, shown, picked>>

Keepers  == Branch \cup Storage \cup Managers
Batches  == 1..MaxBatches
NoBatch  == [status |-> "none", by |-> None, items |-> {}, receiver |-> None]
NoAct    == [op |-> "none", step |-> "none", items |-> {}, batch |-> 0]

AtBranch == {i \in Items : custody[i].status = "AT_BRANCH"}
Stored   == {i \in Items : custody[i].status = "STORED"}
InTransit(b) == handover[b].status = "IN_TRANSIT"
Unused == {b \in Batches : \A c \in Batches : handover[c] = NoBatch <=> b <= c}

CustodyInit ==
  /\ custody = [i \in Items |-> [status |-> "AT_BRANCH", batch |-> 0]]
  /\ handover = [b \in Batches |-> NoBatch]
  /\ history = [i \in Items |-> <<>>]
  /\ expired = {}
  /\ act = [p \in Keepers |-> NoAct]
  /\ shown = [pending |-> {}, transit |-> {}, due |-> {}]
  /\ picked = {}

Record(S, event) ==
  history' = [i \in Items |-> IF i \in S THEN Append(history[i], event) ELSE history[i]]

Ask(p, op, S, b) ==
  /\ act[p] = NoAct
  /\ act' = [act EXCEPT ![p] = [op |-> op, step |-> "look", items |-> S, batch |-> b]]

Doing(p, op, step) == act[p].op = op /\ act[p].step = step
Goto(p, step)      == act' = [act EXCEPT ![p].step = step]

(* Only the page waits for its answer.                                     *)
Answer(p, step) ==
  act' = [act EXCEPT ![p] = IF p = Me THEN [NoAct EXCEPT !.op = act[p].op, !.step = step]
                            ELSE NoAct]
Turned(p) == Answer(p, "refused") /\ UNCHANGED <<custody, handover, history>>
Elsewhere          == UNCHANGED <<expired, shown, picked>>

----------------------------------------------------------------------------
(* A branch hands over a batch *)

create_handover(p) ==
  /\ Doing(p, "handover", "look")
  /\ IF act[p].items \subseteq AtBranch THEN Goto(p, "write") ELSE Answer(p, "refused")
  /\ UNCHANGED <<custody, handover, history>> /\ Elsewhere

(* The batch and a row for each of its originals: an original that has one *)
(* by now undoes them all.  Transactions that insert the same original     *)
(* wait for one another.                                                   *)
Conflicts(p) == ~(act[p].items \subseteq AtBranch)

InsertHandover(p) ==
  /\ Doing(p, "handover", "write")
  /\ IF Conflicts(p) THEN Turned(p)
     ELSE \E b \in Unused :
            /\ handover' = [handover EXCEPT ![b] = [status |-> "IN_TRANSIT", by |-> p,
                              items |-> act[p].items, receiver |-> None]]
            /\ custody' = [i \in Items |->
                 IF i \in act[p].items \cap AtBranch
                   THEN [status |-> "IN_TRANSIT", batch |-> b] ELSE custody[i]]
            /\ Record(act[p].items, "HANDED_OVER")
            /\ Answer(p, "done")
  /\ Elsewhere

----------------------------------------------------------------------------
(* Central storage receives it *)

(* Seeded bug: the sender may receive.                                     *)
AnyoneReceives(p, b) == InTransit(b)

MayReceive(p, b) == InTransit(b) /\ handover[b].by # p

(* What arrived is what the request names, or the whole batch when it      *)
(* names nothing, as the page's requests do.                               *)
receive_handover(p) ==
  /\ Doing(p, "receive", "look")
  /\ LET b == act[p].batch IN
     IF MayReceive(p, b)
       THEN \E arrived \in IF p = Me THEN {handover[b].items} ELSE SUBSET handover[b].items :
              act' = [act EXCEPT ![p].step = "write", ![p].items = arrived]
       ELSE Answer(p, "refused")
  /\ UNCHANGED <<custody, handover, history>> /\ Elsewhere

(* Seeded bug: the update does not ask for the status.                     *)
ClaimsAlways(p) == TRUE

(* The batch is claimed first: only one receiver wins.                     *)
Claims(p) == InTransit(act[p].batch)

ReceiveBatch(p) ==
  /\ Doing(p, "receive", "write")
  /\ LET b       == act[p].batch
         arrived == act[p].items
         missing == handover[b].items \ arrived
         Now(i)  == IF i \in arrived THEN "STORED" ELSE "MISSING" IN
     IF ~Claims(p) THEN Turned(p)
     ELSE /\ handover' = [handover EXCEPT
               ![b].status = IF missing = {} THEN "RECEIVED" ELSE "DISCREPANCY",
               ![b].receiver = p]
          /\ custody' = [i \in Items |->
               IF i \in handover[b].items /\ custody[i].status = "IN_TRANSIT"
                 THEN [custody[i] EXCEPT !.status = Now(i)] ELSE custody[i]]
          /\ history' = [i \in Items |->
               IF i \in arrived THEN Append(history[i], "RECEIVED")
               ELSE IF i \in missing THEN Append(history[i], "MISSING") ELSE history[i]]
          /\ Answer(p, "done")
  /\ Elsewhere

----------------------------------------------------------------------------
(* A manager disposes of an original: one conditional update.              *)
dispose(p) ==
  /\ Doing(p, "dispose", "look")
  /\ LET S == act[p].items IN
     IF ~(S \subseteq Stored \cap expired) THEN Turned(p)
     ELSE /\ custody' = [i \in Items |->
               IF i \in S THEN [custody[i] EXCEPT !.status = "DISPOSED"] ELSE custody[i]]
          /\ Record(S, "DISPOSED")
          /\ Answer(p, "done")
          /\ UNCHANGED handover
  /\ Elsewhere

(* The database fails or the process dies before the commit.               *)
Fails(p) ==
  /\ act[p].step \in {"look", "write"}
  /\ Turned(p) /\ Elsewhere

----------------------------------------------------------------------------
(* The page *)

Listed == [pending |-> AtBranch, transit |-> {b \in Batches : InTransit(b)},
           due |-> Stored \cap expired]

(* The lists are set together once each was read or could not be; that     *)
(* only some of them could is left out.                                    *)
load == shown' \in {shown, Listed}

setPicked(i) ==
  /\ i \in shown.pending
  /\ picked' = IF i \in picked THEN picked \ {i} ELSE picked \cup {i}
  /\ UNCHANGED <<custody, handover, history, expired, act, shown>>

(* Buttons are disabled while the page has a request under way.            *)
chosen == picked \cap shown.pending
Press  == UNCHANGED <<custody, handover, history, expired, shown, picked>>

handOver   == chosen # {} /\ Ask(Me, "handover", chosen, 0) /\ Press
receive(b) == b \in shown.transit /\ Ask(Me, "receive", {}, b) /\ Press
disposeOf(i) == i \in shown.due /\ Ask(Me, "dispose", {i}, 0) /\ Press

(* Success clears the ticks of a handover and loads the lists; a refusal   *)
(* only shows its message.                                                 *)
setNotice ==
  /\ act[Me].step \in {"done", "refused"}
  /\ act' = [act EXCEPT ![Me] = NoAct]
  /\ IF act[Me].step = "done" THEN load ELSE UNCHANGED shown
  /\ picked' = IF Doing(Me, "handover", "done") THEN {} ELSE picked
  /\ UNCHANGED <<custody, handover, history, expired>>

OpenPage ==
  /\ act[Me] = NoAct /\ load
  /\ picked' = {}
  /\ UNCHANGED <<custody, handover, history, expired, act>>

----------------------------------------------------------------------------
(* Everybody else, and time *)

(* Requests of those without the role for it are refused at once.          *)
OtherAsks(p) ==
  /\ \/ p \in Branch \cup Managers /\ \E S \in SUBSET Items \ {{}} : Ask(p, "handover", S, 0)
     \/ p \in Storage \cup Managers
        /\ \E b \in Batches : handover[b] # NoBatch /\ Ask(p, "receive", {}, b)
     \/ p \in Managers /\ \E i \in Items : Ask(p, "dispose", {i}, 0)
  /\ Press

RetentionEnds(i) ==
  /\ i \in Stored /\ expired' = expired \cup {i}
  /\ UNCHANGED <<custody, handover, history, act, shown, picked>>

----------------------------------------------------------------------------
CustodyNext ==
  \/ \E p \in Keepers : \/ create_handover(p) \/ InsertHandover(p) \/ receive_handover(p)
                       \/ ReceiveBatch(p) \/ dispose(p) \/ Fails(p)
  \/ \E i \in Items : setPicked(i) \/ disposeOf(i) \/ RetentionEnds(i)
  \/ \E b \in Batches : receive(b)
  \/ \E p \in Keepers \ {Me} : OtherAsks(p)
  \/ handOver \/ setNotice \/ OpenPage

CustodySpec == CustodyInit /\ [][CustodyNext]_custodyVars

----------------------------------------------------------------------------
(* Properties *)

Events == {"HANDED_OVER", "RECEIVED", "MISSING", "DISPOSED"}

CustodyTypeOK ==
  /\ custody \in [Items -> [status : {"AT_BRANCH", "IN_TRANSIT", "STORED", "MISSING", "DISPOSED"},
                            batch : {0} \cup Batches]]
  /\ handover \in [Batches -> [status : {"none", "IN_TRANSIT", "RECEIVED", "DISCREPANCY"},
                               by : Keepers \cup {None}, items : SUBSET Items,
                               receiver : Keepers \cup {None}]]
  /\ history \in [Items -> Seq(Events)]
  /\ expired \subseteq Items
  /\ act \in [Keepers -> [op : {"none", "handover", "receive", "dispose"},
                         step : {"none", "look", "write", "done", "refused"},
                         items : SUBSET Items, batch : {0} \cup Batches]]
  /\ shown \in [pending : SUBSET Items, transit : SUBSET Batches, due : SUBSET Items]
  /\ picked \subseteq Items

(* The history of an original is the one way to the place it is at: no     *)
(* race of two receivers, two senders or two managers writes a step twice  *)
(* or a step that did not happen.                                          *)
WayTo(status) ==
  CASE status = "AT_BRANCH"  -> <<>>
    [] status = "IN_TRANSIT" -> <<"HANDED_OVER">>
    [] status = "STORED"     -> <<"HANDED_OVER", "RECEIVED">>
    [] status = "MISSING"    -> <<"HANDED_OVER", "MISSING">>
    [] status = "DISPOSED"   -> <<"HANDED_OVER", "RECEIVED", "DISPOSED">>
HistoryIsTheWay == \A i \in Items : history[i] = WayTo(custody[i].status)

(* A batch is whole: what its sender named is in it and in no other batch, *)
(* it leaves transit together, and not by the hand of its sender.          *)
BatchIsWhole ==
  \A b \in Batches :
    /\ handover[b].items = {i \in Items : custody[i].batch = b}
    /\ \A i \in handover[b].items : InTransit(b) <=> custody[i].status = "IN_TRANSIT"
    /\ handover[b].receiver # None => handover[b].receiver # handover[b].by

(* Originals are kept: each where its history says, in a batch that is     *)
(* whole.                                                                  *)
OriginalsAreKept == HistoryIsTheWay /\ BatchIsWhole

(* Every step, of whichever requests, does to each original what the bank  *)
(* asks of it or leaves it alone, although a request looks and writes at   *)
(* different times and a batch moves many originals at once.               *)
BatchOf(i) == IF custody[i].batch = 0 THEN NoBatch ELSE handover[custody[i].batch]
Trail(i) == INSTANCE PaperTrail
              WITH at <- custody[i].status, trail <- history[i], due <- i \in expired,
                   sender <- BatchOf(i).by, receiver <- BatchOf(i).receiver
KeptByTwo ==
  /\ \A i \in Items : Trail(i)!Init
  /\ [][\A i \in Items : UNCHANGED Trail(i)!vars \/ Trail(i)!Next]_custodyVars
===========================================================================
