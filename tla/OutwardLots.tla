----------------------------- MODULE OutwardLots -----------------------------
(***************************************************************************)
(* How the accepted outward cheques of one branch and day reach the        *)
(* clearing house.  The scan's last activity puts a cheque into the        *)
(* branch's open lot, staff seal and endorse lots, and a clearing session  *)
(* files the endorsed ones, a workflow per lot.  Lots are rows that all of *)
(* these read and write in separate statements; nothing but the names of   *)
(* the workflows keeps two sessions apart.                                 *)
(***************************************************************************)
EXTENDS Naturals, FiniteSets

CONSTANTS
  Cheques,      \* accepted cheques
  MaxLots,      \* bound on the lots of the day
  Capacity,     \* max_instruments
  Sessions,     \* MORNING, AFTERNOON, EVENING: the types of clearing sessions
  MaxLotFaults,    \* bound on failed activities, lost answers and refusals
  MaxOrders,    \* bound on what staff ask for: seals and endorsements
  MaxLate       \* bound on cheques and endorsements that do not wait for a seal

ASSUME LotsAssumption == MaxLots \in Nat /\ Capacity \in Nat /\ Capacity > 1
ASSUME ChequesAssumption == IsFiniteSet(Cheques)
ASSUME LotBoundsAssumption == MaxLotFaults \in Nat /\ MaxOrders \in Nat /\ MaxLate \in Nat

VARIABLES
  lots,        \* cts.lots: status and instrument_count, by sequence number
  rows,        \* cts.cheque_instruments: the lot of each cheque (0: no row) and whether it is FILED
  adding,      \* for each cheque, the open lot its transaction has found
  sealing,     \* lots that a seal request has found unsealed
  endorsing,   \* lots with a running BatchEndorsementWorkflow
  sessions,    \* the ClearingSessionWorkflow of each type
  submissions, \* the NGCHSubmissionWorkflow of each lot
  ngch,        \* the cheques of each lot in the file the clearing house took
  orders,      \* seals and endorsements asked for so far
  late,        \* how often a cheque or an endorsement did not wait for the seal
  lotFaults    \* faults so far

lotVars == <<lots, rows, adding, sealing, endorsing, sessions, submissions, ngch, orders, late, lotFaults>>

Lots    == 1..MaxLots
NotMade == [status |-> "none", count |-> 0]
NoRead  == [found |-> FALSE, lot |-> 0, count |-> 0]
NotRun  == [step |-> "new", picked |-> {}, todo |-> {}, filed |-> {}, outcome |-> "none"]
NoFile  == [step |-> "idle", by |-> "none", file |-> {}, ref |-> FALSE]

LotsInit ==
  /\ lots = [l \in Lots |-> NotMade]
  /\ rows = [i \in Cheques |-> [lot |-> 0, filed |-> FALSE]]
  /\ adding = [i \in Cheques |-> NoRead]
  /\ sealing = {} /\ endorsing = {}
  /\ sessions = [t \in Sessions |-> NotRun]
  /\ submissions = [l \in Lots |-> NoFile]
  /\ ngch = [l \in Lots |-> {}]
  /\ orders = 0 /\ late = 0 /\ lotFaults = 0

Made(ls)     == {l \in Lots : ls[l].status # "none"}
OpenLots(ls) == {l \in Lots : ls[l].status = "OPEN"}
ChequesOf(l) == {i \in Cheques : rows[i].lot = l}

LotFault == lotFaults < MaxLotFaults /\ lotFaults' = lotFaults + 1
Ordered  == orders < MaxOrders /\ orders' = orders + 1
IsLate   == late < MaxLate /\ late' = late + 1

staffVars  == <<sealing, endorsing, orders>>
filingVars == <<sessions, submissions, ngch>>

----------------------------------------------------------------------------
(* A cheque joins a lot: one transaction, which ensure_open_lot begins by  *)
(* reading the open lot                                                    *)

FindsOpenLot(i) ==
  /\ rows[i].lot = 0 /\ ~adding[i].found
  /\ \/ /\ OpenLots(lots) = {}
        /\ adding' = [adding EXCEPT ![i] = [found |-> TRUE, lot |-> 0, count |-> 0]]
     \/ \E l \in OpenLots(lots) :
          adding' = [adding EXCEPT ![i] = [found |-> TRUE, lot |-> l, count |-> lots[l].count]]
  /\ UNCHANGED <<lots, rows, staffVars, filingVars, late, lotFaults>>

Joins(i, l, ls) ==
  /\ lots' = ls
  /\ rows' = [rows EXCEPT ![i].lot = l]

(* The next lot is inserted with its first cheque, unless another one has  *)
(* become the open lot: the unique index refuses a second.                 *)
OpensLot(i, ls) ==
  /\ OpenLots(ls) = {}
  /\ \E l \in Lots : /\ Made(ls) = 1..(l - 1)
                     /\ Joins(i, l, [ls EXCEPT ![l] = [status |-> "OPEN", count |-> 1]])

(* Seeded bug: off by one.                                                 *)
FullLater(count) == count >= Capacity

Full(count) == count + 1 >= Capacity

(* One more cheque in a lot; a lot that is full is sealed instead, and the *)
(* open lot, if there is one by now, is looked for again.                  *)
CountsOne(i, l, count, ls) ==
  /\ ~Full(count)
  /\ Joins(i, l, [ls EXCEPT ![l].count = count + 1])

SealsFull(l, count, ls) == [ls EXCEPT ![l] = [status |-> "SEALED", count |-> count + 1]]

JoinsFound(i, l, count) ==
  \/ CountsOne(i, l, count, lots)
  \/ /\ Full(count)
     /\ LET sealed == SealsFull(l, count, lots) IN
          \/ OpensLot(i, sealed)
          \/ \E o \in OpenLots(sealed) :
               \/ CountsOne(i, o, sealed[o].count, sealed)
               \/ Full(sealed[o].count) /\ OpensLot(i, SealsFull(o, sealed[o].count, sealed))

(* The updates name only the lot.  When it has changed since it was read   *)
(* the database aborts the transaction if it runs it as a snapshot, as     *)
(* YugabyteDB does unless told otherwise, and overwrites the change if it  *)
(* runs it as READ COMMITTED; both may happen here.                        *)
InTime(i) ==
  IF lots[adding[i].lot] = [status |-> "OPEN", count |-> adding[i].count]
    THEN UNCHANGED late ELSE IsLate

Persists(i) ==
  /\ adding[i].found
  /\ IF adding[i].lot = 0 THEN OpensLot(i, lots) /\ UNCHANGED late
     ELSE JoinsFound(i, adding[i].lot, adding[i].count) /\ InTime(i)
  /\ adding' = [adding EXCEPT ![i] = NoRead]
  /\ UNCHANGED <<staffVars, filingVars, lotFaults>>

(* A conflict, or the database is away: Temporal tries again.              *)
Aborts(i) ==
  /\ adding[i].found /\ adding' = [adding EXCEPT ![i] = NoRead]
  /\ UNCHANGED <<lots, rows, staffVars, filingVars, late, lotFaults>>

----------------------------------------------------------------------------
(* Staff seal and endorse lots                                             *)

(* seal_lot and seal_all_lots take open lots, the edge hub's SealLot every *)
(* lot that is not SEALED; the update that follows asks for nothing.       *)
FindsUnsealed(l) ==
  /\ lots[l].status \notin {"none", "SEALED"} /\ l \notin sealing
  /\ Ordered /\ sealing' = sealing \cup {l}
  /\ UNCHANGED <<lots, rows, adding, endorsing, filingVars, late, lotFaults>>

Seals(l) ==
  /\ l \in sealing /\ sealing' = sealing \ {l}
  /\ lots' = [lots EXCEPT ![l].status = "SEALED"]
  /\ UNCHANGED <<rows, adding, endorsing, filingVars, orders, late, lotFaults>>

(* Nothing asks whether the lot is sealed.  One workflow per lot runs at a *)
(* time; it may be started again when it has ended.                        *)
endorse_batch(l) ==
  /\ lots[l].status # "none" /\ l \notin endorsing
  /\ Ordered /\ endorsing' = endorsing \cup {l}
  /\ IF lots[l].status = "OPEN" THEN IsLate ELSE UNCHANGED late
  /\ UNCHANGED <<lots, rows, adding, sealing, filingVars, lotFaults>>

update_lot_status(l) ==
  /\ l \in endorsing /\ endorsing' = endorsing \ {l}
  /\ \/ lots' = [lots EXCEPT ![l].status = "ENDORSED"] /\ UNCHANGED lotFaults
     \/ lots' = [lots EXCEPT ![l].status = "ENDORSEMENT_FAILED"] /\ LotFault
     \/ UNCHANGED lots /\ LotFault
  /\ UNCHANGED <<rows, adding, sealing, filingVars, orders, late>>

----------------------------------------------------------------------------
(* A clearing session *)

Step(t, step) == sessions' = [sessions EXCEPT ![t].step = step]
ChildOf(t)    == {l \in Lots : submissions[l].step # "idle" /\ submissions[l].by = t}

(* The workflow of a date and type is started again only if it failed: one *)
(* that ended, with whatever outcome, stands.                              *)
submit_clearing_session(t) ==
  /\ sessions[t].step \in {"new", "failed"}
  /\ sessions' = [sessions EXCEPT ![t] = [NotRun EXCEPT !.step = "pick"]]
  /\ UNCHANGED <<lots, rows, adding, staffVars, submissions, ngch, late, lotFaults>>

Endorsed == {l \in Lots : lots[l].status = "ENDORSED"}

seal_all_lots(t) ==
  /\ sessions[t].step = "pick"
  /\ sessions' = [sessions EXCEPT ![t] =
       IF Endorsed = {} THEN [@ EXCEPT !.step = "done", !.outcome = "EMPTY_SESSION"]
       ELSE [@ EXCEPT !.step = "file", !.picked = Endorsed, !.todo = Endorsed]]
  /\ UNCHANGED <<lots, rows, adding, staffVars, submissions, ngch, late, lotFaults>>

(* One child after the other.  A child whose name is taken, because        *)
(* another session is filing the lot, fails the session.                   *)
StartsChild(t, l) ==
  /\ sessions[t].step = "file" /\ l \in sessions[t].todo /\ ChildOf(t) = {}
  /\ IF submissions[l].step = "idle"
       THEN /\ submissions' = [submissions EXCEPT ![l] = [NoFile EXCEPT !.step = "build", !.by = t]]
            /\ UNCHANGED sessions
       ELSE Step(t, "failed") /\ UNCHANGED submissions
  /\ UNCHANGED <<lots, rows, adding, staffVars, ngch, late, lotFaults>>

(* The file holds the cheques that are in the lot now.                     *)
build_ngch_file(l) ==
  /\ submissions[l].step = "build"
  /\ submissions' = [submissions EXCEPT ![l].step = "submit", ![l].file = ChequesOf(l)]
  /\ UNCHANGED <<lots, rows, adding, staffVars, sessions, ngch, late, lotFaults>>

(* The clearing house takes one file per lot and answers later ones with   *)
(* the reference of the first.                                             *)
Takes(l) == ngch' = IF ngch[l] = {} THEN [ngch EXCEPT ![l] = submissions[l].file] ELSE ngch

submit_to_ngch(l) ==
  /\ submissions[l].step = "submit"
  /\ \/ /\ Takes(l)
        /\ submissions' = [submissions EXCEPT ![l].step = "confirm", ![l].ref = TRUE]
        /\ UNCHANGED lotFaults
     \/ /\ Takes(l) \/ UNCHANGED ngch
        /\ submissions' = [submissions EXCEPT ![l].step = "confirm"]
        /\ LotFault
  /\ UNCHANGED <<lots, rows, adding, staffVars, sessions, late>>

Reports(l, acknowledged) ==
  LET t == submissions[l].by IN
    /\ sessions' = [sessions EXCEPT ![t].todo = @ \ {l},
                                    ![t].filed = IF acknowledged THEN @ \cup {l} ELSE @]
    /\ submissions' = [submissions EXCEPT ![l] = NoFile]

(* Seeded bug: the clearing house is asked although there is no reference  *)
(* to ask about, until it acknowledges.                                    *)
AsksUntilKnown(l) ==
  /\ submissions[l].step = "confirm" /\ submissions[l].ref
  /\ \/ Reports(l, TRUE) /\ UNCHANGED lotFaults
     \/ Reports(l, FALSE) /\ LotFault
  /\ UNCHANGED <<lots, rows, adding, staffVars, ngch, late>>

(* Seeded bug: a filing without an error counts as acknowledged.           *)
AcknowledgesUnasked(l) ==
  /\ submissions[l].step = "confirm"
  /\ \/ Reports(l, TRUE) /\ UNCHANGED lotFaults
     \/ Reports(l, FALSE) /\ LotFault
  /\ UNCHANGED <<lots, rows, adding, staffVars, ngch, late>>

(* Without a reference there is no acknowledgement, and with one it may be *)
(* refused or the question may fail.                                       *)
confirm_acknowledgement(l) ==
  /\ submissions[l].step = "confirm"
  /\ \/ Reports(l, submissions[l].ref) /\ UNCHANGED lotFaults
     \/ submissions[l].ref /\ Reports(l, FALSE) /\ LotFault
  /\ UNCHANGED <<lots, rows, adding, staffVars, ngch, late>>

FilesAll(t) ==
  /\ sessions[t].step = "file" /\ sessions[t].todo = {}
  /\ Step(t, IF sessions[t].filed = {} THEN "end" ELSE "mark")
  /\ UNCHANGED <<lots, rows, adding, staffVars, submissions, ngch, late, lotFaults>>

(* Seeded bug: the lots get the status of their cheques.                   *)
MarksLotsFiled(t) ==
  /\ sessions[t].step = "mark"
  /\ lots' = [l \in Lots |-> IF l \in sessions[t].filed
                               THEN [lots[l] EXCEPT !.status = "FILED"] ELSE lots[l]]
  /\ sessions' = [sessions EXCEPT ![t].step = "rows", ![t].todo = sessions[t].filed]
  /\ UNCHANGED <<rows, adding, staffVars, submissions, ngch, late, lotFaults>>

(* mark_lots_submitted: the lots in one statement, then the cheques lot by *)
(* lot, and nothing asks what became of them since they were picked.       *)
MarksLots(t) ==
  /\ sessions[t].step = "mark"
  /\ lots' = [l \in Lots |-> IF l \in sessions[t].filed
                               THEN [lots[l] EXCEPT !.status = "SUBMITTED"] ELSE lots[l]]
  /\ sessions' = [sessions EXCEPT ![t].step = "rows", ![t].todo = sessions[t].filed]
  /\ UNCHANGED <<rows, adding, staffVars, submissions, ngch, late, lotFaults>>

MarksCheques(t, l) ==
  /\ sessions[t].step = "rows" /\ l \in sessions[t].todo
  /\ rows' = [i \in Cheques |-> [rows[i] EXCEPT !.filed = @ \/ rows[i].lot = l]]
  /\ sessions' = [sessions EXCEPT ![t].todo = @ \ {l}]
  /\ UNCHANGED <<lots, adding, staffVars, submissions, ngch, late, lotFaults>>

MarksAll(t) ==
  /\ sessions[t].step = "rows" /\ sessions[t].todo = {} /\ Step(t, "end")
  /\ UNCHANGED <<lots, rows, adding, staffVars, submissions, ngch, late, lotFaults>>

update_session_status(t) ==
  /\ sessions[t].step = "end"
  /\ sessions' = [sessions EXCEPT ![t].step = "done",
       ![t].outcome = IF sessions[t].filed = sessions[t].picked THEN "SUBMITTED" ELSE "EXCEPTION"]
  /\ UNCHANGED <<lots, rows, adding, staffVars, submissions, ngch, late, lotFaults>>

(* An activity that fails three times fails its workflow, and a child its  *)
(* session.                                                                *)
SessionFails(t) ==
  /\ sessions[t].step \in {"pick", "mark", "rows", "end"}
  /\ LotFault /\ Step(t, "failed")
  /\ UNCHANGED <<lots, rows, adding, staffVars, submissions, ngch, late>>

SubmissionFails(l) ==
  /\ submissions[l].step # "idle"
  /\ LotFault /\ Step(submissions[l].by, "failed")
  /\ submissions' = [submissions EXCEPT ![l] = NoFile]
  /\ UNCHANGED <<lots, rows, adding, staffVars, ngch, late>>

----------------------------------------------------------------------------
Submits(l)    == build_ngch_file(l) \/ submit_to_ngch(l) \/ confirm_acknowledgement(l)
GoesOn(t)     == seal_all_lots(t) \/ FilesAll(t) \/ MarksLots(t) \/ MarksAll(t) \/ update_session_status(t)
WithLot(t, l) == StartsChild(t, l) \/ MarksCheques(t, l)

LotsNext ==
  \/ \E i \in Cheques : FindsOpenLot(i) \/ Persists(i) \/ Aborts(i)
  \/ \E l \in Lots : FindsUnsealed(l) \/ Seals(l) \/ endorse_batch(l) \/ update_lot_status(l)
  \/ \E t \in Sessions : submit_clearing_session(t) \/ GoesOn(t) \/ SessionFails(t)
  \/ \E l \in Lots : Submits(l) \/ SubmissionFails(l)
  \/ \E t \in Sessions, l \in Lots : WithLot(t, l)

(* Temporal carries every workflow on to its end.                          *)
LotsFairness ==
  /\ \A l \in Lots : WF_lotVars(Submits(l))
  /\ \A t \in Sessions : WF_lotVars(GoesOn(t) \/ \E l \in Lots : WithLot(t, l))

LotsSpec == LotsInit /\ [][LotsNext]_lotVars /\ LotsFairness

----------------------------------------------------------------------------
(* Properties *)

(* Lots, cheques, workflows and the clearing house keep their shape.       *)
LotsTypeOK ==
  /\ lots \in [Lots -> [status : {"none", "OPEN", "SEALED", "ENDORSED", "ENDORSEMENT_FAILED", "SUBMITTED"},
                        count : 0..Capacity]]
  /\ rows \in [Cheques -> [lot : Lots \cup {0}, filed : BOOLEAN]]
  /\ adding \in [Cheques -> [found : BOOLEAN, lot : Lots \cup {0}, count : 0..Capacity]]
  /\ sealing \subseteq Lots /\ endorsing \subseteq Lots
  /\ sessions \in [Sessions -> [step : {"new", "pick", "file", "mark", "rows", "end", "done", "failed"},
                                picked : SUBSET Lots, todo : SUBSET Lots, filed : SUBSET Lots,
                                outcome : {"none", "EMPTY_SESSION", "SUBMITTED", "EXCEPTION"}]]
  /\ submissions \in [Lots -> [step : {"idle", "build", "submit", "confirm"},
                               by : Sessions \cup {"none"}, file : SUBSET Cheques, ref : BOOLEAN]]
  /\ ngch \in [Lots -> SUBSET Cheques]
  /\ orders \in 0..MaxOrders /\ late \in 0..MaxLate /\ lotFaults \in 0..MaxLotFaults

(* A cheque marked FILED is in the file the clearing house has of its lot, *)
(* and a session that calls itself SUBMITTED has filed every cheque of the *)
(* lots it picked, whatever fails and whoever files, seals or endorses     *)
(* them at the same time: as long as cheques and endorsements keep to the  *)
(* order of the seal.                                                      *)
FiledIsPresented ==
  late = 0 =>
    /\ \A i \in Cheques : rows[i].filed => i \in ngch[rows[i].lot]
    /\ \A t \in Sessions : sessions[t].outcome = "SUBMITTED" =>
         \A i \in Cheques : rows[i].lot \in sessions[t].picked => rows[i].filed

(* However late cheques and endorsements are, and whichever sessions file  *)
(* which lots: no cheque is in the file the clearing house took of two     *)
(* lots, and the file a submission is about to send has only cheques that  *)
(* are in no other.                                                        *)
PresentedOnce ==
  \A k, l \in Lots : k # l => ngch[k] \cap (ngch[l] \cup submissions[l].file) = {}

(* Cheques are presented, once, and marked only if they were.              *)
PresentedRight == FiledIsPresented /\ PresentedOnce

(* A lot's count is the number of its cheques, but for a lot that was      *)
(* sealed as full, which counts the cheque that was put into the next one; *)
(* so no lot ever holds max_instruments.                                   *)
CountsCheques ==
  late = 0 => \A l \in Lots :
    LET n == Cardinality(ChequesOf(l)) IN
      /\ n < Capacity
      /\ \/ lots[l].count = n
         \/ lots[l].status # "OPEN" /\ lots[l].count = Capacity /\ n = Capacity - 1

(* A session that was started comes to an end, although sessions take the  *)
(* names of each other's filings.                                          *)
SessionEnds ==
  \A t \in Sessions : sessions[t].step = "pick" ~> sessions[t].step \in {"done", "failed"}
=============================================================================
