----------------------------- MODULE HoldDesk -----------------------------
(***************************************************************************)
(* Holding one inward cheque: rows of cts.instrument_holds, the workflow   *)
(* that escalates a hold nobody answers, and the requests that place and   *)
(* release holds.  A hold's request writes its row and then starts the     *)
(* workflow, whose id names the cheque; a release's request closes every   *)
(* open row and then signals that workflow.  Either request is answered    *)
(* alike when it cannot reach the workflow service, or read where that is. *)
(* The workflow ends, too, when an activity fails at every attempt.        *)
(*                                                                         *)
(* The two pages that list holds build their own requests without the      *)
(* token that writes need, so they read only; releases come from clients   *)
(* of the API.                                                             *)
(***************************************************************************)
EXTENDS WebClient

CONSTANTS
  MaxHolds,    \* bound on the holds placed
  Attempts     \* of an activity (_NOTIFY_RETRY)

ASSUME MaxHoldsAssumption == MaxHolds \in Nat
ASSUME AttemptsAssumption == Attempts \in Nat \ {0}

VARIABLES
  holds,       \* the rows: how many were placed, which are open, which have an answer,
               \* and which requests named the branch's address
  placing,     \* holds whose request has yet to start the workflow
  releasing,   \* releases that have yet to signal the workflow
  escalation,  \* the workflow: running, at which checkpoint, signalled, what it is doing
               \* at which attempt, and whether it was given the branch's address
  unwatched,   \* history: holds whose workflow did not start, or gave up what failed
  late,        \* the cheque's deadline has passed
  alerts,      \* the reminders and alerts sent, with the number of the latest hold
  page         \* a page of holds: whether its last answer lists one, and a release it has sent

holdVars == <<holds, placing, releasing, escalation, unwatched, late, alerts, page>>

Numbers     == 1..MaxHolds
Checkpoints == 1..3            \* the reminder, the critical alert, the last alert
Step(r)     == escalation.at # 0 /\ escalation.step = r
Started(b)  == [at |-> 1, released |-> FALSE, step |-> "wait", tries |-> 1, mail |-> b]
Ended       == [at |-> 0, released |-> FALSE, step |-> "wait", tries |-> 1, mail |-> FALSE]

HoldInit ==
  /\ holds = [placed |-> 0, open |-> {}, answered |-> {}, mail |-> {}]
  /\ placing = {} /\ releasing = 0
  /\ escalation = Ended /\ unwatched = {}
  /\ late = FALSE
  /\ alerts = {}
  /\ page = [listed |-> FALSE, pending |-> FALSE]

----------------------------------------------------------------------------
(* Requests *)

(* Nothing is asked about earlier holds.                                   *)
place_hold ==
  /\ holds.placed < MaxHolds
  /\ LET n == holds.placed + 1 IN
     /\ \E mail \in {{n}, {}} :
          holds' = [holds EXCEPT !.placed = n, !.open = @ \cup {n}, !.mail = @ \cup mail]
     /\ placing' = placing \cup {n}
  /\ UNCHANGED <<releasing, escalation, unwatched, late, alerts, page>>

(* A workflow of this id that still runs stands; none is started then.     *)
StartEscalation(n) ==
  /\ n \in placing
  /\ placing' = placing \ {n}
  /\ escalation' = IF escalation.at # 0 THEN escalation
                   ELSE Started(n \in holds.mail)
  /\ UNCHANGED <<holds, releasing, unwatched, late, alerts, page>>

(* The row is there; the notice to the branch fails and with it the        *)
(* request, or the address of the workflow service is not configured or    *)
(* the service out of reach: that is logged, and answered as placed.       *)
StartFails(n) ==
  /\ n \in placing
  /\ placing' = placing \ {n} /\ unwatched' = unwatched \cup {n}
  /\ UNCHANGED <<holds, releasing, escalation, late, alerts, page>>

release_hold ==
  /\ holds.open # {}                    \* otherwise 404
  /\ holds' = [holds EXCEPT !.open = {}]
  /\ releasing' = 1
  /\ UNCHANGED <<placing, escalation, unwatched, late, alerts, page>>

(* A workflow that is not there is no error.                               *)
SignalReleased ==
  /\ releasing = 1 /\ releasing' = 0
  /\ escalation' = IF escalation.at # 0 THEN [escalation EXCEPT !.released = TRUE]
                   ELSE escalation
  /\ UNCHANGED <<holds, placing, unwatched, late, alerts, page>>

SignalFails ==
  /\ releasing = 1 /\ releasing' = 0
  /\ UNCHANGED <<holds, placing, escalation, unwatched, late, alerts, page>>

(* The branch's recommendation goes into every open row.                   *)
submit_hold_recommendation ==
  /\ holds.open # {}
  /\ holds' = [holds EXCEPT !.answered = @ \cup holds.open]
  /\ UNCHANGED <<placing, releasing, escalation, unwatched, late, alerts, page>>

----------------------------------------------------------------------------
(* HoldEscalationWorkflow *)

(* A wait ends by the signal or by its time; the workflow ends if it was   *)
(* signalled while it waited.  A wait whose time had passed before it      *)
(* began is skipped, and with it, after the first, the look at the signal. *)
(* Past the deadline only the reminder is still sent.                      *)
Onward(e) == IF e.at = 3 THEN Ended ELSE [e EXCEPT !.at = @ + 1, !.step = "wait", !.tries = 1]

(* Seeded bug: past the deadline nothing is sent any more.                 *)
WakeInTime ==
  /\ Step("wait")
  /\ \/ escalation.released /\ escalation' = Ended
     \/ /\ ~escalation.released \/ escalation.at # 1
        /\ escalation' = IF late THEN Onward(escalation)
                         ELSE [escalation EXCEPT !.step = "look"]
  /\ UNCHANGED <<holds, placing, releasing, unwatched, late, alerts, page>>

Wake ==
  /\ Step("wait")
  /\ \/ escalation.released /\ escalation' = Ended
     \/ /\ ~escalation.released \/ escalation.at # 1
        /\ escalation' = IF late /\ escalation.at # 1 THEN Onward(escalation)
                         ELSE [escalation EXCEPT !.step = "look"]
  /\ UNCHANGED <<holds, placing, releasing, unwatched, late, alerts, page>>

(* The activity reads the latest row and does nothing if it was released;  *)
(* the reminder is not sent either when the branch has answered.           *)
Latest == holds.placed
Alive  == /\ Latest \in holds.open
          /\ escalation.at = 1 => Latest \notin holds.answered

Look ==
  /\ Step("look")
  /\ escalation' = IF Alive THEN [escalation EXCEPT !.step = "send"] ELSE Onward(escalation)
  /\ UNCHANGED <<holds, placing, releasing, unwatched, late, alerts, page>>

(* The reminder goes to the branch, if the hold's request named it.  The   *)
(* alerts go to the manager, whom place_hold never names.                  *)
Told == IF escalation.at = 1 /\ escalation.mail THEN alerts \cup {<<Latest, escalation.at>>}
        ELSE alerts

Send ==
  /\ Step("send") /\ escalation.at # 2
  /\ alerts' = Told
  /\ escalation' = Onward(escalation)
  /\ UNCHANGED <<holds, placing, releasing, unwatched, late, page>>

(* An attempt that fails begins again with the look, and the last one ends *)
(* the workflow, at whichever checkpoint that is.                          *)
Again == IF escalation.tries < Attempts
         THEN [escalation EXCEPT !.step = "look", !.tries = @ + 1] ELSE Ended

(* The critical alert has sent what it can when it asks the configuration  *)
(* for a telephone number, with a parameter that get does not have.        *)
CriticalRaises ==
  /\ Step("send") /\ escalation.at = 2
  /\ alerts' = Told
  /\ escalation' = Again
  /\ UNCHANGED <<holds, placing, releasing, unwatched, late, page>>

(* The database, the configuration or the dispatcher fails, or its answer  *)
(* is lost.                                                                *)
ActivityFails ==
  /\ Step("look") \/ Step("send")
  /\ alerts' \in IF Step("send") THEN {alerts, Told} ELSE {alerts}
  /\ escalation' = Again
  /\ unwatched' = IF Again = Ended THEN unwatched \cup {Latest} ELSE unwatched
  /\ UNCHANGED <<holds, placing, releasing, late, page>>

Deadline ==
  /\ ~late /\ late' = TRUE
  /\ UNCHANGED <<holds, placing, releasing, escalation, unwatched, alerts, page>>

----------------------------------------------------------------------------
(* The pages: every 15 and 20 seconds.  Their own writes are refused.      *)

HoldPage == [sendsToken |-> FALSE]
PageWorks == UNCHANGED <<placing, escalation, unwatched, late, alerts>>

fetchHolds ==
  /\ page' = [page EXCEPT !.listed = holds.open # {}]
  /\ PageWorks /\ UNCHANGED <<holds, releasing>>

(* The buttons of the row it is for do nothing until the answer is there.  *)
releaseMutation ==
  /\ page.listed /\ ~page.pending
  /\ page' = [page EXCEPT !.pending = TRUE]
  /\ PageWorks /\ UNCHANGED <<holds, releasing>>

(* token is the one the sign-in stored in this tab.                        *)
AnswerRelease(token) ==
  /\ page.pending
  /\ page' = [page EXCEPT !.pending = FALSE]
  /\ IF Admits(token, csrfHeader(HoldPage, token)) /\ holds.open # {}
       THEN holds' = [holds EXCEPT !.open = {}] /\ releasing' = 1
       ELSE UNCHANGED <<holds, releasing>>
  /\ PageWorks

----------------------------------------------------------------------------
Starts(n) == StartEscalation(n) \/ StartFails(n)
Signals   == SignalReleased \/ SignalFails
Workflow  == Wake \/ Look \/ Send \/ CriticalRaises \/ ActivityFails
Requests  == Signals \/ \E n \in Numbers : Starts(n)

HoldNext ==
  \/ place_hold \/ release_hold \/ submit_hold_recommendation
  \/ Requests \/ Workflow \/ Deadline
  \/ fetchHolds \/ releaseMutation \/ AnswerRelease(Me)

----------------------------------------------------------------------------
(* Properties *)

HoldTypeOK ==
  /\ holds \in [placed : 0..MaxHolds, open : SUBSET Numbers, answered : SUBSET Numbers,
               mail : SUBSET Numbers]
  /\ holds.open \subseteq 1..holds.placed
  /\ placing \subseteq Numbers /\ releasing \in {0, 1}
  /\ escalation \in [at : {0} \cup Checkpoints, released : BOOLEAN,
                     step : {"wait", "look", "send"}, tries : 1..Attempts, mail : BOOLEAN]
  /\ unwatched \subseteq Numbers
  /\ late \in BOOLEAN
  /\ alerts \subseteq Numbers \X Checkpoints
  /\ page \in [listed : BOOLEAN, pending : BOOLEAN]

(* The branch named by a cheque's only hold is reminded, before or after   *)
(* the deadline, unless it answered, the hold is released or repeated, or  *)
(* the workflow did not start or failed.                                   *)
OnlyHoldIsReminded ==
  holds.placed = 1 /\ holds.open = {1} /\ 1 \in holds.mail ~>
    \/ <<1, 1>> \in alerts \/ 1 \in holds.answered \/ 1 \in unwatched
    \/ holds.placed > 1 \/ holds.open = {}

(* The workflow says of itself that it exits when released or when all of  *)
(* its checkpoints have fired.  TLC refutes it, with nothing failing under *)
(* the workflow: the critical alert ends it.                               *)
LastAlertIsSent ==
  holds.placed = 1 /\ holds.open = {1} ~>
    \/ <<1, 3>> \in alerts \/ 1 \in unwatched \/ late
    \/ holds.placed > 1 \/ holds.open = {}
===========================================================================
