--------------------------- MODULE OutwardStage ---------------------------
(***************************************************************************)
(* How a decision on one outward cheque is made by two people.  There is   *)
(* no workflow behind it: the maker's decision is a row of the table       *)
(* outward_review_stage, the checker's request or a timer that runs in     *)
(* every API process makes the row final and then puts the decision into   *)
(* effect, and a Redis claim keeps two reviewers off the same cheque.  A   *)
(* request is a sequence of Redis and database calls, each a step here.    *)
(***************************************************************************)
EXTENDS Naturals, FiniteSets

CONSTANTS
  Staff,        \* reviewers
  System,       \* who a decision is filed by when no checker came in time
  Actions,      \* CONFIRMED and REJECTED
  None,
  Handlers,     \* requests the API processes can work on at the same time
  Timers,       \* the API processes' sweeps
  MaxTrouble,   \* bound on reads of the configuration that fail
  MaxFaults     \* bound on crashes and on filings whose update fails

ASSUME StaffAssumption == System \notin Staff /\ None \notin Staff \cup {System}
ASSUME ActionsAssumption == None \notin Actions
ASSUME ProcessAssumption == Handlers \cap Timers = {} /\ IsFiniteSet(Handlers \cup Timers)
ASSUME BoundsAssumption == MaxTrouble \in Nat /\ MaxFaults \in Nat

VARIABLES
  stage,     \* the cheque's row of cts.outward_review_stage
  overdue,   \* the row has waited checker_review_timeout_minutes, or the cut-off is near
  claim,     \* the value of the Redis key lock:cts:{instrument_id}
  filed,     \* how often a decision was put into effect, the last one, and whose it was
  request,   \* what each request and each sweep does next
  trouble,   \* reads of the configuration that failed so far
  faults     \* crashes and failed updates so far

vars == <<stage, overdue, claim, filed, request, trouble, faults>>

Processes == Handlers \cup Timers
Anyone    == Staff \cup {System}
NoRow     == [status |-> "none", maker |-> None, action |-> None, checker |-> None]
Unfiled   == [times |-> 0, by |-> None, action |-> None]
Idle      == [step |-> "idle", who |-> None, action |-> None]
Steps     == {"idle", "stage", "claim", "final", "file", "release"}

Init ==
  /\ stage = NoRow /\ overdue = FALSE
  /\ claim = None
  /\ filed = Unfiled
  /\ request = [p \in Processes |-> Idle]
  /\ trouble = 0 /\ faults = 0

Begin(p, step, r, a) ==
  /\ request[p] = Idle
  /\ request' = [request EXCEPT ![p] = [step |-> step, who |-> r, action |-> a]]

At(p, step)   == request[p].step = step
Then(p, step) == request' = [request EXCEPT ![p].step = step]
Ends(p)       == request' = [request EXCEPT ![p] = Idle]

----------------------------------------------------------------------------
(* The maker's request *)

(* _take_or_check_claim: take the item if nobody has it.                   *)
MayClaim(r) == claim \in {None, r}

(* _cts_config answers with no settings at all when it cannot read them,   *)
(* and without settings maker-checker counts as off.                       *)
ConfigFails == trouble < MaxTrouble /\ trouble' = trouble + 1

BeginDecide(p, r, a) ==
  /\ p \in Handlers
  /\ MayClaim(r) /\ claim' = r
  /\ \/ Begin(p, "stage", r, a) /\ UNCHANGED trouble
     \/ Begin(p, "file", r, a) /\ ConfigFails
  /\ UNCHANGED <<stage, overdue, filed, faults>>

(* Seeded bug: a second maker's decision replaces the row.                 *)
StageAgain(p) ==
  /\ At(p, "stage")
  /\ stage' = [status |-> "MAKER_DECIDED", maker |-> request[p].who,
               action |-> request[p].action, checker |-> None]
  /\ Then(p, "release")
  /\ UNCHANGED <<overdue, claim, filed, trouble, faults>>

(* The row is written unless the cheque has one; then the request is       *)
(* refused and its claim stays until it lapses.                            *)
Stage(p) ==
  /\ At(p, "stage")
  /\ IF stage = NoRow
       THEN /\ stage' = [status |-> "MAKER_DECIDED", maker |-> request[p].who,
                         action |-> request[p].action, checker |-> None]
            /\ Then(p, "release")
       ELSE Ends(p) /\ UNCHANGED stage
  /\ UNCHANGED <<overdue, claim, filed, trouble, faults>>

----------------------------------------------------------------------------
(* The checker's request *)

(* Seeded bug: the maker may check, too.                                   *)
AnyoneValidates(p, r, a) ==
  /\ p \in Handlers
  /\ stage.status = "MAKER_DECIDED"
  /\ Begin(p, "claim", r, a)
  /\ UNCHANGED <<stage, overdue, claim, filed, trouble, faults>>

(* Refused when the configuration cannot be read, when the cheque does not *)
(* wait for a checker and when its maker asks.                             *)
BeginValidate(p, r, a) ==
  /\ p \in Handlers
  /\ stage.status = "MAKER_DECIDED" /\ stage.maker # r
  /\ Begin(p, "claim", r, a)
  /\ UNCHANGED <<stage, overdue, claim, filed, trouble, faults>>

Claim(p) ==
  /\ At(p, "claim")
  /\ IF MayClaim(request[p].who)
       THEN claim' = request[p].who /\ Then(p, "final")
       ELSE Ends(p) /\ UNCHANGED claim
  /\ UNCHANGED <<stage, overdue, filed, trouble, faults>>

(* Seeded bug: the update is not conditional.                              *)
FinalAlways(p) ==
  /\ At(p, "final")
  /\ stage' = [stage EXCEPT !.status = "FINAL", !.checker = request[p].who]
  /\ Then(p, "file")
  /\ UNCHANGED <<overdue, claim, filed, trouble, faults>>

(* The conditional update that one checker or one sweep wins.              *)
Final(p) ==
  /\ At(p, "final")
  /\ IF stage.status = "MAKER_DECIDED"
       THEN /\ stage' = [stage EXCEPT !.status = "FINAL", !.checker = request[p].who]
            /\ Then(p, "file")
       ELSE Ends(p) /\ UNCHANGED stage
  /\ UNCHANGED <<overdue, claim, filed, trouble, faults>>

(* _file_outward_decision: a failed update is logged, and the request goes *)
(* on as if the decision were in effect.                                   *)
File(p) ==
  /\ At(p, "file") /\ Then(p, "release")
  /\ \/ /\ filed' = [times |-> filed.times + 1, by |-> request[p].who,
                     action |-> request[p].action]
        /\ UNCHANGED faults
     \/ faults < MaxFaults /\ faults' = faults + 1 /\ UNCHANGED filed
  /\ UNCHANGED <<stage, overdue, claim, trouble>>

Release(p) ==
  /\ At(p, "release") /\ Ends(p)
  /\ claim' = IF claim = request[p].who THEN None ELSE claim
  /\ UNCHANGED <<stage, overdue, filed, trouble, faults>>

----------------------------------------------------------------------------
(* Time *)

(* Seeded bug: nothing is overdue but what a checker has claimed.          *)
SweepUnclaimed(p) ==
  /\ p \in Timers
  /\ stage.status = "MAKER_DECIDED" /\ overdue /\ claim = None
  /\ Begin(p, "final", System, stage.action)
  /\ UNCHANGED <<stage, overdue, claim, filed, trouble, faults>>

(* The sweep of the list of waiting rows: every minute, in every process,  *)
(* and whenever somebody reads the validation queue.                       *)
BeginSweep(p) ==
  /\ p \in Timers
  /\ stage.status = "MAKER_DECIDED" /\ overdue
  /\ Begin(p, "final", System, stage.action)
  /\ UNCHANGED <<stage, overdue, claim, filed, trouble, faults>>

Age ==
  /\ stage.status = "MAKER_DECIDED" /\ ~overdue /\ overdue' = TRUE
  /\ UNCHANGED <<stage, claim, filed, request, trouble, faults>>

(* A claim ends by its time to live, or because its owner gives it up.     *)
Lapse ==
  /\ claim # None /\ claim' = None
  /\ UNCHANGED <<stage, overdue, filed, request, trouble, faults>>

(* The process that works on a request dies.                               *)
Crash(p) ==
  /\ request[p] # Idle /\ faults < MaxFaults
  /\ faults' = faults + 1 /\ Ends(p)
  /\ UNCHANGED <<stage, overdue, claim, filed, trouble>>

----------------------------------------------------------------------------
Proceed(p) == Stage(p) \/ Claim(p) \/ Final(p) \/ File(p) \/ Release(p)

Next ==
  \/ \E p \in Processes, r \in Staff, a \in Actions : BeginDecide(p, r, a) \/ BeginValidate(p, r, a)
  \/ \E p \in Processes : Proceed(p) \/ BeginSweep(p) \/ Crash(p)
  \/ Age \/ Lapse

(* A request that began goes on; minutes pass; every process sweeps.       *)
Fairness ==
  /\ WF_vars(Age)
  /\ \A p \in Processes : WF_vars(Proceed(p)) /\ WF_vars(BeginSweep(p))

Spec == Init /\ [][Next]_vars /\ Fairness

----------------------------------------------------------------------------
(* Properties *)

TypeOK ==
  /\ stage \in [status : {"none", "MAKER_DECIDED", "FINAL"}, maker : Staff \cup {None},
                action : Actions \cup {None}, checker : Anyone \cup {None}]
  /\ overdue \in BOOLEAN
  /\ claim \in Anyone \cup {None}
  /\ filed \in [times : 0..(1 + MaxTrouble), by : Anyone \cup {None}, action : Actions \cup {None}]
  /\ request \in [Processes -> [step : Steps, who : Anyone \cup {None},
                                action : Actions \cup {None}]]
  /\ trouble \in 0..MaxTrouble /\ faults \in 0..MaxFaults

(* A checker and the timeout, two checkers, or two sweeps never both put a *)
(* decision on the cheque into effect.                                     *)
FiledOnce == trouble = 0 => filed.times <= 1

(* A decision in effect had two people behind it: the one who made the row *)
(* final is the one who filed, is not the maker, and, if it was the        *)
(* timeout, filed what the maker said.                                     *)
FiledByChecker ==
  trouble = 0 /\ filed.times > 0 =>
    /\ stage.status = "FINAL" /\ filed.by = stage.checker
    /\ filed.by # stage.maker
    /\ filed.by = System => filed.action = stage.action

(* While the configuration can be read, one decision comes into effect,    *)
(* once, and two people are behind it, however requests and the sweeps of  *)
(* the API processes race (cts_outward_data.py).                           *)
FiledByTwo == FiledOnce /\ FiledByChecker

(* What the comment in _cts_config promises: trouble with the              *)
(* configuration does not change who can file a decision.                  *)
OnlyCheckersFile == filed.times > 0 => stage.status = "FINAL"

(* A maker's decision comes into effect, with or without a checker, as     *)
(* long as no process dies and no update fails on the way.                 *)
StagedIsFiled == stage.status = "MAKER_DECIDED" ~> filed.times > 0 \/ faults > 0

(* The row and the update it guards implement the bank's promise.          *)
Promise == INSTANCE FourEyes
             WITH word <- [by |-> stage.maker, action |-> stage.action], on <- trouble = 0
TwoPeople == Promise!Spec
===========================================================================
