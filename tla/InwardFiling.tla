--------------------------- MODULE InwardFiling ---------------------------
(***************************************************************************)
(* How one inward (drawee side) cheque gets its decision filed with the    *)
(* clearing house.  Three Temporal workflows can file it, and all of them  *)
(* do so with the same idempotency key:                                    *)
(*                                                                         *)
(*   "pipeline"  ChequeProcessingWorkflow, the AI pipeline;                *)
(*   "review"    HumanReviewWorkflow, started by the pipeline when a       *)
(*               person must decide, or may overrule the system;           *)
(*   "watchdog"  IETWatchdogWorkflow, started before anything else, which  *)
(*               files by itself shortly before the IET deadline.          *)
(*                                                                         *)
(* The clearing house (NGCH), the Immudb audit trail and the reviewers are *)
(* the environment.  One tick of the clock is a minute.                    *)
(***************************************************************************)
EXTENDS Naturals, FiniteSets

CONSTANTS
  None,             \* nothing filed, signalled or decided yet
  MaxAttempts,      \* maximum_attempts of _NGCH_FILING_RETRY
  Deadline,         \* iet_deadline of the cheque
  EmergencyAt,      \* the instant T-30s
  Guard,            \* sip_iet_guard_minutes
  SipTimeout,       \* sip_review_timeout_minutes
  CheckerTimeout,   \* checker_review_timeout_minutes
  ReviewTimeouts    \* review_timeout_minutes the exits of the pipeline use

Decisions == {"CONFIRM", "RETURN"}

ASSUME NoneIsNoDecision == None \notin Decisions
ASSUME AttemptsAssumption == MaxAttempts \in Nat \ {0}
ASSUME ClockAssumption ==
  /\ Deadline \in Nat /\ EmergencyAt \in 0..Deadline /\ Guard \in Nat
  /\ SipTimeout \in Nat \ {0} /\ CheckerTimeout \in Nat \ {0}
  /\ ReviewTimeouts \subseteq Nat \ {0}

VARIABLES
  now,            \* the clock; it stops at the deadline, past which nothing reads it
  pc,             \* where each of the three workflows stands
  verdict,        \* what the pipeline passed to finalise
  files,          \* the decision each workflow files or filed
  tries,          \* failed attempts of each workflow's file_to_ngch activity
  duplicate,      \* the workflow's filing ended in DuplicateFilingError
  lastKnown,      \* IETWatchdogWorkflow._last_known_decision
  parentFiled,    \* IETWatchdogWorkflow._parent_filed
  emergencyTold,  \* ChequeProcessingWorkflow._iet_emergency_decision
  review,         \* HumanReviewInput and the signals received so far
  ngch,           \* the decision the clearing house holds
  audit           \* events in the audit trail

vars == <<now, pc, verdict, files, tries, duplicate, lastKnown, parentFiled,
          emergencyTold, review, ngch, audit>>

Actors == {"pipeline", "review", "watchdog"}
Maybe  == Decisions \cup {None}

Verdicts == {"STP_CONFIRM", "STP_RETURN", "HUMAN_REVIEW"}
Straight == {"STP_CONFIRM", "STP_RETURN"}
Decision(v) == IF v = "STP_CONFIRM" THEN "CONFIRM" ELSE "RETURN"

PipelineStages == {"running", "settling", "holding", "heldAudit", "handover", "filing",
                   "filed", "audit", "done", "emergency", "failed"}
ReviewStages   == {"none", "queue", "waiting", "maker", "checking", "deciding", "filing",
                   "filed", "audit", "done", "failed"}
WatchdogStages == {"waiting", "filing", "filed", "notify", "alarm", "fired", "safe",
                   "failed"}
Stages == [Actors -> PipelineStages \cup ReviewStages \cup WatchdogStages]

Reviews == [system : Maybe, makerChecker : BOOLEAN, timeout : Nat, left : Nat,
            queued : BOOLEAN, decision : Maybe, maker : Maybe, checker : Maybe]

Closed == {"done", "emergency", "failed", "fired", "safe"}
Running(a) == pc[a] \notin Closed \cup {"none"}

Events == [event : {"QUEUED", "FILED", "REVIEWED", "FIRED", "FIRE_FAILED"},
           decision : Maybe, viaWatchdog : BOOLEAN]
Event(e, d, w) == [event |-> e, decision |-> d, viaWatchdog |-> w]

Min2(a, b) == IF a <= b THEN a ELSE b
Max2(a, b) == IF a >= b THEN a ELSE b

Init ==
  /\ now = 0
  /\ pc = [a \in Actors |-> CASE a = "pipeline" -> "running"
                            [] a = "review"   -> "none"
                            [] OTHER          -> "waiting"]
  /\ verdict = None
  /\ files = [a \in Actors |-> None]
  /\ tries = [a \in Actors |-> 0]
  /\ duplicate = [a \in Actors |-> FALSE]
  /\ lastKnown = None /\ parentFiled = FALSE /\ emergencyTold = None
  /\ review = [system |-> None, makerChecker |-> FALSE, timeout |-> 0, left |-> 0,
               queued |-> FALSE, decision |-> None, maker |-> None, checker |-> None]
  /\ ngch = None
  /\ audit = {}

(* A minute passes: the clock moves, and so does the review's timer.       *)
Tick ==
  /\ now' = Min2(now + 1, Deadline)
  /\ review' = [review EXCEPT !.left = IF @ > 0 THEN @ - 1 ELSE 0]
  /\ UNCHANGED <<pc, verdict, files, tries, duplicate, lastKnown, parentFiled,
                 emergencyTold, ngch, audit>>

Goto(a, stage) == pc' = [pc EXCEPT ![a] = stage]

(* The signal decision_ready: it fails, and its sender goes on, when the   *)
(* watchdog has closed.                                                    *)
Inform(d) == lastKnown' = IF Running("watchdog") THEN d ELSE lastKnown

----------------------------------------------------------------------------
(* The pipeline *)

(* One of the pipeline's many exits calls finalise.  The emergency flag is *)
(* looked at here and nowhere else.                                        *)
Finalise(v) ==
  /\ pc["pipeline"] = "running"
  /\ verdict' = v
  /\ Goto("pipeline", IF emergencyTold # None THEN "emergency" ELSE "settling")
  /\ UNCHANGED <<now, files, tries, duplicate, lastKnown, parentFiled,
                 emergencyTold, review, ngch, audit>>

(* An activity that nobody catches runs out of retries.                    *)
PipelineFails ==
  /\ pc["pipeline"] = "running"
  /\ Goto("pipeline", "failed")
  /\ UNCHANGED <<now, verdict, files, tries, duplicate, lastKnown, parentFiled,
                 emergencyTold, review, ngch, audit>>

(* A system decision may be held for a reviewer of a SIP bucket.  Whether  *)
(* routing is on and somebody is there is the environment's choice.        *)
HoldForSip ==
  /\ pc["pipeline"] = "settling" /\ verdict \in Straight
  /\ Deadline > now + Guard
  /\ review' = [review EXCEPT !.system = Decision(verdict),
                  !.timeout = Max2(1, Min2(SipTimeout, Deadline - (now + Guard)))]
  /\ Goto("pipeline", "holding")
  /\ UNCHANGED <<now, verdict, files, tries, duplicate, lastKnown, parentFiled,
                 emergencyTold, ngch, audit>>

SignalHeldDecision ==
  /\ pc["pipeline"] = "holding"
  /\ Inform(review.system)
  /\ Goto("pipeline", "heldAudit")
  /\ UNCHANGED <<now, verdict, files, tries, duplicate, parentFiled, emergencyTold,
                 review, ngch, audit>>

AuditHeld ==
  /\ pc["pipeline"] = "heldAudit"
  /\ audit' = audit \cup {Event("QUEUED", review.system, FALSE)}
  /\ Goto("pipeline", "handover")
  /\ UNCHANGED <<now, verdict, files, tries, duplicate, lastKnown, parentFiled,
                 emergencyTold, review, ngch>>

(* HUMAN_REVIEW: the routing is audited, then the review is started.       *)
AuditQueued ==
  /\ pc["pipeline"] = "settling" /\ verdict = "HUMAN_REVIEW"
  /\ audit' = audit \cup {Event("QUEUED", None, FALSE)}
  /\ \E m \in BOOLEAN, t \in ReviewTimeouts :
       review' = [review EXCEPT !.makerChecker = m, !.timeout = t]
  /\ Goto("pipeline", "handover")
  /\ UNCHANGED <<now, verdict, files, tries, duplicate, lastKnown, parentFiled,
                 emergencyTold, ngch>>

(* The pipeline closes; the review outlives it (ParentClosePolicy.ABANDON).*)
StartReview ==
  /\ pc["pipeline"] = "handover"
  /\ pc' = [pc EXCEPT !["pipeline"] = "done", !["review"] = "queue"]
  /\ UNCHANGED <<now, verdict, files, tries, duplicate, lastKnown, parentFiled,
                 emergencyTold, review, ngch, audit>>

(* Seeded bug: the stand-down is signalled together with the decision.     *)
SignalDecisionTooEarly ==
  /\ pc["pipeline"] = "settling" /\ verdict \in Straight
  /\ Inform(Decision(verdict)) /\ parentFiled' = TRUE
  /\ files' = [files EXCEPT !["pipeline"] = Decision(verdict)]
  /\ Goto("pipeline", "filing")
  /\ UNCHANGED <<now, verdict, tries, duplicate, emergencyTold, review, ngch, audit>>

(* Straight-through: the watchdog learns the decision before it is filed.  *)
SignalDecision ==
  /\ pc["pipeline"] = "settling" /\ verdict \in Straight
  /\ Inform(Decision(verdict))
  /\ files' = [files EXCEPT !["pipeline"] = Decision(verdict)]
  /\ Goto("pipeline", "filing")
  /\ UNCHANGED <<now, verdict, tries, duplicate, parentFiled, emergencyTold,
                 review, ngch, audit>>

----------------------------------------------------------------------------
(* file_to_ngch, as each of the three workflows calls it *)

(* Seeded bug: no idempotency key, a later filing replaces the first one.  *)
FilingAcceptedTwice(a) ==
  /\ pc[a] = "filing" /\ ngch' = files[a]
  /\ Goto(a, "filed")
  /\ UNCHANGED <<now, verdict, files, tries, duplicate, lastKnown, parentFiled,
                 emergencyTold, review, audit>>

(* NGCH takes the first decision for the idempotency key, and the decision *)
(* event is published.                                                     *)
FilingAccepted(a) ==
  /\ pc[a] = "filing" /\ ngch = None
  /\ ngch' = files[a]
  /\ Goto(a, "filed")
  /\ UNCHANGED <<now, verdict, files, tries, duplicate, lastKnown, parentFiled,
                 emergencyTold, review, audit>>

(* NGCH answers 409: never retried.  The two deciding workflows go on as   *)
(* if the watchdog had filed; the watchdog closes as SAFE.                 *)
FilingDuplicate(a) ==
  /\ pc[a] = "filing" /\ ngch # None
  /\ duplicate' = [duplicate EXCEPT ![a] = TRUE]
  /\ Goto(a, IF a = "watchdog" THEN "safe" ELSE "filed")
  /\ UNCHANGED <<now, verdict, files, tries, lastKnown, parentFiled,
                 emergencyTold, review, ngch, audit>>

(* Seeded bugs: retries without a limit; the watchdog's failure is SAFE.   *)
FilingRetriedForever(a, accepted) ==
  /\ pc[a] = "filing" /\ (accepted => ngch = None)
  /\ ngch' = IF accepted THEN files[a] ELSE ngch
  /\ tries' = [tries EXCEPT ![a] = @ + 1]
  /\ UNCHANGED <<now, pc, verdict, files, duplicate, lastKnown, parentFiled,
                 emergencyTold, review, audit>>
FilingFailureIsSafe(a, accepted) ==
  /\ pc[a] = "filing" /\ (accepted => ngch = None)
  /\ ngch' = IF accepted THEN files[a] ELSE ngch
  /\ tries' = [tries EXCEPT ![a] = @ + 1]
  /\ Goto(a, IF tries[a] + 1 < MaxAttempts THEN "filing"
             ELSE IF a = "watchdog" THEN "safe" ELSE "failed")
  /\ UNCHANGED <<now, verdict, files, duplicate, lastKnown, parentFiled,
                 emergencyTold, review, audit>>

(* The attempt fails: NGCH is away, or it took the decision (accepted) but *)
(* the answer is lost or the decision event cannot be published.           *)
FilingAttemptFails(a, accepted) ==
  /\ pc[a] = "filing" /\ (accepted => ngch = None)
  /\ ngch' = IF accepted THEN files[a] ELSE ngch
  /\ tries' = [tries EXCEPT ![a] = @ + 1]
  /\ Goto(a, IF tries[a] + 1 < MaxAttempts THEN "filing"
             ELSE IF a = "watchdog" THEN "alarm" ELSE "failed")
  /\ UNCHANGED <<now, verdict, files, duplicate, lastKnown, parentFiled,
                 emergencyTold, review, audit>>

(* filing_complete: the watchdog may stand down.                           *)
FilingComplete(a) ==
  /\ a # "watchdog" /\ pc[a] = "filed"
  /\ parentFiled' = (parentFiled \/ Running("watchdog"))
  /\ Goto(a, "audit")
  /\ UNCHANGED <<now, verdict, files, tries, duplicate, lastKnown,
                 emergencyTold, review, ngch, audit>>

(* write_audit is retried without a limit, so only its success is a step.  *)
AuditFiling(a) ==
  /\ pc[a] = "audit"
  /\ audit' = audit \cup {Event(IF a = "review" THEN "REVIEWED" ELSE "FILED",
                                files[a], duplicate[a])}
  /\ Goto(a, "done")
  /\ UNCHANGED <<now, verdict, files, tries, duplicate, lastKnown, parentFiled,
                 emergencyTold, review, ngch>>

----------------------------------------------------------------------------
(* The IET watchdog *)

WatchdogStandsDown ==
  /\ pc["watchdog"] = "waiting" /\ parentFiled
  /\ Goto("watchdog", "safe")
  /\ UNCHANGED <<now, verdict, files, tries, duplicate, lastKnown, parentFiled,
                 emergencyTold, review, ngch, audit>>

(* At T-30s it fixes what it will file: the last decision it was told, or  *)
(* CONFIRM when it was told none.                                          *)
WatchdogFires ==
  /\ pc["watchdog"] = "waiting" /\ ~parentFiled /\ now >= EmergencyAt
  /\ files' = [files EXCEPT !["watchdog"] = IF lastKnown = None THEN "CONFIRM" ELSE lastKnown]
  /\ Goto("watchdog", "filing")
  /\ UNCHANGED <<now, verdict, tries, duplicate, lastKnown, parentFiled,
                 emergencyTold, review, ngch, audit>>

AuditEmergency ==
  /\ pc["watchdog"] = "filed"
  /\ audit' = audit \cup {Event("FIRED", files["watchdog"], FALSE)}
  /\ Goto("watchdog", "notify")
  /\ UNCHANGED <<now, verdict, files, tries, duplicate, lastKnown, parentFiled,
                 emergencyTold, review, ngch>>

(* iet_emergency_filed reaches a pipeline that is still open.              *)
NotifyPipeline ==
  /\ pc["watchdog"] = "notify"
  /\ emergencyTold' = IF Running("pipeline") THEN files["watchdog"] ELSE emergencyTold
  /\ Goto("watchdog", "fired")
  /\ UNCHANGED <<now, verdict, files, tries, duplicate, lastKnown, parentFiled,
                 review, ngch, audit>>

AuditEmergencyFailed ==
  /\ pc["watchdog"] = "alarm"
  /\ audit' = audit \cup {Event("FIRE_FAILED", files["watchdog"], FALSE)}
  /\ Goto("watchdog", "failed")
  /\ UNCHANGED <<now, verdict, files, tries, duplicate, lastKnown, parentFiled,
                 emergencyTold, review, ngch>>

----------------------------------------------------------------------------
(* The human review *)

(* The queue event is published, or given up after its retries; the review *)
(* waits for a decision either way.                                        *)
PushToQueue ==
  /\ pc["review"] = "queue"
  /\ \E q \in BOOLEAN :
       review' = [review EXCEPT !.queued = q, !.left = review.timeout]
  /\ Goto("review", "waiting")
  /\ UNCHANGED <<now, verdict, files, tries, duplicate, lastKnown, parentFiled,
                 emergencyTold, ngch, audit>>

(* A reviewer's signal, from the moment the queue event is out.  A later   *)
(* one replaces an earlier one, also while a checker is being waited for.  *)
ReceiveDecision(d) ==
  /\ \/ pc["review"] = "queue"
     \/ pc["review"] \in {"waiting", "maker", "checking", "deciding"} /\ review.queued
  /\ review' = [review EXCEPT !.decision = d]
  /\ UNCHANGED <<now, pc, verdict, files, tries, duplicate, lastKnown, parentFiled,
                 emergencyTold, ngch, audit>>

MakerStage == review.makerChecker /\ review.system = None

(* The first decision becomes the maker's: the watchdog is told, and a     *)
(* checker gets the time that is left before the guard.                    *)
MakerDecides ==
  /\ pc["review"] = "waiting" /\ review.decision # None /\ MakerStage
  /\ Inform(review.decision)
  /\ LET wait == Min2(CheckerTimeout, IF Deadline > now + Guard
                                        THEN Deadline - (now + Guard) ELSE 0)
     IN  /\ review' = [review EXCEPT !.maker = review.decision, !.timeout = wait]
         /\ Goto("review", IF wait >= 1 THEN "maker" ELSE "deciding")
  /\ UNCHANGED <<now, verdict, files, tries, duplicate, parentFiled, emergencyTold,
                 ngch, audit>>

(* The checker's queue event goes out (or is given up); a checker who has   *)
(* seen it may answer before the activity is known to have ended.          *)
PushValidation ==
  /\ pc["review"] = "maker"
  /\ review' = [review EXCEPT !.left = review.timeout]
  /\ Goto("review", "checking")
  /\ UNCHANGED <<now, verdict, files, tries, duplicate, lastKnown, parentFiled,
                 emergencyTold, ngch, audit>>

ReceiveCheckerDecision(d) ==
  /\ pc["review"] \in {"maker", "checking"}
  /\ review' = [review EXCEPT !.checker = d]
  /\ UNCHANGED <<now, pc, verdict, files, tries, duplicate, lastKnown, parentFiled,
                 emergencyTold, ngch, audit>>

(* The decision the review files: the checker's, else the reviewer's, else *)
(* the system's; with none of them the cheque is returned.                 *)
Chosen == IF review.checker # None       THEN review.checker
          ELSE IF review.decision # None THEN review.decision
          ELSE IF review.system # None   THEN review.system
          ELSE "RETURN"

(* Seeded bugs: the review's decision is filed without telling the         *)
(* watchdog; the wait for a checker has no timeout.                        *)
ReviewConcludesSilently ==
  /\ \/ pc["review"] = "waiting" /\ ((review.decision # None /\ ~MakerStage) \/ review.left = 0)
     \/ pc["review"] \in {"checking", "deciding"}
  /\ files' = [files EXCEPT !["review"] = Chosen]
  /\ Goto("review", "filing")
  /\ UNCHANGED <<now, verdict, tries, duplicate, lastKnown, parentFiled, emergencyTold,
                 review, ngch, audit>>
ReviewNeedsChecker ==
  /\ \/ pc["review"] = "waiting"  /\ review.decision # None /\ ~MakerStage
     \/ pc["review"] = "waiting"  /\ review.decision = None /\ review.left = 0
     \/ pc["review"] = "checking" /\ review.checker # None
     \/ pc["review"] = "deciding"
  /\ files' = [files EXCEPT !["review"] = Chosen]
  /\ Inform(Chosen)
  /\ Goto("review", "filing")
  /\ UNCHANGED <<now, verdict, tries, duplicate, parentFiled, emergencyTold,
                 review, ngch, audit>>

ReviewConcludes ==
  /\ \/ pc["review"] = "waiting"  /\ review.decision # None /\ ~MakerStage
     \/ pc["review"] = "waiting"  /\ review.decision = None /\ review.left = 0
     \/ pc["review"] = "checking" /\ (review.checker # None \/ review.left = 0)
     \/ pc["review"] = "deciding"
  /\ files' = [files EXCEPT !["review"] = Chosen]
  /\ Inform(Chosen)
  /\ Goto("review", "filing")
  /\ UNCHANGED <<now, verdict, tries, duplicate, parentFiled, emergencyTold,
                 review, ngch, audit>>

----------------------------------------------------------------------------
Pipeline == \/ \E v \in Verdicts : Finalise(v)
            \/ PipelineFails \/ HoldForSip \/ SignalHeldDecision \/ AuditHeld
            \/ AuditQueued \/ StartReview \/ SignalDecision

Filing(a) == \/ FilingAccepted(a) \/ FilingDuplicate(a)
             \/ \E accepted \in BOOLEAN : FilingAttemptFails(a, accepted)

Watchdog == WatchdogStandsDown \/ WatchdogFires \/ AuditEmergency
            \/ NotifyPipeline \/ AuditEmergencyFailed

Reviewers == \E d \in Decisions : ReceiveDecision(d) \/ ReceiveCheckerDecision(d)

Review == PushToQueue \/ MakerDecides \/ PushValidation \/ ReviewConcludes

Next == \/ Tick \/ Pipeline \/ Watchdog \/ Reviewers \/ Review
        \/ \E a \in Actors : Filing(a) \/ FilingComplete(a) \/ AuditFiling(a)

Safety == Init /\ [][Next]_vars

(* Temporal keeps scheduling an open workflow's next step and its timers   *)
(* keep running.  Nothing is assumed of the pipeline's AI activities, of   *)
(* reviewers, or of an attempt to file other than that it ends.            *)
Fairness == /\ WF_vars(Tick)
            /\ WF_vars(Watchdog) /\ WF_vars(Review)
            /\ \A a \in Actors : WF_vars(Filing(a) \/ FilingComplete(a) \/ AuditFiling(a))

Spec == Safety /\ Fairness

----------------------------------------------------------------------------
(* Properties *)

(* The shape of the state.                                                 *)
TypeOK ==
  /\ now \in 0..Deadline
  /\ pc \in Stages
  /\ pc["pipeline"] \in PipelineStages /\ pc["review"] \in ReviewStages
  /\ pc["watchdog"] \in WatchdogStages
  /\ verdict \in Verdicts \cup {None}
  /\ files \in [Actors -> Maybe]
  /\ tries \in [Actors -> 0..MaxAttempts]
  /\ duplicate \in [Actors -> BOOLEAN]
  /\ lastKnown \in Maybe /\ parentFiled \in BOOLEAN /\ emergencyTold \in Maybe
  /\ review \in Reviews
  /\ ngch \in Maybe
  /\ audit \subseteq Events

Alarmed == \E e \in audit : e.event = "FIRE_FAILED"

(* A workflow that closed leaving the impression that the cheque is        *)
(* settled is right: the clearing house does hold a decision.  For the     *)
(* watchdog that is SAFE as well as EMERGENCY_FILED, for the pipeline the  *)
(* emergency result as well as a filing of its own.                        *)
ClosedMeansSettled ==
  \/ ngch # None
  \/ /\ pc["watchdog"] \notin {"safe", "fired"}
     /\ pc["pipeline"] # "emergency"
     /\ pc["pipeline"] = "done" => pc["review"] # "none"
     /\ pc["review"] # "done"

(* When every workflow of the cheque has closed, a decision is filed or    *)
(* the failure to file one is in the audit trail: no interleaving of       *)
(* failures and stand-downs loses a cheque in silence.                     *)
NoSilentLoss ==
  (\A a \in Actors : ~Running(a)) => (ngch # None \/ Alarmed)

(* The audit trail of a filing that did not end in a duplicate names the   *)
(* decision the clearing house holds, whichever of the three workflows     *)
(* wrote it and whatever the others tried to file.                         *)
UnflaggedAuditIsTrue ==
  \A e \in audit : (e.event \in {"FILED", "REVIEWED", "FIRED"} /\ ~e.viaWatchdog)
                     => e.decision = ngch

(* The decision signalled to the watchdog is the one in force, as long as  *)
(* the watchdog waits: the system's while a SIP item is held, the maker's  *)
(* until the review concludes, and then the one being filed.               *)
WatchdogKnowsDecision ==
  pc["watchdog"] = "waiting" =>
    /\ \A a \in {"pipeline", "review"} :
         pc[a] \in {"filing", "filed", "failed"} /\ files[a] # None => lastKnown = files[a]
    /\ review.system # None /\ pc["review"] \in {"queue", "waiting"}
         => lastKnown = review.system
    /\ pc["review"] \in {"maker", "checking", "deciding"} => lastKnown = review.maker

(* If T-30s hits while a decision is being filed, the watchdog files that  *)
(* decision and not a blind CONFIRM.                                       *)
EmergencyFilesTheRealDecision ==
  [][ \A a \in {"pipeline", "review"} :
        (pc["watchdog"] = "waiting" /\ pc'["watchdog"] = "filing" /\ pc[a] = "filing")
          => files'["watchdog"] = files[a] ]_vars

(* A cheque is settled or its loss is audited, and it is settled once.     *)
Register == INSTANCE Settlement WITH Pending <- None, outcome <- ngch, alarmed <- Alarmed
ImplementsSettlement == Register!Spec

(* A review that was started is brought to an end, reviewers or not.       *)
ReviewEnds == pc["review"] = "queue" ~> pc["review"] \in {"done", "failed"}

----------------------------------------------------------------------------
(* Statements of the code's comments that its behaviour does not bear out *)

(* iet_emergency_filed: "From now on this pipeline must neither file nor   *)
(* queue a human review for the instrument".                               *)
NeitherFilesNorQueues ==
  [][ emergencyTold # None =>
        (pc["review"] = "none" => pc'["review"] = "none") ]_vars

(* The watchdog, on a duplicate: "the filer's own write_audit call already *)
(* recorded the real decision" -- if not yet, then by the time every       *)
(* workflow has closed.                                                    *)
DuplicateIsAudited ==
  (pc["watchdog"] = "safe" /\ duplicate["watchdog"] /\ \A a \in Actors : ~Running(a))
    => \E e \in audit : e.event \in {"FILED", "REVIEWED"}
===========================================================================
