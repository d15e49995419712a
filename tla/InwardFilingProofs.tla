------------------------ MODULE InwardFilingProofs ------------------------
(* The safety of InwardFiling, for every deadline, timeout and number of   *)
(* attempts.                                                               *)
EXTENDS InwardFiling, TLAPS

(* What the type invariant needs to be inductive: a workflow that files    *)
(* knows what it files and has an attempt left, all of them to begin with; *)
(* the review runs only once the pipeline is done.                         *)
Undecided == {"running", "settling", "holding", "heldAudit", "handover",
              "none", "queue", "waiting", "maker", "checking", "deciding"}
FilingOK ==
  /\ \A a \in Actors :
       /\ pc[a] = "filing" => tries[a] < MaxAttempts /\ files[a] \in Decisions
       /\ pc[a] \in Undecided => tries[a] = 0
  /\ pc["review"] # "none" => pc["pipeline"] = "done"

IType == TypeOK /\ FilingOK

LEMMA InitType == Init => IType
<1> SUFFICES ASSUME Init PROVE IType
  OBVIOUS
<1> USE DEF Init
<1>1. pc \in Stages /\ pc["pipeline"] \in PipelineStages /\ pc["review"] \in ReviewStages
      /\ pc["watchdog"] \in WatchdogStages
  BY DEF Stages, PipelineStages, ReviewStages, WatchdogStages, Actors
<1>2. review \in Reviews
  BY DEF Reviews, Maybe
<1>3. now \in 0..Deadline /\ tries \in [Actors -> 0..MaxAttempts]
  BY ClockAssumption, AttemptsAssumption
<1>4. TypeOK
  BY <1>1, <1>2, <1>3 DEF TypeOK, Maybe, Events
<1>5. FilingOK
  BY AttemptsAssumption DEF FilingOK, Actors
<1>6. QED BY <1>4, <1>5 DEF IType

LEMMA DecisionType == \A v \in Straight : Decision(v) \in Decisions
BY DEF Decision, Decisions, Straight

LEMMA EventType ==
  ASSUME NEW e \in {"QUEUED", "FILED", "REVIEWED", "FIRED", "FIRE_FAILED"},
         NEW d \in Maybe, NEW w \in BOOLEAN
  PROVE  Event(e, d, w) \in Events
BY DEF Event, Events

LEMMA PipelineType == ASSUME IType, Pipeline PROVE IType'
<1> USE DEF IType, TypeOK, FilingOK, Undecided
<1>1. ASSUME NEW v \in Verdicts, Finalise(v) PROVE IType'
  BY <1>1 DEF Finalise, Goto, Stages, Actors, PipelineStages
<1>2. CASE PipelineFails  BY <1>2 DEF PipelineFails, Goto, Stages, Actors, PipelineStages
<1>3. CASE HoldForSip
  <2>1. review' \in Reviews
    <3>1. Max2(1, Min2(SipTimeout, Deadline - (now + Guard))) \in Nat
      BY <1>3, ClockAssumption DEF HoldForSip, Max2, Min2
    <3>2. Decision(verdict) \in Maybe
      BY <1>3, DecisionType DEF HoldForSip, Maybe
    <3>3. QED BY <1>3, <3>1, <3>2 DEF HoldForSip, Reviews
  <2>2. QED BY <1>3, <2>1 DEF HoldForSip, Goto, Stages, Actors, PipelineStages
<1>4. CASE SignalHeldDecision
  BY <1>4 DEF SignalHeldDecision, Inform, Goto, Stages, Actors, PipelineStages, Reviews
<1>5. CASE AuditHeld
  <2>1. audit' \subseteq Events
    BY <1>5, EventType, review.system \in Maybe DEF AuditHeld, Reviews
  <2>2. QED BY <1>5, <2>1 DEF AuditHeld, Goto, Stages, Actors, PipelineStages
<1>6. CASE AuditQueued
  <2>1. review' \in Reviews
    BY <1>6, ClockAssumption DEF AuditQueued, Reviews
  <2>2. audit' \subseteq Events
    BY <1>6, EventType, None \in Maybe DEF AuditQueued, Maybe
  <2>3. /\ Goto("pipeline", "handover")
        /\ UNCHANGED <<now, verdict, files, tries, duplicate, lastKnown, parentFiled,
                       emergencyTold, ngch>>
    BY <1>6 DEF AuditQueued
  <2>4. pc["pipeline"] = "settling"
    BY <1>6 DEF AuditQueued
  <2>5. QED BY <2>1, <2>2, <2>3, <2>4 DEF Goto, Stages, Actors, PipelineStages
<1>7. CASE StartReview  BY <1>7 DEF StartReview, Stages, Actors, PipelineStages, ReviewStages
<1>8. CASE SignalDecision
  <2>1. Decision(verdict) \in Decisions /\ Decision(verdict) \in Maybe
    BY <1>8, DecisionType DEF SignalDecision, Maybe
  <2>2. files' \in [Actors -> Maybe] /\ files'["pipeline"] \in Decisions /\ lastKnown' \in Maybe
    BY <1>8, <2>1 DEF SignalDecision, Inform, Actors
  <2>3. tries["pipeline"] < MaxAttempts
    BY <1>8, AttemptsAssumption DEF SignalDecision, Actors
  <2>4. QED BY <1>8, <2>2, <2>3 DEF SignalDecision, Goto, Stages, Actors, PipelineStages
<1> HIDE DEF IType
<1>9. QED BY <1>1, <1>2, <1>3, <1>4, <1>5, <1>6, <1>7, <1>8 DEF Pipeline

LEMMA FilingType ==
  ASSUME IType, NEW a \in Actors, Filing(a) \/ FilingComplete(a) \/ AuditFiling(a)
  PROVE  IType'
<1> USE DEF IType, TypeOK, FilingOK, Undecided
<1>1. CASE FilingAccepted(a)
  BY <1>1 DEF FilingAccepted, Goto, Stages, Actors, PipelineStages, ReviewStages, WatchdogStages
<1>2. CASE FilingDuplicate(a)
  BY <1>2 DEF FilingDuplicate, Goto, Stages, Actors, PipelineStages, ReviewStages, WatchdogStages
<1>3. ASSUME NEW accepted \in BOOLEAN, FilingAttemptFails(a, accepted) PROVE IType'
  <2>1. ngch' \in Maybe /\ tries' \in [Actors -> 0..MaxAttempts] /\ tries'[a] = tries[a] + 1
    <3>1. tries[a] \in Nat /\ tries[a] < MaxAttempts /\ files[a] \in Maybe
      BY <1>3 DEF FilingAttemptFails
    <3>2. tries[a] + 1 \in 0..MaxAttempts
      BY <3>1, AttemptsAssumption
    <3>3. QED BY <1>3, <3>1, <3>2 DEF FilingAttemptFails
  <2>2. CASE tries[a] + 1 < MaxAttempts
    <3>1. pc' = [pc EXCEPT ![a] = "filing"] /\ pc[a] = "filing"
      BY <1>3, <2>2 DEF FilingAttemptFails, Goto
    <3>2. pc' = pc
      BY <3>1 DEF Stages
    <3>3. QED BY <1>3, <2>1, <2>2, <3>2 DEF FilingAttemptFails
  <2>3. CASE ~(tries[a] + 1 < MaxAttempts)
    BY <1>3, <2>1, <2>3
    DEF FilingAttemptFails, Goto, Stages, Actors, PipelineStages, ReviewStages, WatchdogStages
  <2>4. QED BY <2>2, <2>3
<1>4. CASE FilingComplete(a)
  BY <1>4 DEF FilingComplete, Goto, Stages, Actors, PipelineStages, ReviewStages
<1>5. CASE AuditFiling(a)
  <2>1. audit' \subseteq Events
    BY <1>5, EventType DEF AuditFiling
  <2>2. pc' \in Stages /\ pc' = [pc EXCEPT ![a] = "done"] /\ a # "watchdog"
    BY <1>5 DEF AuditFiling, Goto, Stages, PipelineStages, WatchdogStages
  <2>3. QED BY <1>5, <2>1, <2>2 DEF AuditFiling, Actors, Stages, PipelineStages, ReviewStages
<1> HIDE DEF IType
<1>6. QED BY <1>1, <1>2, <1>3, <1>4, <1>5 DEF Filing

LEMMA WatchdogType == ASSUME IType, Watchdog PROVE IType'
<1> USE DEF IType, TypeOK, FilingOK, Undecided
<1>1. CASE WatchdogStandsDown
  BY <1>1 DEF WatchdogStandsDown, Goto, Stages, Actors, WatchdogStages
<1>2. CASE WatchdogFires
  <2>1. files' \in [Actors -> Maybe] /\ files'["watchdog"] \in Decisions
    BY <1>2 DEF WatchdogFires, Maybe, Decisions, Actors
  <2>2. tries["watchdog"] < MaxAttempts
    BY <1>2, AttemptsAssumption DEF WatchdogFires, Actors
  <2>3. QED BY <1>2, <2>1, <2>2 DEF WatchdogFires, Goto, Stages, Actors, WatchdogStages
<1>3. CASE AuditEmergency
  <2>1. audit' \subseteq Events
    BY <1>3, EventType DEF AuditEmergency, Actors
  <2>2. QED BY <1>3, <2>1 DEF AuditEmergency, Goto, Stages, Actors, WatchdogStages
<1>4. CASE NotifyPipeline
  BY <1>4 DEF NotifyPipeline, Goto, Stages, Actors, WatchdogStages
<1>5. CASE AuditEmergencyFailed
  <2>1. audit' \subseteq Events
    BY <1>5, EventType DEF AuditEmergencyFailed, Actors
  <2>2. QED BY <1>5, <2>1 DEF AuditEmergencyFailed, Goto, Stages, Actors, WatchdogStages
<1> HIDE DEF IType
<1>6. QED BY <1>1, <1>2, <1>3, <1>4, <1>5 DEF Watchdog

LEMMA ReviewType == ASSUME IType, Review \/ Reviewers \/ Tick PROVE IType'
<1> USE DEF IType, TypeOK, FilingOK, Undecided
<1>1. CASE PushToQueue
  <2>1. review' \in Reviews
    BY <1>1 DEF PushToQueue, Reviews
  <2>2. Goto("review", "waiting")
        /\ UNCHANGED <<now, verdict, files, tries, duplicate, lastKnown, parentFiled,
                       emergencyTold, ngch, audit>>
    BY <1>1 DEF PushToQueue
  <2>3. pc["review"] = "queue"
    BY <1>1 DEF PushToQueue
  <2>4. QED BY <2>1, <2>2, <2>3 DEF Goto, Stages, Actors, ReviewStages
<1>2. CASE MakerDecides
  <2> DEFINE wait == Min2(CheckerTimeout, IF Deadline > now + Guard
                                            THEN Deadline - (now + Guard) ELSE 0)
  <2>1. wait \in Nat
    BY ClockAssumption DEF Min2
  <2>2. /\ review' = [review EXCEPT !.maker = review.decision, !.timeout = wait]
        /\ Goto("review", IF wait >= 1 THEN "maker" ELSE "deciding")
        /\ pc["review"] = "waiting" /\ Inform(review.decision)
        /\ UNCHANGED <<now, verdict, files, tries, duplicate, parentFiled, emergencyTold,
                       ngch, audit>>
    BY <1>2 DEF MakerDecides
  <2> HIDE DEF wait
  <2>3. review' \in Reviews /\ lastKnown' \in Maybe
    BY <2>1, <2>2 DEF Reviews, Inform
  <2>4. QED BY <2>2, <2>3 DEF Goto, Stages, Actors, ReviewStages
<1>3. CASE PushValidation
  <2>1. review' \in Reviews
    BY <1>3 DEF PushValidation, Reviews
  <2>2. QED BY <1>3, <2>1 DEF PushValidation, Goto, Stages, Actors, ReviewStages
<1>4. CASE ReviewConcludes
  <2>1. Chosen \in Decisions /\ Chosen \in Maybe
    BY DEF Chosen, Reviews, Maybe, Decisions
  <2>2. files' \in [Actors -> Maybe] /\ files'["review"] \in Decisions /\ lastKnown' \in Maybe
    BY <1>4, <2>1 DEF ReviewConcludes, Inform, Actors
  <2>3. tries["review"] < MaxAttempts /\ pc["review"] \in Undecided
    BY <1>4, AttemptsAssumption DEF ReviewConcludes, Actors
  <2>4. QED BY <1>4, <2>2, <2>3 DEF ReviewConcludes, Goto, Stages, Actors, ReviewStages
<1>5. ASSUME NEW d \in Decisions, ReceiveDecision(d) \/ ReceiveCheckerDecision(d) PROVE IType'
  <2>1. review' \in Reviews
    BY <1>5 DEF ReceiveDecision, ReceiveCheckerDecision, Reviews, Maybe
  <2>2. QED BY <1>5, <2>1 DEF ReceiveDecision, ReceiveCheckerDecision
<1>6. CASE Tick
  <2>1. now' \in 0..Deadline
    BY <1>6, ClockAssumption DEF Tick, Min2
  <2>2. review' \in Reviews
    BY <1>6 DEF Tick, Reviews
  <2>3. QED BY <1>6, <2>1, <2>2 DEF Tick
<1> HIDE DEF IType
<1>7. QED BY <1>1, <1>2, <1>3, <1>4, <1>5, <1>6 DEF Review, Reviewers

LEMMA TypeStutter == ASSUME IType, UNCHANGED vars PROVE IType'
BY DEF vars, IType, TypeOK, FilingOK

LEMMA TypeInvariant == Safety => []IType
<1>1. IType /\ [Next]_vars => IType'
  BY PipelineType, FilingType, WatchdogType, ReviewType, TypeStutter DEF Next
<1>2. QED BY InitType, <1>1, PTL DEF Safety

(* The state always has the declared shape, and a workflow that files      *)
(* always has an attempt left: file_to_ngch is tried MaxAttempts times.    *)
THEOREM TypeCorrect == Safety => []TypeOK
BY TypeInvariant, PTL DEF IType

----------------------------------------------------------------------------
(* Who may believe that the cheque is settled: whoever was told so by a    *)
(* signal, and whoever is past its filing.                                 *)
PastFiling == {"filed", "audit", "notify", "fired", "safe", "emergency"}

SettledInv ==
  /\ parentFiled \/ emergencyTold # None => ngch # None
  /\ \A a \in Actors : pc[a] \in PastFiling => ngch # None
  /\ pc["review"] = "done" => ngch # None
  /\ pc["pipeline"] = "done" /\ pc["review"] = "none" => ngch # None
  /\ pc["watchdog"] = "failed" => Alarmed

LEMMA SettledInit == Init => SettledInv
BY DEF Init, SettledInv, PastFiling, Actors

(* The register is written once.                                           *)
LEMMA RegisterStep == ASSUME IType, Next PROVE ngch # None => ngch' = ngch
BY DEF Next, Tick, Pipeline, Finalise, PipelineFails, HoldForSip, SignalHeldDecision, AuditHeld,
       AuditQueued, StartReview, SignalDecision, Filing, FilingAccepted, FilingDuplicate,
       FilingAttemptFails, FilingComplete, AuditFiling, Watchdog, WatchdogStandsDown,
       WatchdogFires, AuditEmergency, NotifyPipeline, AuditEmergencyFailed, Reviewers,
       ReceiveDecision, ReceiveCheckerDecision, Review, PushToQueue, MakerDecides,
       PushValidation, ReviewConcludes

LEMMA SettledStep == ASSUME IType, SettledInv, [Next]_vars PROVE SettledInv'
<1> USE DEF SettledInv, PastFiling
<1>0. pc \in Stages /\ pc["review"] \in ReviewStages /\ pc["pipeline"] \in PipelineStages
      /\ \A a \in Actors : pc[a] = "filing" => files[a] # None
  BY NoneIsNoDecision DEF IType, TypeOK, FilingOK
<1>1. CASE Pipeline
  <2> USE DEF Goto, Stages, Actors, Alarmed
  <2>1. ASSUME NEW v \in Verdicts, Finalise(v) PROVE SettledInv'
    BY <1>0, <2>1 DEF Finalise
  <2>2. CASE PipelineFails       BY <1>0, <2>2 DEF PipelineFails
  <2>3. CASE HoldForSip          BY <1>0, <2>3 DEF HoldForSip
  <2>4. CASE SignalHeldDecision  BY <1>0, <2>4 DEF SignalHeldDecision
  <2>5. CASE AuditHeld           BY <1>0, <2>5 DEF AuditHeld
  <2>6. CASE AuditQueued         BY <1>0, <2>6 DEF AuditQueued
  <2>7. CASE StartReview         BY <1>0, <2>7 DEF StartReview
  <2>8. CASE SignalDecision      BY <1>0, <2>8 DEF SignalDecision
  <2> HIDE DEF SettledInv
  <2>9. QED BY <1>1, <2>1, <2>2, <2>3, <2>4, <2>5, <2>6, <2>7, <2>8 DEF Pipeline
<1>2. ASSUME NEW a \in Actors, Filing(a) \/ FilingComplete(a) \/ AuditFiling(a)
      PROVE  SettledInv'
  <2> USE DEF Goto, Stages, Actors, Alarmed
  <2>1. CASE FilingAccepted(a)   BY <1>0, <2>1 DEF FilingAccepted
  <2>2. CASE FilingDuplicate(a)  BY <1>0, <2>2 DEF FilingDuplicate
  <2>3. ASSUME NEW accepted \in BOOLEAN, FilingAttemptFails(a, accepted) PROVE SettledInv'
    BY <1>0, <2>3 DEF FilingAttemptFails
  <2>4. CASE FilingComplete(a)   BY <1>0, <2>4 DEF FilingComplete
  <2>5. CASE AuditFiling(a)      BY <1>0, <2>5 DEF AuditFiling
  <2> HIDE DEF SettledInv
  <2>6. QED BY <1>2, <2>1, <2>2, <2>3, <2>4, <2>5 DEF Filing
<1>3. CASE Watchdog
  <2> USE DEF Goto, Stages, Actors, Alarmed
  <2>1. CASE WatchdogStandsDown    BY <1>0, <2>1 DEF WatchdogStandsDown
  <2>2. CASE WatchdogFires         BY <1>0, <2>2 DEF WatchdogFires
  <2>3. CASE AuditEmergency        BY <1>0, <2>3 DEF AuditEmergency
  <2>4. CASE NotifyPipeline        BY <1>0, <2>4 DEF NotifyPipeline
  <2>5. CASE AuditEmergencyFailed
    <3>1. Alarmed'
      <4>1. Event("FIRE_FAILED", files["watchdog"], FALSE) \in audit'
        BY <2>5 DEF AuditEmergencyFailed
      <4>2. Event("FIRE_FAILED", files["watchdog"], FALSE).event = "FIRE_FAILED"
        BY DEF Event
      <4>3. QED BY <4>1, <4>2 DEF Alarmed
    <3> HIDE DEF Alarmed
    <3>2. QED BY <1>0, <2>5, <3>1 DEF AuditEmergencyFailed
  <2> HIDE DEF SettledInv
  <2>6. QED BY <1>3, <2>1, <2>2, <2>3, <2>4, <2>5 DEF Watchdog
<1>4. CASE Review \/ Reviewers \/ Tick
  <2> USE DEF Goto, Stages, Actors, Alarmed
  <2>1. CASE PushToQueue      BY <1>0, <2>1 DEF PushToQueue
  <2>2. CASE MakerDecides     BY <1>0, <2>2 DEF MakerDecides
  <2>3. CASE PushValidation   BY <1>0, <2>3 DEF PushValidation
  <2>4. CASE ReviewConcludes  BY <1>0, <2>4 DEF ReviewConcludes
  <2>5. CASE Reviewers        BY <2>5 DEF Reviewers, ReceiveDecision, ReceiveCheckerDecision
  <2>6. CASE Tick             BY <2>6 DEF Tick
  <2> HIDE DEF SettledInv
  <2>7. QED BY <1>4, <2>1, <2>2, <2>3, <2>4, <2>5, <2>6 DEF Review
<1>5. CASE UNCHANGED vars
  BY <1>5 DEF vars, Alarmed
<1> HIDE DEF SettledInv
<1>6. QED BY <1>1, <1>2, <1>3, <1>4, <1>5 DEF Next

(* An audit record of a filing that met no duplicate names what the        *)
(* register holds, because its writer's own filing put it there.           *)
FilingEvents == {"FILED", "REVIEWED", "FIRED"}

AuditInv ==
  /\ \A a \in Actors : pc[a] \in {"filed", "audit"} /\ ~duplicate[a] => ngch = files[a]
  /\ duplicate["watchdog"] => pc["watchdog"] = "safe"
  /\ \A e \in audit : e.event \in FilingEvents => ngch # None
  /\ UnflaggedAuditIsTrue

LEMMA AuditInit == Init => AuditInv
BY DEF Init, AuditInv, Actors, UnflaggedAuditIsTrue

(* Steps that write no audit record and file nothing.                      *)
LEMMA AuditUnchanged ==
  ASSUME AuditInv, audit' = audit, ngch # None => ngch' = ngch
  PROVE  /\ \A e \in audit' : e.event \in FilingEvents => ngch' # None
         /\ UnflaggedAuditIsTrue'
BY DEF AuditInv, UnflaggedAuditIsTrue, FilingEvents

LEMMA AuditStep == ASSUME IType, SettledInv, AuditInv, [Next]_vars PROVE AuditInv'
<1>0. /\ pc \in Stages /\ pc["review"] \in ReviewStages /\ pc["pipeline"] \in PipelineStages
      /\ pc["watchdog"] \in WatchdogStages
      /\ duplicate \in [Actors -> BOOLEAN] /\ files \in [Actors -> Maybe]
      /\ \A a \in Actors : pc[a] \in {"filed", "audit"} => ngch # None
  BY DEF IType, TypeOK, SettledInv, PastFiling
<1>1. ngch # None => ngch' = ngch
  BY RegisterStep DEF vars
<1> USE DEF FilingEvents
<1>2. CASE Pipeline
  <2> USE DEF Goto, Stages, Actors
  <2>1. \A a \in Actors : pc'[a] \in {"filed", "audit"} => pc[a] = pc'[a] /\ files'[a] = files[a]
    BY <1>0, <1>2
    DEF Pipeline, Finalise, PipelineFails, HoldForSip, SignalHeldDecision, AuditHeld,
        AuditQueued, StartReview, SignalDecision
  <2>2. ngch' = ngch /\ duplicate' = duplicate /\ pc'["watchdog"] = pc["watchdog"]
    BY <1>0, <1>2
    DEF Pipeline, Finalise, PipelineFails, HoldForSip, SignalHeldDecision, AuditHeld,
        AuditQueued, StartReview, SignalDecision
  <2>3. \A e \in audit' : e \in audit \/ e.event = "QUEUED"
    <3>1. audit' \in {audit, audit \cup {Event("QUEUED", review.system, FALSE)},
                     audit \cup {Event("QUEUED", None, FALSE)}}
      BY <1>2
      DEF Pipeline, Finalise, PipelineFails, HoldForSip, SignalHeldDecision, AuditHeld,
          AuditQueued, StartReview, SignalDecision
    <3>2. \A d : Event("QUEUED", d, FALSE).event = "QUEUED"
      BY DEF Event
    <3>3. QED BY <3>1, <3>2
  <2>4. QED BY <2>1, <2>2, <2>3 DEF AuditInv, UnflaggedAuditIsTrue
<1>3. ASSUME NEW a \in Actors, Filing(a) PROVE AuditInv'
  <2>0. audit' = audit /\ files' = files
    BY <1>3 DEF Filing, FilingAccepted, FilingDuplicate, FilingAttemptFails
  <2>1. /\ \A e \in audit' : e.event \in FilingEvents => ngch' # None
        /\ UnflaggedAuditIsTrue'
    BY <1>1, <2>0, AuditUnchanged
  <2>2. duplicate["watchdog"] => pc["watchdog"] # "filing"
    BY DEF AuditInv
  <2>3. /\ \A b \in Actors : pc'[b] \in {"filed", "audit"} /\ ~duplicate'[b] => ngch' = files'[b]
        /\ duplicate'["watchdog"] => pc'["watchdog"] = "safe"
    <3> USE DEF Goto, Stages, Actors
    <3>1. CASE FilingAccepted(a)   BY <1>0, <2>2, <3>1 DEF FilingAccepted, AuditInv
    <3>2. CASE FilingDuplicate(a)  BY <1>0, <3>2 DEF FilingDuplicate, AuditInv
    <3>3. ASSUME NEW accepted \in BOOLEAN, FilingAttemptFails(a, accepted)
          PROVE  /\ \A b \in Actors : pc'[b] \in {"filed", "audit"} /\ ~duplicate'[b]
                                       => ngch' = files'[b]
                 /\ duplicate'["watchdog"] => pc'["watchdog"] = "safe"
      BY <1>0, <2>2, <3>3 DEF FilingAttemptFails, AuditInv
    <3>4. QED BY <1>3, <3>1, <3>2, <3>3 DEF Filing
  <2>4. QED BY <2>1, <2>3 DEF AuditInv
<1>4. ASSUME NEW a \in Actors, FilingComplete(a) \/ AuditFiling(a) PROVE AuditInv'
  <2> USE DEF Goto, Stages, Actors
  <2>1. CASE FilingComplete(a)
    BY <1>0, <2>1 DEF FilingComplete, AuditInv, UnflaggedAuditIsTrue
  <2>2. CASE AuditFiling(a)
    <3>1. a # "watchdog" /\ pc[a] = "audit" /\ pc' = [pc EXCEPT ![a] = "done"]
      BY <1>0, <2>2 DEF AuditFiling, WatchdogStages
    <3>2. \A e \in audit' : e \in audit \/ (e.decision = files[a] /\ e.viaWatchdog = duplicate[a])
      BY <2>2 DEF AuditFiling, Event
    <3>3. QED BY <1>0, <2>2, <3>1, <3>2 DEF AuditFiling, AuditInv, UnflaggedAuditIsTrue
  <2>3. QED BY <1>4, <2>1, <2>2
<1>5. CASE Watchdog
  <2> USE DEF Goto, Stages, Actors
  <2>1. CASE WatchdogStandsDown
    BY <1>0, <2>1 DEF WatchdogStandsDown, AuditInv, UnflaggedAuditIsTrue
  <2>2. CASE WatchdogFires
    BY <1>0, <2>2 DEF WatchdogFires, AuditInv, UnflaggedAuditIsTrue
  <2>3. CASE AuditEmergency
    <3>1. \A e \in audit' : e \in audit \/ (e.decision = files["watchdog"] /\ e.viaWatchdog = FALSE)
      BY <2>3 DEF AuditEmergency, Event
    <3>2. ngch = files["watchdog"] /\ ngch # None
      BY <1>0, <2>3 DEF AuditEmergency, AuditInv
    <3>3. QED BY <1>0, <2>3, <3>1, <3>2 DEF AuditEmergency, AuditInv, UnflaggedAuditIsTrue
  <2>4. CASE NotifyPipeline
    BY <1>0, <2>4 DEF NotifyPipeline, AuditInv, UnflaggedAuditIsTrue
  <2>5. CASE AuditEmergencyFailed
    <3>1. \A e \in audit' : e \in audit \/ e.event = "FIRE_FAILED"
      BY <2>5 DEF AuditEmergencyFailed, Event
    <3>2. QED BY <1>0, <2>5, <3>1 DEF AuditEmergencyFailed, AuditInv, UnflaggedAuditIsTrue
  <2>6. QED BY <1>5, <2>1, <2>2, <2>3, <2>4, <2>5 DEF Watchdog
<1>6. CASE Review \/ Reviewers \/ Tick
  <2>1. audit' = audit /\ ngch' = ngch /\ duplicate' = duplicate /\ pc'["watchdog"] = pc["watchdog"]
        /\ \A a \in Actors : pc'[a] \in {"filed", "audit"} => pc[a] = pc'[a] /\ files'[a] = files[a]
    BY <1>0, <1>6
    DEF Review, PushToQueue, MakerDecides, PushValidation, ReviewConcludes, Reviewers,
        ReceiveDecision, ReceiveCheckerDecision, Tick, Goto, Stages, Actors
  <2>2. QED BY <2>1 DEF AuditInv, UnflaggedAuditIsTrue
<1>7. CASE UNCHANGED vars
  BY <1>7 DEF vars, AuditInv, UnflaggedAuditIsTrue
<1>8. QED BY <1>2, <1>3, <1>4, <1>5, <1>6, <1>7 DEF Next

LEMMA SafetyInvariants == Safety => [](IType /\ SettledInv /\ AuditInv)
BY TypeInvariant, SettledInit, AuditInit, SettledStep, AuditStep, PTL DEF Safety

(* Whoever closes as settled is right.                                     *)
THEOREM ClosedIsSettled == Safety => []ClosedMeansSettled
<1>1. SettledInv => ClosedMeansSettled
  BY DEF SettledInv, PastFiling, ClosedMeansSettled, Actors
<1>2. QED BY <1>1, SafetyInvariants, PTL

(* A cheque all of whose workflows have closed is filed, or its loss is    *)
(* audited: the watchdog itself closes only in one of those two ways.      *)
THEOREM NothingLostInSilence == Safety => []NoSilentLoss
<1>1. IType /\ SettledInv => NoSilentLoss
  <2> SUFFICES ASSUME IType, SettledInv, ~Running("watchdog") PROVE ngch # None \/ Alarmed
    BY DEF NoSilentLoss, Actors
  <2>1. pc["watchdog"] \in {"safe", "fired", "failed"}
    BY DEF Running, Closed, IType, TypeOK, WatchdogStages
  <2>2. QED BY <2>1 DEF SettledInv, PastFiling, Actors
<1>2. QED BY <1>1, SafetyInvariants, PTL

(* The audit trail names the filed decision.                               *)
THEOREM AuditIsTrue == Safety => []UnflaggedAuditIsTrue
<1>1. AuditInv => UnflaggedAuditIsTrue
  BY DEF AuditInv
<1>2. QED BY <1>1, SafetyInvariants, PTL

----------------------------------------------------------------------------
(* What the waiting watchdog knows.  Only one of pipeline and review can   *)
(* tell it anything, since the review starts when the pipeline is done; a  *)
(* held decision is told before the review can start.                      *)
KnowInv ==
  /\ WatchdogKnowsDecision
  /\ pc["pipeline"] = "running" => files["pipeline"] = None
  /\ pc["pipeline"] \in {"running", "settling"} => review.system = None
  /\ pc["watchdog"] = "waiting" /\ pc["pipeline"] \in {"heldAudit", "handover"}
       /\ review.system # None => lastKnown = review.system

LEMMA KnowInit == Init => KnowInv
BY DEF Init, KnowInv, WatchdogKnowsDecision, Actors

LEMMA KnowPipeline == ASSUME IType, KnowInv, Pipeline PROVE KnowInv'
<1> USE DEF KnowInv, WatchdogKnowsDecision, Goto, Stages, Actors, Inform, Running, Closed
<1>0. /\ pc \in Stages /\ files \in [Actors -> Maybe] /\ review \in Reviews
      /\ pc["review"] # "none" => pc["pipeline"] = "done"
      /\ pc["review"] \in ReviewStages
  BY DEF IType, TypeOK, FilingOK
<1>1. ASSUME NEW v \in Verdicts, Finalise(v) PROVE KnowInv'
  BY <1>0, <1>1 DEF Finalise
<1>2. CASE PipelineFails       BY <1>0, <1>2 DEF PipelineFails
<1>3. CASE HoldForSip          BY <1>0, <1>3 DEF HoldForSip
<1>4. CASE SignalHeldDecision  BY <1>0, <1>4 DEF SignalHeldDecision
<1>5. CASE AuditHeld           BY <1>0, <1>5 DEF AuditHeld
<1>6. CASE AuditQueued
  <2>1. review.system = None /\ review'.system = None /\ review'.maker = review.maker
    BY <1>0, <1>6 DEF AuditQueued, Reviews
  <2>2. /\ pc["pipeline"] = "settling" /\ Goto("pipeline", "handover")
        /\ UNCHANGED <<files, lastKnown>>
    BY <1>6 DEF AuditQueued
  <2>3. QED BY <1>0, <2>1, <2>2
<1>7. CASE StartReview         BY <1>0, <1>7 DEF StartReview
<1>8. CASE SignalDecision      BY <1>0, <1>8 DEF SignalDecision
<1> HIDE DEF KnowInv
<1>9. QED BY <1>1, <1>2, <1>3, <1>4, <1>5, <1>6, <1>7, <1>8 DEF Pipeline

LEMMA KnowReview == ASSUME IType, KnowInv, Review \/ Reviewers \/ Tick PROVE KnowInv'
<1> USE DEF KnowInv, WatchdogKnowsDecision, Goto, Stages, Actors, Inform, Running, Closed
<1>0. /\ pc \in Stages /\ files \in [Actors -> Maybe] /\ review \in Reviews
      /\ pc["review"] # "none" => pc["pipeline"] = "done"
  BY DEF IType, TypeOK, FilingOK
<1>1. CASE PushToQueue
  <2>1. review'.system = review.system /\ review'.maker = review.maker
    BY <1>0, <1>1 DEF PushToQueue, Reviews
  <2>2. QED BY <1>0, <1>1, <2>1 DEF PushToQueue
<1>2. CASE MakerDecides
  <2>1. review'.system = review.system /\ review.system = None
        /\ review'.maker = review.decision
    BY <1>0, <1>2 DEF MakerDecides, MakerStage, Reviews
  <2>2. \E s \in {"maker", "deciding"} : Goto("review", s)
    BY <1>2 DEF MakerDecides
  <2>3. pc["review"] = "waiting" /\ Inform(review.decision) /\ files' = files
    BY <1>2 DEF MakerDecides
  <2>4. QED BY <1>0, <2>1, <2>2, <2>3
<1>3. CASE PushValidation      BY <1>0, <1>3 DEF PushValidation, Reviews
<1>4. CASE ReviewConcludes     BY <1>0, <1>4 DEF ReviewConcludes
<1>5. CASE Reviewers
  BY <1>0, <1>5 DEF Reviewers, ReceiveDecision, ReceiveCheckerDecision, Reviews
<1>6. CASE Tick                BY <1>0, <1>6 DEF Tick, Reviews
<1> HIDE DEF KnowInv
<1>7. QED BY <1>1, <1>2, <1>3, <1>4, <1>5, <1>6 DEF Review

LEMMA KnowStep == ASSUME IType, KnowInv, [Next]_vars PROVE KnowInv'
<1>0. pc \in Stages /\ files \in [Actors -> Maybe]
  BY DEF IType, TypeOK
<1>1. CASE Pipeline                    BY <1>1, KnowPipeline
<1>2. CASE Review \/ Reviewers \/ Tick BY <1>2, KnowReview
<1> USE DEF KnowInv, WatchdogKnowsDecision, Goto, Stages, Actors, Inform, Running, Closed
<1>3. CASE Watchdog
  BY <1>0, <1>3
  DEF Watchdog, WatchdogStandsDown, WatchdogFires, AuditEmergency, NotifyPipeline,
      AuditEmergencyFailed
<1>4. ASSUME NEW a \in Actors, Filing(a) \/ FilingComplete(a) \/ AuditFiling(a)
      PROVE  KnowInv'
  BY <1>0, <1>4
  DEF Filing, FilingAccepted, FilingDuplicate, FilingAttemptFails, FilingComplete, AuditFiling
<1>5. CASE UNCHANGED vars              BY <1>5 DEF vars
<1> HIDE DEF KnowInv
<1>6. QED BY <1>1, <1>2, <1>3, <1>4, <1>5 DEF Next

(* As long as the watchdog waits, it knows the decision in force.          *)
THEOREM WatchdogIsInformed == Safety => []WatchdogKnowsDecision
<1>1. IType /\ KnowInv => WatchdogKnowsDecision
  BY DEF KnowInv
<1>2. QED BY KnowInit, KnowStep, SafetyInvariants, <1>1, PTL DEF Safety

(* A watchdog that fires during a filing files the same decision.          *)
THEOREM EmergencyIsNotBlind == Safety => EmergencyFilesTheRealDecision
<1> DEFINE A == \A a \in {"pipeline", "review"} :
                  (pc["watchdog"] = "waiting" /\ pc'["watchdog"] = "filing"
                     /\ pc[a] = "filing") => files'["watchdog"] = files[a]
<1>1. ASSUME IType, WatchdogKnowsDecision, [Next]_vars PROVE [A]_vars
  <2>1. SUFFICES ASSUME Next, NEW a \in {"pipeline", "review"}, pc["watchdog"] = "waiting",
                        pc'["watchdog"] = "filing", pc[a] = "filing"
                 PROVE  files'["watchdog"] = files[a]
    BY <1>1
  <2>2. pc \in Stages /\ files \in [Actors -> Maybe] /\ files[a] \in Decisions
    BY <1>1, <2>1 DEF IType, TypeOK, FilingOK, Actors
  <2>3. lastKnown = files[a] /\ lastKnown # None
    BY <1>1, <2>1, <2>2, NoneIsNoDecision DEF WatchdogKnowsDecision
  <2>4. WatchdogFires
    BY <2>1, <2>2
    DEF Next, Tick, Pipeline, Finalise, PipelineFails, HoldForSip, SignalHeldDecision,
        AuditHeld, AuditQueued, StartReview, SignalDecision, Filing, FilingAccepted,
        FilingDuplicate, FilingAttemptFails, FilingComplete, AuditFiling, Watchdog,
        WatchdogStandsDown, AuditEmergency, NotifyPipeline, AuditEmergencyFailed, Reviewers,
        ReceiveDecision, ReceiveCheckerDecision, Review, PushToQueue, MakerDecides,
        PushValidation, ReviewConcludes, Goto, Stages, Actors
  <2>5. QED BY <2>2, <2>3, <2>4 DEF WatchdogFires, Actors
<1> HIDE DEF A
<1>2. Safety => [][A]_vars
  BY SafetyInvariants, WatchdogIsInformed, <1>1, PTL DEF Safety
<1>3. QED BY <1>2 DEF EmergencyFilesTheRealDecision, A

----------------------------------------------------------------------------
(* The protocol implements the write-once register, its safety part; the   *)
(* liveness part rests on fairness and is model-checked.                   *)
LEMMA AlarmStep == ASSUME Next PROVE Alarmed => Alarmed'
<1>1. audit \subseteq audit'
  BY DEF Next, Tick, Pipeline, Finalise, PipelineFails, HoldForSip, SignalHeldDecision,
         AuditHeld, AuditQueued, StartReview, SignalDecision, Filing, FilingAccepted,
         FilingDuplicate, FilingAttemptFails, FilingComplete, AuditFiling, Watchdog,
         WatchdogStandsDown, WatchdogFires, AuditEmergency, NotifyPipeline,
         AuditEmergencyFailed, Reviewers, ReceiveDecision, ReceiveCheckerDecision, Review,
         PushToQueue, MakerDecides, PushValidation, ReviewConcludes
<1>2. QED BY <1>1 DEF Alarmed

LEMMA OneAtATime == ASSUME IType, Next, ngch' # ngch
                    PROVE  ngch = None /\ ngch' \in Decisions /\ audit' = audit
<1>1. \E a \in Actors : FilingAccepted(a) \/ FilingAttemptFails(a, TRUE)
  BY DEF Next, Tick, Pipeline, Finalise, PipelineFails, HoldForSip, SignalHeldDecision,
         AuditHeld, AuditQueued, StartReview, SignalDecision, Filing,
         FilingDuplicate, FilingAttemptFails, FilingComplete, AuditFiling, Watchdog,
         WatchdogStandsDown, WatchdogFires, AuditEmergency, NotifyPipeline,
         AuditEmergencyFailed, Reviewers, ReceiveDecision, ReceiveCheckerDecision, Review,
         PushToQueue, MakerDecides, PushValidation, ReviewConcludes
<1>2. QED BY <1>1 DEF IType, FilingOK, FilingAccepted, FilingAttemptFails

THEOREM ImplementsRegister == Safety => Register!Safe
<1>1. Init => Register!Init
  BY DEF Init, Register!Init, Alarmed
<1>2. ASSUME IType, [Next]_vars PROVE [Register!Next]_Register!vars
  <2>1. CASE UNCHANGED vars
    BY <2>1 DEF vars, Register!vars, Alarmed
  <2>2. CASE Next /\ ngch' # ngch
    <3>1. Alarmed' = Alarmed
      BY <1>2, <2>2, OneAtATime DEF Alarmed
    <3>2. QED BY <1>2, <2>2, <3>1, OneAtATime DEF Register!Next, Register!Settle
  <2>3. CASE Next /\ ngch' = ngch
    <3>1. Alarmed' = Alarmed \/ Alarmed' = TRUE
      BY <2>3, AlarmStep DEF Alarmed
    <3>2. QED BY <2>3, <3>1 DEF Register!Next, Register!Alarm, Register!vars
  <2>4. QED BY <1>2, <2>1, <2>2, <2>3
<1>3. QED BY <1>1, <1>2, SafetyInvariants, PTL DEF Safety, Register!Safe
===========================================================================
