------------------------- MODULE ReviewDeskProofs -------------------------
(* Four eyes at the review desk, two reviewers behind what is closed, and  *)
(* nothing closed untold, for any number of reviewers and requests.        *)
EXTENDS ReviewDesk, TLAPS

(* What is under way on the topic: the two events in order, the last one   *)
(* only once there is a maker; the consumer works on the first.            *)
EventsOK ==
  /\ events \in {<<>>, <<"REVIEW">>, <<"VALIDATION">>, <<"REVIEW", "VALIDATION">>}
  /\ consumer # "idle" => events # <<>>
  /\ consumer = "set" => Head(events) = "REVIEW"
  /\ consumer \in {"read", "write", "free"} => Head(events) = "VALIDATION"
  /\ review.stage = "waiting" => events \in {<<>>, <<"REVIEW">>}

IType == TypeOK /\ EventsOK

LEMMA InitType == Init => IType
<1> SUFFICES ASSUME Init PROVE IType
  OBVIOUS
<1>1. meta \in Metas
  BY DEF Init, Metas, NoMeta, Maybe
<1>2. request \in [Reviewers -> Requests]
  BY DEF Init, Requests, Idle, Steps, Metas, NoMeta, Maybe
<1>3. events \in Seq({"REVIEW", "VALIDATION"}) /\ Len(events) = 1
  BY DEF Init
<1>7. accepted \subseteq Reviewers \X BOOLEAN /\ disturbed \in BOOLEAN
  BY DEF Init
<1>4. TypeOK
  BY <1>1, <1>2, <1>3, <1>7, BoundsAssumption DEF Init, TypeOK, Maybe
<1>5. EventsOK
  BY DEF Init, EventsOK
<1>6. QED BY <1>4, <1>5 DEF IType

(* Nothing but these steps of a request touches what the desk keeps.       *)
LEMMA RequestType == ASSUME IType, NEW r \in Reviewers, Reviewer(r) PROVE IType'
<1> USE DEF IType, TypeOK
<1> request[r] \in Requests
  OBVIOUS
<1>0. ASSUME NEW s \in Steps, Then(r, s) PROVE request' \in [Reviewers -> Requests]
  BY <1>0 DEF Then, Requests
<1>e. ASSUME Ends(r) PROVE request' \in [Reviewers -> Requests]
  BY <1>e DEF Ends, Requests, Idle, Steps, Metas, NoMeta, Maybe
<1>b. ASSUME NEW op \in Operations, NEW s \in Steps, NEW c \in BOOLEAN, Begin(r, op, s, c)
      PROVE  IType'
  <2>1. request' \in [Reviewers -> Requests]
    BY <1>b DEF Begin, Requests, Idle, Metas, NoMeta, Maybe
  <2>2. made' \in 0..MaxRequests /\ disturbed' \in BOOLEAN
    BY <1>b, BoundsAssumption DEF Begin
  <2>3. QED BY <1>b, <2>1, <2>2 DEF Begin, desk, EventsOK
<1>c. Readings \subseteq BOOLEAN /\ Checked \in BOOLEAN
  BY TroublesAssumption DEF Readings
<1>1. CASE BeginDecide(r)   BY <1>1, <1>b, <1>c DEF BeginDecide, Operations, Steps
<1>2. CASE BeginValidate(r) BY <1>2, <1>b DEF BeginValidate, Operations, Steps
<1>3. CASE BeginClaim(r)    BY <1>3, <1>b, <1>c DEF BeginClaim, Operations, Steps
<1>4. CASE BeginUnclaim(r)  BY <1>4, <1>b, <1>c DEF BeginUnclaim, Operations, Steps
<1>15. CASE BeginBlind(r)   BY <1>15, <1>b, <1>c DEF BeginBlind, Operations, Steps
<1>5. CASE TakeClaim(r)
  <2>1. claim' \in Maybe
    BY <1>5 DEF TakeClaim, Maybe
  <2>2. QED BY <1>5, <1>0, <1>e, <2>1 DEF TakeClaim, Steps, EventsOK, past
<1>6. CASE Signal(r)
  <2>1. ASSUME NEW sent \in BOOLEAN, GoesOn(r, sent)
        PROVE  /\ request' \in [Reviewers -> Requests] /\ disturbed' \in BOOLEAN
               /\ accepted' \subseteq Reviewers \X BOOLEAN
    <3>1. disturbed' \in BOOLEAN /\ accepted' \subseteq Reviewers \X BOOLEAN
      BY <2>1 DEF GoesOn, Requests
    <3>2. \/ Ends(r)
          \/ \E s \in {"read", "record"} :
                request' = [request EXCEPT ![r].step = s, ![r].sent = sent]
      BY <2>1 DEF GoesOn
    <3>3. ASSUME NEW s \in {"read", "record"},
                 request' = [request EXCEPT ![r].step = s, ![r].sent = sent]
          PROVE  request' \in [Reviewers -> Requests]
      BY <3>3 DEF Requests, Steps
    <3>4. QED BY <3>1, <3>2, <3>3, <1>e
  <2>2. /\ request' \in [Reviewers -> Requests] /\ disturbed' \in BOOLEAN
        /\ accepted' \subseteq Reviewers \X BOOLEAN
    BY <1>6, <1>e, <2>1 DEF Signal, past
  <2>3. /\ review' \in [stage : {"waiting", "checking", "done"}, decision : Maybe,
                        maker : Maybe, checker : Maybe]
        /\ review'.stage = review.stage
    BY <1>6 DEF Signal, Signalled, Maybe
  <2>4. QED BY <1>6, <2>2, <2>3 DEF Signal, desk, EventsOK
<1>7. CASE Record(r)
  <2>1. item' \in [status : {"none", "open", "decided"}, by : Maybe]
    BY <1>7 DEF Record, Maybe
  <2>2. QED BY <1>7, <1>0, <1>e, <2>1 DEF Record, Steps, EventsOK, past
<1>8. CASE ReadClaim(r)
  <2>1. AfterRelease(r) \in Steps /\ "delete" \in Steps
    BY DEF AfterRelease, Steps
  <2>2. QED BY <1>8, <1>0, <2>1 DEF ReadClaim, desk, EventsOK, past
<1>9. CASE DeleteClaim(r)
  <2>1. AfterRelease(r) \in Steps
    BY DEF AfterRelease, Steps
  <2>2. QED BY <1>9, <1>0, <2>1 DEF DeleteClaim, Maybe, EventsOK, past
<1>10. CASE Forget(r)
  BY <1>10, <1>e DEF Forget, NoMeta, Metas, Maybe, EventsOK, past
<1>11. CASE RedisFails(r)
  BY <1>11, <1>e DEF RedisFails, desk, EventsOK, past
<1>12. CASE MoveToMisc(r)
  BY <1>12, <1>e, <1>0 DEF MoveToMisc, desk, Steps, EventsOK, past
<1>13. CASE ReadMeta(r)
  <2>1. request' \in [Reviewers -> Requests]
    BY <1>13 DEF ReadMeta, Requests, Steps
  <2>2. QED BY <1>13, <2>1 DEF ReadMeta, desk, EventsOK, past
<1>14. CASE WriteMeta(r)
  <2>1. meta' \in Metas
    BY <1>14 DEF WriteMeta, Requests, Metas, Maybe
  <2>2. QED BY <1>14, <1>e, <2>1 DEF WriteMeta, EventsOK, past
<1> HIDE DEF IType, TypeOK
<1>16. QED BY <1>1, <1>2, <1>3, <1>4, <1>5, <1>6, <1>7, <1>8, <1>9, <1>10, <1>11, <1>12,
              <1>13, <1>14, <1>15 DEF Reviewer

LEMMA BothEvents == Append(<<"REVIEW">>, "VALIDATION") = <<"REVIEW", "VALIDATION">>
<1> DEFINE s == Append(<<"REVIEW">>, "VALIDATION")
           t == <<"REVIEW", "VALIDATION">>
<1>1. s \in Seq({"REVIEW", "VALIDATION"}) /\ t \in Seq({"REVIEW", "VALIDATION"})
  OBVIOUS
<1>2. Len(s) = 2 /\ Len(t) = 2 /\ s[1] = t[1] /\ s[2] = t[2]
  OBVIOUS
<1> HIDE DEF s, t
<1>3. \A i \in 1..2 : s[i] = t[i]
  BY <1>2
<1>4. s = t
  BY <1>1, <1>2, <1>3
<1>5. QED BY <1>4 DEF s, t

LEMMA Queues ==
  ASSUME NEW q \in {<<>>, <<"REVIEW">>, <<"VALIDATION">>, <<"REVIEW", "VALIDATION">>}
  PROVE  q \in Seq({"REVIEW", "VALIDATION"}) /\ Len(q) <= 2
<1>1. CASE q = <<>>                         BY <1>1
<1>2. CASE q = <<"REVIEW">>                 BY <1>2
<1>3. CASE q = <<"VALIDATION">>             BY <1>3
<1>4. CASE q = <<"REVIEW", "VALIDATION">>   BY <1>4
<1>5. QED BY <1>1, <1>2, <1>3, <1>4

LEMMA OtherType ==
  ASSUME IType, (\E r \in Reviewers : AdminAssigns(r)) \/ Lapse \/ MakerDecides \/ Concludes
                \/ Consumer
  PROVE  IType'
<1> USE DEF IType, TypeOK
<1>1. ASSUME NEW r \in Reviewers, AdminAssigns(r) PROVE IType'
  BY <1>1 DEF AdminAssigns, Maybe, EventsOK
<1>2. CASE Lapse
  BY <1>2 DEF Lapse, Maybe, EventsOK
<1>3. CASE MakerDecides
  <2>1. /\ review' \in [stage : {"waiting", "checking", "done"}, decision : Maybe,
                        maker : Maybe, checker : Maybe]
        /\ review'.stage = "checking"
    BY <1>3 DEF MakerDecides
  <2>2. events \in {<<>>, <<"REVIEW">>} /\ events' \in {events, Append(events, "VALIDATION")}
    BY <1>3 DEF MakerDecides, EventsOK
  <2>3. events' \in {<<>>, <<"REVIEW">>, <<"VALIDATION">>, <<"REVIEW", "VALIDATION">>}
    <3>1. Append(<<>>, "VALIDATION") = <<"VALIDATION">>
      OBVIOUS
    <3>2. QED BY <2>2, <3>1, BothEvents
  <2>4. events # <<>> => events' # <<>> /\ Head(events') = Head(events)
    <3>1. events # <<>> => events = <<"REVIEW">>
      BY <2>2
    <3>2. Head(<<"REVIEW">>) = "REVIEW" /\ Head(<<"REVIEW", "VALIDATION">>) = "REVIEW"
      OBVIOUS
    <3>3. QED BY <2>2, <3>1, <3>2, BothEvents
  <2>5. events' \in Seq({"REVIEW", "VALIDATION"}) /\ Len(events') <= 2
    BY <2>3, Queues
  <2>6. UNCHANGED <<claim, meta, item, request, made, consumer, faults, past>>
    BY <1>3 DEF MakerDecides, desk, past
  <2>7. TypeOK'
    BY <2>1, <2>5, <2>6 DEF past
  <2>8. EventsOK'
    BY <2>1, <2>2, <2>3, <2>4, <2>6 DEF EventsOK
  <2>9. QED BY <2>7, <2>8
<1>4. CASE Concludes
  BY <1>4 DEF Concludes, desk, EventsOK, past
<1>5. CASE OpenItem
  BY <1>5 DEF OpenItem, EventsOK, Maybe, past
<1>6. CASE SetMeta
  BY <1>6 DEF SetMeta, EventsOK, Metas, Maybe, past
<1>7. CASE ReadForValidation
  BY <1>7 DEF ReadForValidation, EventsOK, desk, past
<1>8. CASE WriteValidation
  BY <1>8 DEF WriteValidation, EventsOK, Metas, past
<1>9. CASE FreeClaim
  BY <1>9 DEF FreeClaim, EventsOK, Maybe, past
<1>10. CASE Commit
  <2>1. events \in {<<"REVIEW">>, <<"VALIDATION">>, <<"REVIEW", "VALIDATION">>}
    BY <1>10 DEF Commit, EventsOK
  <2>2. events' \in {<<>>, <<"VALIDATION">>} /\ (events = <<"REVIEW">> => events' = <<>>)
    <3>1. /\ Tail(<<"REVIEW">>) = <<>> /\ Tail(<<"VALIDATION">>) = <<>>
          /\ Tail(<<"REVIEW", "VALIDATION">>) = <<"VALIDATION">>
      OBVIOUS
    <3>2. events' = Tail(events)
      BY <1>10 DEF Commit
    <3>3. QED BY <2>1, <3>1, <3>2
  <2>3. events' \in Seq({"REVIEW", "VALIDATION"}) /\ Len(events') <= 2
    BY <2>2, Queues
  <2>4. UNCHANGED <<claim, meta, item, request, made, review, faults, past>> /\ consumer' = "idle"
    BY <1>10 DEF Commit, desk, past
  <2>5. TypeOK'
    BY <2>3, <2>4 DEF past
  <2>6. EventsOK'
    BY <2>1, <2>2, <2>4 DEF EventsOK
  <2>7. QED BY <2>5, <2>6
<1>11. CASE ConsumerFails
  <2>1. faults' \in 0..MaxFaults /\ disturbed' \in BOOLEAN
    <3>1. faults' \in 0..MaxFaults
      BY <1>11, BoundsAssumption DEF ConsumerFails
    <3>2. disturbed' \in BOOLEAN
      BY <1>11 DEF ConsumerFails
    <3>3. QED BY <3>1, <3>2
  <2>2. consumer # "idle"
    BY <1>11 DEF ConsumerFails
  <2>3. QED BY <1>11, <2>1, <2>2 DEF ConsumerFails, desk, EventsOK, past
<1> HIDE DEF IType, TypeOK
<1>12. QED BY <1>1, <1>2, <1>3, <1>4, <1>5, <1>6, <1>7, <1>8, <1>9, <1>10, <1>11 DEF Consumer

LEMMA TypeStutter == ASSUME IType, UNCHANGED vars PROVE IType'
BY DEF IType, TypeOK, EventsOK, vars

LEMMA TypeStep == ASSUME IType, [Next]_vars PROVE IType'
BY RequestType, OtherType, TypeStutter DEF Next

LEMMA TypeInvariant == Spec => []IType
<1>1. QED BY InitType, TypeStep, PTL DEF Spec

(* The state keeps its shape and at most the two queue events are under    *)
(* way, with any reviewers, requests, lapses and consumer failures.        *)
THEOREM DeskTypeCorrect == Spec => []TypeOK
<1>1. IType => TypeOK
  BY DEF IType
<1>2. QED BY <1>1, TypeInvariant, PTL

----------------------------------------------------------------------------
(* Four eyes, with maker-checker on and up to the first trouble that the   *)
(* claim does not protect from: the invariant is about undisturbed states, *)
(* and the step lemmas about steps that leave them undisturbed.            *)
Calm == Checked /\ ~disturbed /\ ~disturbed'

LEMMA TroubleStays == ASSUME IType, [Next]_vars, ~disturbed' PROVE ~disturbed
<1>1. ASSUME NEW r \in Reviewers, Reviewer(r) \/ AdminAssigns(r) PROVE ~disturbed
  BY <1>1 DEF Reviewer, AdminAssigns, BeginDecide, BeginBlind, BeginValidate, BeginClaim,
     BeginUnclaim, Begin, TakeClaim, Signal, GoesOn, Record, ReadClaim, DeleteClaim, Forget,
     RedisFails, MoveToMisc, ReadMeta, WriteMeta, past
<1>2. CASE MakerDecides \/ Concludes \/ Consumer \/ Lapse \/ UNCHANGED vars
  BY <1>2 DEF MakerDecides, Concludes, Consumer, OpenItem, SetMeta, ReadForValidation,
     WriteValidation, FreeClaim, Commit, ConsumerFails, Lapse, vars, past
<1>3. QED BY <1>1, <1>2 DEF Next

(* The maker's claim has not been freed yet: there is no maker, or the     *)
(* event that asks for a checker is still to be handled.                   *)
Early == \/ review.stage = "waiting"
         \/ events = <<"REVIEW", "VALIDATION">>
         \/ events = <<"VALIDATION">> /\ consumer # "commit"

Claimed(r, op)  == request[r].op = op /\ request[r].step # "claim"

(* Which steps a request has.                                              *)
StepsOK == \A r \in Reviewers :
  /\ request[r].op = "decide" => /\ request[r].step \in {"claim", "signal", "read", "write"}
                                 /\ request[r].checked
  /\ request[r].op = "validate" =>
       request[r].step \in {"claim", "signal", "record", "release", "delete", "forget"}
  /\ request[r].op = "claim" => request[r].step = "claim"
  /\ request[r].op \notin {"unclaim", "blind"}
  /\ request[r].op = "none" => request[r].step = "idle"

(* Until then whoever claimed the item first is alone with it: no one else *)
(* decides it, and no one checks it.                                       *)
EarlyOK == Early =>
  /\ review.checker = None /\ item.by = None
  /\ review.decision \in {None, claim} /\ review.maker \in {None, review.decision}
  /\ review.stage # "waiting" => review.maker # None
  /\ meta.maker \in {None, claim}
  /\ meta.validation => meta.maker = review.maker
  /\ review.stage = "waiting" =>
       /\ ~meta.validation
       /\ \A r \in Reviewers : request[r].op # "validate" /\ ~request[r].seen.validation
  /\ \A r \in Reviewers : /\ Claimed(r, "decide") => claim = r
                          /\ request[r].op = "validate" =>
                               request[r].step = "claim" /\ r # review.maker

(* Later a reviewer who decides holds the claim or is the maker, one who   *)
(* checks holds it and is not the record's maker, and the record's maker   *)
(* is the workflow's or holds the claim.                                   *)
DecideOK == \A r \in Reviewers : Claimed(r, "decide") => r = review.maker \/ claim = r
ValidateOK == \A r \in Reviewers : request[r].op = "validate" =>
  /\ meta.maker # r
  /\ request[r].step \in {"signal", "record", "release", "delete"} => claim = r
MetaOK == /\ meta.validation => meta.maker # None
          /\ meta.maker \notin {None, review.maker} => claim = meta.maker

(* A maker who tries to check waits for a claim whose holder keeps it.     *)
MakerBlocked == \A r \in Reviewers : request[r].op = "validate" /\ r = review.maker =>
  /\ request[r].step = "claim" /\ claim \notin {None, r}
  /\ request[claim].op # "validate"
  /\ meta.validation => meta.maker = claim

EyesInv == /\ StepsOK /\ EarlyOK /\ DecideOK /\ ValidateOK /\ MetaOK /\ MakerBlocked
           /\ FourEyes /\ RowHasFourEyes

LEMMA EyesInit == Init => EyesInv
<1> SUFFICES ASSUME Init PROVE EyesInv
  OBVIOUS
<1>1. \A r \in Reviewers : /\ request[r].op = "none" /\ request[r].step = "idle"
                          /\ ~request[r].seen.validation
  BY DEF Init, Idle, NoMeta
<1>2. ~meta.validation /\ meta.maker = None
  BY DEF Init, NoMeta
<1>4. QED
  BY <1>1, <1>2 DEF Init, EyesInv, StepsOK, EarlyOK, Claimed, DecideOK, ValidateOK, MetaOK,
     MakerBlocked, FourEyes, RowHasFourEyes

LEMMA Handling ==
  ASSUME IType, consumer \in {"read", "write", "free"} PROVE events = <<"VALIDATION">>
<1>1. Head(<<"REVIEW">>) = "REVIEW" /\ Head(<<"REVIEW", "VALIDATION">>) = "REVIEW"
  OBVIOUS
<1>2. QED BY <1>1 DEF IType, EventsOK

LEMMA AnnouncedByMaker ==
  ASSUME IType, consumer \in {"read", "write", "free"} PROVE review.stage # "waiting"
<1>1. events = <<"VALIDATION">>
  BY Handling
<1>2. <<"VALIDATION">> # <<>> /\ <<"VALIDATION">> # <<"REVIEW">>
  OBVIOUS
<1>3. QED BY <1>1, <1>2 DEF IType, EventsOK

LEMMA EarlyNeverReturns ==
  ASSUME Calm, IType, [Next]_vars, Early'
  PROVE  Early
<1>1. CASE MakerDecides  BY <1>1 DEF MakerDecides, Early
<1>2. CASE Commit
  <2>1. review'.stage = review.stage /\ consumer = "commit" /\ events' = Tail(events)
    BY <1>2 DEF Commit
  <2>2. /\ Tail(<<"REVIEW">>) = <<>> /\ Tail(<<"VALIDATION">>) = <<>>
        /\ Tail(<<"REVIEW", "VALIDATION">>) = <<"VALIDATION">>
    OBVIOUS
  <2>3. events \in {<<"REVIEW">>, <<"VALIDATION">>, <<"REVIEW", "VALIDATION">>}
    BY <2>1 DEF IType, EventsOK
  <2>4. CASE events = <<"REVIEW", "VALIDATION">>  BY <2>4 DEF Early
  <2>5. CASE events \in {<<"REVIEW">>, <<"VALIDATION">>}
    <3>1. events' = <<>>
      BY <2>1, <2>2, <2>5
    <3>2. review'.stage = "waiting"
      BY <3>1 DEF Early
    <3>3. QED BY <2>1, <3>2 DEF Early
  <2>6. QED BY <2>3, <2>4, <2>5
<1>3. CASE UNCHANGED <<review, events>> /\ consumer # "commit"
  BY <1>3 DEF Early
<1>4. ASSUME NEW r \in Reviewers, Reviewer(r) \/ AdminAssigns(r) PROVE Early
  <2>1. UNCHANGED <<events, consumer>> /\ (review.stage = "waiting" <=> review'.stage = "waiting")
    BY <1>4 DEF Reviewer, AdminAssigns, BeginDecide, BeginBlind, BeginValidate, BeginClaim, BeginUnclaim,
       Begin, TakeClaim, Signal, Signalled, Record, ReadClaim, DeleteClaim, Forget, RedisFails, MoveToMisc,
       ReadMeta, WriteMeta, IType, TypeOK, desk
  <2>2. QED BY <2>1 DEF Early
<1>5. CASE Lapse \/ UNCHANGED vars  BY <1>5 DEF Lapse, vars, Early
<1>6. CASE Concludes  BY <1>6 DEF Concludes, IType, TypeOK, Early
<1>7. CASE OpenItem \/ SetMeta \/ ReadForValidation \/ WriteValidation \/ FreeClaim
  BY <1>7, <1>3 DEF OpenItem, SetMeta, ReadForValidation, WriteValidation, FreeClaim, desk
<1>8. CASE ConsumerFails
  <2>1. UNCHANGED <<review, events>> /\ ~Freed
    BY <1>8 DEF ConsumerFails, Calm, Freed
  <2>2. Head(<<"VALIDATION">>) = "VALIDATION"
    OBVIOUS
  <2>3. QED BY <1>8, <2>1, <2>2 DEF Early, Freed
<1>9. QED BY <1>1, <1>2, <1>4, <1>5, <1>6, <1>7, <1>8 DEF Next, Consumer

(* A reviewer's steps.  Idle requests and the ones that end are harmless:  *)
(* every part of the invariant is about the requests under way.            *)
LEMMA EyesRequest ==
  ASSUME Calm, IType, EyesInv, NEW r \in Reviewers, Reviewer(r), IType', Early' => Early
  PROVE  EyesInv'
<1> USE DEF EyesInv, Calm
<1> DEFINE Others == \A q \in Reviewers \ {r} : request'[q] = request[q]
           Kept   == /\ UNCHANGED <<claim, meta, item, review>>
<1>t. request \in [Reviewers -> Requests] /\ request' \in [Reviewers -> Requests]
  BY DEF IType, TypeOK
<1>m. claim \in Reviewers \cup {None} /\ request[r].op \in Operations \cup {"none"}
  BY DEF IType, TypeOK, Maybe, Requests
<1>e. ASSUME Ends(r) PROVE Others /\ request'[r] = Idle
  BY <1>e, <1>t DEF Ends
<1>i. Idle.op = "none" /\ Idle.step = "idle" /\ ~Idle.seen.validation
  BY DEF Idle, NoMeta
<1>0. ASSUME NEW s, Then(r, s)
      PROVE  /\ Others /\ request'[r].op = request[r].op /\ request'[r].step = s
             /\ request'[r].seen = request[r].seen /\ request'[r].checked = request[r].checked
  BY <1>0, <1>t DEF Then, Requests
<1>1. CASE BeginDecide(r)
  <2>0. PICK c \in Readings : Begin(r, "decide", "claim", c)
    BY <1>1 DEF BeginDecide
  <2>1. /\ Others /\ Kept /\ request'[r].op = "decide" /\ request'[r].step = "claim"
        /\ ~request'[r].seen.validation /\ request'[r].checked
    BY <1>t, <1>i, <2>0 DEF Begin, desk, Idle
  <2>2. UNCHANGED consumer
    BY <1>1 DEF BeginDecide, Begin
  <2>c0. StepsOK'
    BY <2>1, <2>2 DEF StepsOK, Claimed
  <2>c1. EarlyOK'
    BY <2>1, <2>2, NoneIsNoReviewer DEF EarlyOK, MetaOK, Claimed
  <2>c2. DecideOK'
    BY <2>1, <2>2 DEF DecideOK, Claimed
  <2>c3. ValidateOK'
    BY <2>1, <2>2 DEF ValidateOK
  <2>c4. MetaOK'
    BY <2>1, <2>2 DEF MetaOK
  <2>c5. MakerBlocked'
    BY <1>m, <2>1, <2>2 DEF MakerBlocked, MetaOK, ValidateOK
  <2>c6. (FourEyes /\ RowHasFourEyes)'
    BY <2>1, <2>2 DEF FourEyes, RowHasFourEyes
  <2> QED BY <2>c0, <2>c1, <2>c2, <2>c3, <2>c4, <2>c5, <2>c6
<1>2. CASE BeginValidate(r)
  <2>1. /\ Others /\ Kept /\ request'[r].op = "validate" /\ request'[r].step = "claim"
        /\ ~request'[r].seen.validation /\ meta.validation /\ meta.maker # r
    BY <1>2, <1>t, <1>i DEF BeginValidate, Begin, desk, Idle
  <2>2. UNCHANGED consumer
    BY <1>2 DEF BeginValidate, Begin
  <2>c0. StepsOK'
    BY <2>1, <2>2 DEF StepsOK, Claimed
  <2>c1. EarlyOK'
    BY <2>1, <2>2, NoneIsNoReviewer DEF EarlyOK, MetaOK, Claimed
  <2>c2. DecideOK'
    BY <2>1, <2>2 DEF DecideOK, Claimed
  <2>c3. ValidateOK'
    BY <2>1, <2>2 DEF ValidateOK
  <2>c4. MetaOK'
    BY <2>1, <2>2 DEF MetaOK
  <2>c5. MakerBlocked'
    BY <1>m, <2>1, <2>2 DEF MakerBlocked, MetaOK, ValidateOK
  <2>c6. (FourEyes /\ RowHasFourEyes)'
    BY <2>1, <2>2 DEF FourEyes, RowHasFourEyes
  <2> QED BY <2>c0, <2>c1, <2>c2, <2>c3, <2>c4, <2>c5, <2>c6
<1>3. CASE BeginClaim(r)
  <2>1. /\ Others /\ Kept /\ request'[r].op = "claim" /\ request'[r].step = "claim"
        /\ ~request'[r].seen.validation
    BY <1>3, <1>t, <1>i DEF BeginClaim, Begin, desk, Idle
  <2>2. UNCHANGED consumer
    BY <1>3 DEF BeginClaim, Begin
  <2>c0. StepsOK'
    BY <2>1, <2>2 DEF StepsOK, Claimed
  <2>c1. EarlyOK'
    BY <2>1, <2>2, NoneIsNoReviewer DEF EarlyOK, MetaOK, Claimed
  <2>c2. DecideOK'
    BY <2>1, <2>2 DEF DecideOK, Claimed
  <2>c3. ValidateOK'
    BY <2>1, <2>2 DEF ValidateOK
  <2>c4. MetaOK'
    BY <2>1, <2>2 DEF MetaOK
  <2>c5. MakerBlocked'
    BY <1>m, <2>1, <2>2 DEF MakerBlocked, MetaOK, ValidateOK
  <2>c6. (FourEyes /\ RowHasFourEyes)'
    BY <2>1, <2>2 DEF FourEyes, RowHasFourEyes
  <2> QED BY <2>c0, <2>c1, <2>c2, <2>c3, <2>c4, <2>c5, <2>c6
<1>4. CASE BeginUnclaim(r) \/ BeginBlind(r)
  BY <1>4 DEF BeginUnclaim, BeginBlind, Begin
<1>5. CASE TakeClaim(r)
  <2>0. request[r].step = "claim"
    BY <1>5 DEF TakeClaim
  <2>1. /\ UNCHANGED <<meta, item, review, consumer>>
        /\ \/ claim' = claim
           \/ claim = None /\ claim' = r
    BY <1>5 DEF TakeClaim
  <2>2. CASE request'[r] = Idle /\ Others
    <3>c0. StepsOK'
      BY <1>i, <2>1, <2>2, NoneIsNoReviewer DEF StepsOK, Claimed
    <3>c1. EarlyOK'
      BY <1>i, <2>1, <2>2, NoneIsNoReviewer DEF EarlyOK, Claimed
    <3>c2. DecideOK'
      BY <1>i, <2>1, <2>2, NoneIsNoReviewer DEF DecideOK, Claimed
    <3>c3. ValidateOK'
      BY <1>i, <2>1, <2>2, NoneIsNoReviewer DEF ValidateOK
    <3>c4. MetaOK'
      BY <1>i, <2>1, <2>2, NoneIsNoReviewer DEF MetaOK
    <3>c5. MakerBlocked'
      BY <1>i, <1>m, <2>1, <2>2, NoneIsNoReviewer DEF MakerBlocked, MetaOK, ValidateOK
    <3>c6. (FourEyes /\ RowHasFourEyes)'
      BY <1>i, <2>1, <2>2, NoneIsNoReviewer DEF FourEyes, RowHasFourEyes
    <3> QED BY <3>c0, <3>c1, <3>c2, <3>c3, <3>c4, <3>c5, <3>c6
  <2>3. CASE /\ Others /\ request'[r].op = request[r].op /\ request'[r].step = "signal"
             /\ request'[r].seen = request[r].seen /\ request[r].op # "claim"
             /\ claim' = r /\ request'[r].checked = request[r].checked
    <3>c0. StepsOK'
      BY <1>m, <2>0, <2>1, <2>3, NoneIsNoReviewer DEF StepsOK, Claimed, Operations
    <3>1. Early => request[r].op = "decide"
      BY <1>m, <2>0, <2>1, <2>3, AnnouncedByMaker, NoneIsNoReviewer DEF EarlyOK, StepsOK, Operations
    <3>c1. EarlyOK'
      BY <1>m, <2>0, <2>1, <2>3, <3>1, NoneIsNoReviewer DEF EarlyOK, Claimed
    <3>c2. DecideOK'
      BY <1>m, <2>0, <2>1, <2>3, NoneIsNoReviewer DEF DecideOK, Claimed
    <3>c3. ValidateOK'
      BY <1>m, <2>0, <2>1, <2>3, NoneIsNoReviewer DEF ValidateOK
    <3>c4. MetaOK'
      BY <1>m, <2>0, <2>1, <2>3, NoneIsNoReviewer DEF MetaOK
    <3>c5. MakerBlocked'
      BY <1>m, <2>0, <2>1, <2>3, NoneIsNoReviewer DEF MakerBlocked, MetaOK, ValidateOK
    <3>c6. (FourEyes /\ RowHasFourEyes)'
      BY <1>m, <2>0, <2>1, <2>3, NoneIsNoReviewer DEF FourEyes, RowHasFourEyes
    <3> QED BY <3>c0, <3>c1, <3>c2, <3>c3, <3>c4, <3>c5, <3>c6
  <2>4. QED BY <1>5, <1>0, <1>e, <2>2, <2>3 DEF TakeClaim
<1>6. CASE Signal(r)
  <2>0. request[r].step = "signal" /\ request[r].op \in {"decide", "validate"} /\ claim \in {r, claim}
    BY <1>6, <1>m DEF Signal, StepsOK, Operations
  <2>1. UNCHANGED <<claim, meta, item, consumer>>
    BY <1>6 DEF Signal, desk
  <2>2. CASE UNCHANGED review /\ Ends(r)
    <3>c0. StepsOK'
      BY <1>e, <1>i, <1>m, <2>1, <2>2, NoneIsNoReviewer DEF StepsOK, Claimed
    <3>c1. EarlyOK'
      BY <1>e, <1>i, <1>m, <2>1, <2>2, NoneIsNoReviewer DEF EarlyOK, Claimed
    <3>c2. DecideOK'
      BY <1>e, <1>i, <1>m, <2>1, <2>2, NoneIsNoReviewer DEF DecideOK, Claimed
    <3>c3. ValidateOK'
      BY <1>e, <1>i, <1>m, <2>1, <2>2, NoneIsNoReviewer DEF ValidateOK
    <3>c4. MetaOK'
      BY <1>e, <1>i, <1>m, <2>1, <2>2, NoneIsNoReviewer DEF MetaOK
    <3>c5. MakerBlocked'
      BY <1>e, <1>i, <1>m, <2>1, <2>2, NoneIsNoReviewer DEF MakerBlocked, MetaOK, ValidateOK
    <3>c6. (FourEyes /\ RowHasFourEyes)'
      BY <1>e, <1>i, <1>m, <2>1, <2>2, NoneIsNoReviewer DEF FourEyes, RowHasFourEyes
    <3> QED BY <3>c0, <3>c1, <3>c2, <3>c3, <3>c4, <3>c5, <3>c6
  <2>3. ASSUME NEW sent \in BOOLEAN, GoesOn(r, sent), NEW v \in {review, Signalled(r)}, review' = v
        PROVE  EyesInv'
    <3>1. /\ review'.stage = review.stage /\ review'.maker = review.maker
          /\ review'.decision \in {review.decision, r} /\ review'.checker \in {review.checker, r}
          /\ request[r].op = "validate" => review'.decision = review.decision
          /\ request[r].op = "decide" => review'.checker = review.checker
      BY <2>3 DEF Signalled, Decides, IType, TypeOK
    <3>2. /\ request[r].op = "decide" => request'[r].step = "read" /\ request'[r].checked
          /\ request[r].op = "validate" => request'[r].step = "record"
          /\ Others /\ request'[r].op = request[r].op /\ request'[r].seen = request[r].seen
      <4>1. /\ request[r].op = "decide" =>
                 request' = [request EXCEPT ![r].step = "read", ![r].sent = sent]
            /\ request[r].op = "validate" =>
                 request' = [request EXCEPT ![r].step = "record", ![r].sent = sent]
        BY <2>3, <2>0 DEF GoesOn, Decides, StepsOK
      <4>2. QED BY <1>t, <2>0, <4>1 DEF Requests, StepsOK
    <3>3. Early => request[r].op = "decide"
      BY <2>0 DEF EarlyOK, Claimed
    <3>c0. StepsOK'
      BY <1>m, <2>0, <2>1, <3>1, <3>2, <3>3, NoneIsNoReviewer DEF StepsOK, Claimed
    <3>c1. EarlyOK'
      BY <1>m, <2>0, <2>1, <3>1, <3>2, <3>3, NoneIsNoReviewer DEF EarlyOK, Claimed
    <3>c2. DecideOK'
      BY <1>m, <2>0, <2>1, <3>1, <3>2, <3>3, NoneIsNoReviewer DEF DecideOK, Claimed
    <3>c3. ValidateOK'
      BY <1>m, <2>0, <2>1, <3>1, <3>2, <3>3, NoneIsNoReviewer DEF ValidateOK
    <3>c4. MetaOK'
      BY <1>m, <2>0, <2>1, <3>1, <3>2, <3>3, NoneIsNoReviewer DEF MetaOK
    <3>c5. MakerBlocked'
      BY <1>m, <2>0, <2>1, <3>1, <3>2, <3>3, NoneIsNoReviewer DEF MakerBlocked, MetaOK, ValidateOK
    <3>c6. (FourEyes /\ RowHasFourEyes)'
      BY <1>m, <2>0, <2>1, <3>1, <3>2, <3>3, NoneIsNoReviewer DEF FourEyes, RowHasFourEyes, MakerBlocked
    <3> QED BY <3>c0, <3>c1, <3>c2, <3>c3, <3>c4, <3>c5, <3>c6
  <2>4. CASE review' = Signalled(r) /\ GoesOn(r, TRUE)
    BY <2>3, <2>4
  <2>5. CASE UNCHANGED review /\ GoesOn(r, FALSE)
    BY <2>3, <2>5
  <2>6. QED BY <1>6, <2>2, <2>4, <2>5 DEF Signal
<1>7. CASE Record(r)
  <2>1. /\ UNCHANGED <<claim, meta, review, consumer>> /\ item'.by \in {item.by, r}
        /\ request[r].step = "record"
    BY <1>7 DEF Record
  <2>2. request[r].op = "validate"
    BY <1>m, <2>1 DEF StepsOK, Operations
  <2>3. Others /\ request'[r].op = "validate" /\ request'[r].step = "release"
        /\ request'[r].seen = request[r].seen
    BY <1>7, <1>0, <2>2 DEF Record
  <2>c0. StepsOK'
    BY <1>m, <2>1, <2>2, <2>3, NoneIsNoReviewer DEF StepsOK, Claimed
  <2>c1. EarlyOK'
    BY <1>m, <2>1, <2>2, <2>3, NoneIsNoReviewer DEF EarlyOK, Claimed
  <2>c2. DecideOK'
    BY <1>m, <2>1, <2>2, <2>3, NoneIsNoReviewer DEF DecideOK, Claimed
  <2>c3. ValidateOK'
    BY <1>m, <2>1, <2>2, <2>3, NoneIsNoReviewer DEF ValidateOK
  <2>c4. MetaOK'
    BY <1>m, <2>1, <2>2, <2>3, NoneIsNoReviewer DEF MetaOK
  <2>c5. MakerBlocked'
    BY <1>m, <2>1, <2>2, <2>3, NoneIsNoReviewer DEF MakerBlocked, MetaOK, ValidateOK
  <2>c6. (FourEyes /\ RowHasFourEyes)'
    BY <1>m, <2>1, <2>2, <2>3, NoneIsNoReviewer DEF FourEyes, RowHasFourEyes, MakerBlocked
  <2> QED BY <2>c0, <2>c1, <2>c2, <2>c3, <2>c4, <2>c5, <2>c6
<1>8. CASE ReadClaim(r)
  <2>1. UNCHANGED <<claim, meta, item, review, consumer>> /\ request[r].step = "release"
    BY <1>8 DEF ReadClaim, desk
  <2>2. request[r].op = "validate"
    BY <1>m, <2>1 DEF StepsOK, Operations
  <2>3. Others /\ request'[r].op = "validate" /\ request'[r].step \in {"delete", "forget"}
        /\ request'[r].seen = request[r].seen
    BY <1>8, <1>0, <2>2 DEF ReadClaim, AfterRelease
  <2>c0. StepsOK'
    BY <1>m, <2>1, <2>2, <2>3, NoneIsNoReviewer DEF StepsOK, Claimed
  <2>c1. EarlyOK'
    BY <1>m, <2>1, <2>2, <2>3, NoneIsNoReviewer DEF EarlyOK, Claimed
  <2>c2. DecideOK'
    BY <1>m, <2>1, <2>2, <2>3, NoneIsNoReviewer DEF DecideOK, Claimed
  <2>c3. ValidateOK'
    BY <1>m, <2>1, <2>2, <2>3, NoneIsNoReviewer DEF ValidateOK
  <2>c4. MetaOK'
    BY <1>m, <2>1, <2>2, <2>3, NoneIsNoReviewer DEF MetaOK
  <2>c5. MakerBlocked'
    BY <1>m, <2>1, <2>2, <2>3, NoneIsNoReviewer DEF MakerBlocked, MetaOK, ValidateOK
  <2>c6. (FourEyes /\ RowHasFourEyes)'
    BY <1>m, <2>1, <2>2, <2>3, NoneIsNoReviewer DEF FourEyes, RowHasFourEyes
  <2> QED BY <2>c0, <2>c1, <2>c2, <2>c3, <2>c4, <2>c5, <2>c6
<1>9. CASE DeleteClaim(r)
  <2>1. UNCHANGED <<meta, item, review, consumer>> /\ request[r].step = "delete" /\ claim' = None
    BY <1>9 DEF DeleteClaim
  <2>2. request[r].op = "validate" /\ claim = r
    BY <1>m, <2>1 DEF StepsOK, Operations, ValidateOK
  <2>3. Others /\ request'[r].op = "validate" /\ request'[r].step = "forget"
        /\ request'[r].seen = request[r].seen
    BY <1>9, <1>0, <2>2 DEF DeleteClaim, AfterRelease
  <2>c0. StepsOK'
    BY <1>m, <2>1, <2>2, <2>3, NoneIsNoReviewer DEF StepsOK, Claimed
  <2>c1. EarlyOK'
    BY <1>m, <2>1, <2>2, <2>3, NoneIsNoReviewer DEF EarlyOK, Claimed
  <2>c2. DecideOK'
    BY <1>m, <2>1, <2>2, <2>3, NoneIsNoReviewer DEF DecideOK, Claimed, ValidateOK
  <2>c3. ValidateOK'
    BY <1>m, <2>1, <2>2, <2>3, NoneIsNoReviewer DEF ValidateOK
  <2>c4. MetaOK'
    BY <1>m, <2>1, <2>2, <2>3, NoneIsNoReviewer DEF MetaOK, ValidateOK
  <2>c5. MakerBlocked'
    BY <1>m, <2>1, <2>2, <2>3, NoneIsNoReviewer DEF MakerBlocked, MetaOK, ValidateOK
  <2>c6. (FourEyes /\ RowHasFourEyes)'
    BY <1>m, <2>1, <2>2, <2>3, NoneIsNoReviewer DEF FourEyes, RowHasFourEyes
  <2> QED BY <2>c0, <2>c1, <2>c2, <2>c3, <2>c4, <2>c5, <2>c6
<1>10. CASE Forget(r)
  <2>1. /\ UNCHANGED <<claim, item, review, consumer>> /\ meta'.maker = None /\ ~meta'.validation
        /\ Others /\ request'[r] = Idle
    BY <1>10, <1>e DEF Forget, NoMeta
  <2>c0. StepsOK'
    BY <1>i, <1>m, <2>1, NoneIsNoReviewer DEF StepsOK, Claimed
  <2>c1. EarlyOK'
    BY <1>i, <1>m, <2>1, NoneIsNoReviewer DEF EarlyOK, Claimed
  <2>c2. DecideOK'
    BY <1>i, <1>m, <2>1, NoneIsNoReviewer DEF DecideOK, Claimed
  <2>c3. ValidateOK'
    BY <1>i, <1>m, <2>1, NoneIsNoReviewer DEF ValidateOK
  <2>c4. MetaOK'
    BY <1>i, <1>m, <2>1, NoneIsNoReviewer DEF MetaOK
  <2>c5. MakerBlocked'
    BY <1>i, <1>m, <2>1, NoneIsNoReviewer DEF MakerBlocked, MetaOK, ValidateOK
  <2>c6. (FourEyes /\ RowHasFourEyes)'
    BY <1>i, <1>m, <2>1, NoneIsNoReviewer DEF FourEyes, RowHasFourEyes
  <2> QED BY <2>c0, <2>c1, <2>c2, <2>c3, <2>c4, <2>c5, <2>c6
<1>11. CASE RedisFails(r)
  <2>1. /\ UNCHANGED <<claim, meta, item, review, consumer>> /\ Others /\ request'[r] = Idle
    BY <1>11, <1>e DEF RedisFails, desk
  <2>c0. StepsOK'
    BY <1>i, <1>m, <2>1, NoneIsNoReviewer DEF StepsOK, Claimed
  <2>c1. EarlyOK'
    BY <1>i, <1>m, <2>1, NoneIsNoReviewer DEF EarlyOK, Claimed
  <2>c2. DecideOK'
    BY <1>i, <1>m, <2>1, NoneIsNoReviewer DEF DecideOK, Claimed
  <2>c3. ValidateOK'
    BY <1>i, <1>m, <2>1, NoneIsNoReviewer DEF ValidateOK
  <2>c4. MetaOK'
    BY <1>i, <1>m, <2>1, NoneIsNoReviewer DEF MetaOK
  <2>c5. MakerBlocked'
    BY <1>i, <1>m, <2>1, NoneIsNoReviewer DEF MakerBlocked, MetaOK, ValidateOK
  <2>c6. (FourEyes /\ RowHasFourEyes)'
    BY <1>i, <1>m, <2>1, NoneIsNoReviewer DEF FourEyes, RowHasFourEyes
  <2> QED BY <2>c0, <2>c1, <2>c2, <2>c3, <2>c4, <2>c5, <2>c6
<1>12. CASE MoveToMisc(r)
  BY <1>12, <1>m DEF MoveToMisc, StepsOK, Operations
<1>13. CASE ReadMeta(r)
  <2>1. UNCHANGED <<claim, meta, item, review, consumer>> /\ request[r].step = "read"
    BY <1>13 DEF ReadMeta, desk
  <2>2. request[r].op = "decide"
    BY <1>m, <2>1 DEF StepsOK, Operations
  <2>3. /\ Others /\ request'[r].op = "decide" /\ request'[r].step = "write"
        /\ request'[r].seen = meta /\ request'[r].checked = request[r].checked
    BY <1>13, <1>t, <2>2 DEF ReadMeta, Requests
  <2>c0. StepsOK'
    BY <1>m, <2>1, <2>2, <2>3, NoneIsNoReviewer DEF StepsOK, Claimed
  <2>c1. EarlyOK'
    BY <1>m, <2>1, <2>2, <2>3, NoneIsNoReviewer DEF EarlyOK, Claimed
  <2>c2. DecideOK'
    BY <1>m, <2>1, <2>2, <2>3, NoneIsNoReviewer DEF DecideOK, Claimed
  <2>c3. ValidateOK'
    BY <1>m, <2>1, <2>2, <2>3, NoneIsNoReviewer DEF ValidateOK
  <2>c4. MetaOK'
    BY <1>m, <2>1, <2>2, <2>3, NoneIsNoReviewer DEF MetaOK
  <2>c5. MakerBlocked'
    BY <1>m, <2>1, <2>2, <2>3, NoneIsNoReviewer DEF MakerBlocked, MetaOK, ValidateOK
  <2>c6. (FourEyes /\ RowHasFourEyes)'
    BY <1>m, <2>1, <2>2, <2>3, NoneIsNoReviewer DEF FourEyes, RowHasFourEyes
  <2> QED BY <2>c0, <2>c1, <2>c2, <2>c3, <2>c4, <2>c5, <2>c6
<1>14. CASE WriteMeta(r)
  <2>1. UNCHANGED <<claim, item, review, consumer>> /\ request[r].step = "write"
    BY <1>14 DEF WriteMeta
  <2>2. request[r].op = "decide"
    BY <1>m, <2>1 DEF StepsOK, Operations
  <2>3. Others /\ request'[r] = Idle /\ meta'.maker = r /\ meta'.validation = request[r].seen.validation
    BY <1>14, <1>e, <1>t, <2>2 DEF WriteMeta, Requests, Metas
  <2>c0. StepsOK'
    BY <1>i, <1>m, <2>1, <2>2, <2>3, NoneIsNoReviewer DEF StepsOK, Claimed
  <2>c1. EarlyOK'
    BY <1>i, <1>m, <2>1, <2>2, <2>3, NoneIsNoReviewer DEF EarlyOK, Claimed
  <2>c2. DecideOK'
    BY <1>i, <1>m, <2>1, <2>2, <2>3, NoneIsNoReviewer DEF DecideOK, Claimed
  <2>c3. ValidateOK'
    BY <1>i, <1>m, <2>1, <2>2, <2>3, NoneIsNoReviewer DEF ValidateOK
  <2>c4. MetaOK'
    BY <1>i, <1>m, <2>1, <2>2, <2>3, NoneIsNoReviewer DEF MetaOK, DecideOK, Claimed
  <2>c5. MakerBlocked'
    BY <1>i, <1>m, <2>1, <2>2, <2>3, NoneIsNoReviewer DEF MakerBlocked, DecideOK, Claimed
  <2>c6. (FourEyes /\ RowHasFourEyes)'
    BY <1>i, <1>m, <2>1, <2>2, <2>3, NoneIsNoReviewer DEF FourEyes, RowHasFourEyes
  <2> QED BY <2>c0, <2>c1, <2>c2, <2>c3, <2>c4, <2>c5, <2>c6
<1> QED BY <1>1, <1>2, <1>3, <1>4, <1>5, <1>6, <1>7, <1>8, <1>9, <1>10, <1>11, <1>12, <1>13, <1>14
        DEF Reviewer

(* The steps of the workflow and of the consumer.                          *)
LEMMA EyesOther ==
  ASSUME Calm, IType, EyesInv, IType', Early' => Early,
         (\E r \in Reviewers : AdminAssigns(r)) \/ Lapse \/ MakerDecides \/ Concludes \/ Consumer
  PROVE  EyesInv'
<1> USE DEF EyesInv, Calm
<1>m. claim \in Reviewers \cup {None}
  BY DEF IType, TypeOK, Maybe
<1>1. ASSUME NEW r \in Reviewers, AdminAssigns(r) PROVE FALSE
  BY <1>1 DEF AdminAssigns
<1>2. CASE Lapse
  BY <1>2 DEF Lapse
<1>3. CASE MakerDecides
  <2>1. /\ UNCHANGED <<claim, meta, item, request, consumer>> /\ Early
        /\ review'.decision = review.decision /\ review'.checker = review.checker
        /\ review'.maker = review.decision /\ review.decision # None
        /\ review.stage = "waiting" /\ review'.stage = "checking"
    BY <1>3 DEF MakerDecides, desk, IType, TypeOK, Early
  <2>c0. StepsOK'
    BY <1>m, <2>1, NoneIsNoReviewer DEF StepsOK, EarlyOK, Claimed
  <2>c1. EarlyOK'
    BY <1>m, <2>1, NoneIsNoReviewer DEF EarlyOK, Claimed
  <2>c2. DecideOK'
    BY <1>m, <2>1, NoneIsNoReviewer DEF DecideOK, EarlyOK, Claimed
  <2>c3. ValidateOK'
    BY <1>m, <2>1, NoneIsNoReviewer DEF ValidateOK, EarlyOK, Claimed
  <2>c4. MetaOK'
    BY <1>m, <2>1, NoneIsNoReviewer DEF MetaOK, EarlyOK, Claimed
  <2>c5. MakerBlocked'
    BY <1>m, <2>1, NoneIsNoReviewer DEF MakerBlocked, EarlyOK, Claimed
  <2>c6. (FourEyes /\ RowHasFourEyes)'
    BY <1>m, <2>1, NoneIsNoReviewer DEF FourEyes, RowHasFourEyes, EarlyOK, Claimed
  <2> QED BY <2>c0, <2>c1, <2>c2, <2>c3, <2>c4, <2>c5, <2>c6
<1>4. CASE Concludes
  <2>1. /\ UNCHANGED <<claim, meta, item, request, consumer>>
        /\ review'.decision = review.decision /\ review'.checker = review.checker
        /\ review'.maker = review.maker
        /\ review'.stage = "done" /\ (review.stage = "waiting" => ~Early')
    <3>1. review.stage = "waiting" => events' \in {<<>>, <<"REVIEW">>} /\ review'.stage = "done"
      BY <1>4 DEF Concludes, IType, TypeOK, EventsOK
    <3>2. /\ <<"REVIEW">> # <<"VALIDATION">> /\ <<"REVIEW">> # <<"REVIEW", "VALIDATION">>
          /\ <<>> # <<"VALIDATION">> /\ <<>> # <<"REVIEW", "VALIDATION">>
      OBVIOUS
    <3>3. review.stage = "waiting" => ~Early'
      BY <3>1, <3>2 DEF Early
    <3>4. QED BY <1>4, <3>3 DEF Concludes, desk, IType, TypeOK
  <2>c0. StepsOK'
    BY <1>m, <2>1 DEF StepsOK
  <2>c1. EarlyOK'
    BY <1>m, <2>1 DEF EarlyOK, Claimed
  <2>c2. DecideOK'
    BY <1>m, <2>1 DEF DecideOK, Claimed
  <2>c3. ValidateOK'
    BY <1>m, <2>1 DEF ValidateOK
  <2>c4. MetaOK'
    BY <1>m, <2>1 DEF MetaOK
  <2>c5. MakerBlocked'
    BY <1>m, <2>1 DEF MakerBlocked
  <2>c6. (FourEyes /\ RowHasFourEyes)'
    BY <1>m, <2>1 DEF FourEyes, RowHasFourEyes
  <2> QED BY <2>c0, <2>c1, <2>c2, <2>c3, <2>c4, <2>c5, <2>c6
<1>5. CASE OpenItem
  <2>1. /\ UNCHANGED <<claim, meta, request, review>> /\ item'.by \in {None, item.by}
        /\ consumer = "idle" /\ consumer' # "free"
    BY <1>5 DEF OpenItem
  <2>c0. StepsOK'
    BY <1>m, <2>1 DEF StepsOK
  <2>c1. EarlyOK'
    BY <1>m, <2>1 DEF EarlyOK, Claimed
  <2>c2. DecideOK'
    BY <1>m, <2>1 DEF DecideOK, Claimed
  <2>c3. ValidateOK'
    BY <1>m, <2>1 DEF ValidateOK
  <2>c4. MetaOK'
    BY <1>m, <2>1 DEF MetaOK
  <2>c5. MakerBlocked'
    BY <1>m, <2>1 DEF MakerBlocked
  <2>c6. (FourEyes /\ RowHasFourEyes)'
    BY <1>m, <2>1 DEF FourEyes, RowHasFourEyes
  <2> QED BY <2>c0, <2>c1, <2>c2, <2>c3, <2>c4, <2>c5, <2>c6
<1>6. CASE SetMeta
  <2>1. /\ UNCHANGED <<claim, item, request, review>> /\ meta'.maker = None /\ ~meta'.validation
        /\ consumer = "set" /\ consumer' # "free"
    BY <1>6 DEF SetMeta
  <2>c0. StepsOK'
    BY <1>m, <2>1, NoneIsNoReviewer DEF StepsOK
  <2>c1. EarlyOK'
    BY <1>m, <2>1, NoneIsNoReviewer DEF EarlyOK, Claimed
  <2>c2. DecideOK'
    BY <1>m, <2>1, NoneIsNoReviewer DEF DecideOK, Claimed
  <2>c3. ValidateOK'
    BY <1>m, <2>1, NoneIsNoReviewer DEF ValidateOK
  <2>c4. MetaOK'
    BY <1>m, <2>1, NoneIsNoReviewer DEF MetaOK
  <2>c5. MakerBlocked'
    BY <1>m, <2>1, NoneIsNoReviewer DEF MakerBlocked
  <2>c6. (FourEyes /\ RowHasFourEyes)'
    BY <1>m, <2>1, NoneIsNoReviewer DEF FourEyes, RowHasFourEyes
  <2> QED BY <2>c0, <2>c1, <2>c2, <2>c3, <2>c4, <2>c5, <2>c6
<1>7. CASE ReadForValidation
  <2>1. /\ UNCHANGED <<claim, meta, item, request, review>>
        /\ consumer = "read" /\ consumer' # "free"
    BY <1>7 DEF ReadForValidation, desk
  <2>c0. StepsOK'
    BY <1>m, <2>1 DEF StepsOK
  <2>c1. EarlyOK'
    BY <1>m, <2>1 DEF EarlyOK, Claimed
  <2>c2. DecideOK'
    BY <1>m, <2>1 DEF DecideOK, Claimed
  <2>c3. ValidateOK'
    BY <1>m, <2>1 DEF ValidateOK
  <2>c4. MetaOK'
    BY <1>m, <2>1 DEF MetaOK
  <2>c5. MakerBlocked'
    BY <1>m, <2>1 DEF MakerBlocked
  <2>c6. (FourEyes /\ RowHasFourEyes)'
    BY <1>m, <2>1 DEF FourEyes, RowHasFourEyes
  <2> QED BY <2>c0, <2>c1, <2>c2, <2>c3, <2>c4, <2>c5, <2>c6
<1>8. CASE WriteValidation
  <2>1. /\ UNCHANGED <<claim, item, request, review>> /\ meta'.maker = review.maker
        /\ meta'.validation /\ consumer = "write" /\ consumer' = "free"
    BY <1>8 DEF WriteValidation
  <2>2. Early /\ review.stage # "waiting"
    BY <2>1, Handling, AnnouncedByMaker DEF Early
  <2>3. /\ review.maker # None /\ review.maker = claim
        /\ \A r \in Reviewers : request[r].op = "validate" =>
             request[r].step = "claim" /\ r # review.maker
    BY <2>1, <2>2 DEF EarlyOK, Claimed
  <2>c0. StepsOK'
    BY <1>m, <2>1, <2>2, <2>3 DEF StepsOK
  <2>c1. EarlyOK'
    BY <1>m, <2>1, <2>2, <2>3 DEF EarlyOK, Claimed
  <2>c2. DecideOK'
    BY <1>m, <2>1, <2>2, <2>3 DEF DecideOK, Claimed
  <2>c3. ValidateOK'
    BY <1>m, <2>1, <2>2, <2>3 DEF ValidateOK
  <2>c4. MetaOK'
    BY <1>m, <2>1, <2>2, <2>3 DEF MetaOK
  <2>c5. MakerBlocked'
    BY <1>m, <2>1, <2>2, <2>3 DEF MakerBlocked
  <2>c6. (FourEyes /\ RowHasFourEyes)'
    BY <1>m, <2>1, <2>2, <2>3 DEF FourEyes, RowHasFourEyes
  <2> QED BY <2>c0, <2>c1, <2>c2, <2>c3, <2>c4, <2>c5, <2>c6
<1>9. CASE FreeClaim
  <2>1. /\ UNCHANGED <<meta, item, request, review>> /\ claim' = None
        /\ consumer = "free" /\ consumer' = "commit" /\ UNCHANGED events
    BY <1>9 DEF FreeClaim
  <2>2. events = <<"VALIDATION">> /\ review.stage # "waiting"
    BY <2>1, Handling, AnnouncedByMaker
  <2>3. Early /\ ~Early'
    <3>1. <<"VALIDATION">> # <<"REVIEW", "VALIDATION">>
      OBVIOUS
    <3>2. QED BY <2>1, <2>2, <3>1 DEF Early
  <2>4. /\ review.maker # None /\ review.maker = claim /\ meta.maker \in {None, review.maker}
        /\ \A r \in Reviewers : Claimed(r, "decide") => r = review.maker
        /\ \A r \in Reviewers : request[r].op = "validate" => request[r].step = "claim" /\ r # review.maker
    BY <2>2, <2>3 DEF EarlyOK, Claimed
  <2>c0. StepsOK'
    BY <1>m, <2>1, <2>2, <2>3, <2>4 DEF StepsOK
  <2>c1. EarlyOK'
    BY <1>m, <2>1, <2>2, <2>3, <2>4 DEF EarlyOK, Claimed
  <2>c2. DecideOK'
    BY <1>m, <2>1, <2>2, <2>3, <2>4 DEF DecideOK, Claimed
  <2>c3. ValidateOK'
    BY <1>m, <2>1, <2>2, <2>3, <2>4 DEF ValidateOK
  <2>c4. MetaOK'
    BY <1>m, <2>1, <2>2, <2>3, <2>4 DEF MetaOK
  <2>c5. MakerBlocked'
    BY <1>m, <2>1, <2>2, <2>3, <2>4 DEF MakerBlocked
  <2>c6. (FourEyes /\ RowHasFourEyes)'
    BY <1>m, <2>1, <2>2, <2>3, <2>4 DEF FourEyes, RowHasFourEyes
  <2> QED BY <2>c0, <2>c1, <2>c2, <2>c3, <2>c4, <2>c5, <2>c6
<1>10. CASE Commit
  <2>1. /\ UNCHANGED <<claim, meta, item, request, review>>
        /\ consumer = "commit" /\ consumer' # "free"
    BY <1>10 DEF Commit, desk
  <2>c0. StepsOK'
    BY <1>m, <2>1 DEF StepsOK
  <2>c1. EarlyOK'
    BY <1>m, <2>1 DEF EarlyOK, Claimed
  <2>c2. DecideOK'
    BY <1>m, <2>1 DEF DecideOK, Claimed
  <2>c3. ValidateOK'
    BY <1>m, <2>1 DEF ValidateOK
  <2>c4. MetaOK'
    BY <1>m, <2>1 DEF MetaOK
  <2>c5. MakerBlocked'
    BY <1>m, <2>1 DEF MakerBlocked
  <2>c6. (FourEyes /\ RowHasFourEyes)'
    BY <1>m, <2>1 DEF FourEyes, RowHasFourEyes
  <2> QED BY <2>c0, <2>c1, <2>c2, <2>c3, <2>c4, <2>c5, <2>c6
<1>11. CASE ConsumerFails
  <2>1. UNCHANGED <<claim, meta, item, request, review>>
    BY <1>11 DEF ConsumerFails, desk
  <2>c0. StepsOK'
    BY <2>1 DEF StepsOK
  <2>c1. EarlyOK'
    BY <2>1 DEF EarlyOK, Claimed
  <2>c2. DecideOK'
    BY <2>1 DEF DecideOK, Claimed
  <2>c3. ValidateOK'
    BY <2>1 DEF ValidateOK
  <2>c4. MetaOK'
    BY <2>1 DEF MetaOK
  <2>c5. MakerBlocked'
    BY <2>1 DEF MakerBlocked
  <2>c6. (FourEyes /\ RowHasFourEyes)'
    BY <2>1 DEF FourEyes, RowHasFourEyes
  <2> QED BY <2>c0, <2>c1, <2>c2, <2>c3, <2>c4, <2>c5, <2>c6
<1> QED BY <1>1, <1>2, <1>3, <1>4, <1>5, <1>6, <1>7, <1>8, <1>9, <1>10, <1>11 DEF Consumer

LEMMA EyesStutter == ASSUME EyesInv, UNCHANGED vars PROVE EyesInv'
BY DEF EyesInv, StepsOK, EarlyOK, Early, Claimed, DecideOK, ValidateOK, MetaOK, MakerBlocked,
   FourEyes, RowHasFourEyes, vars

LEMMA EyesStep == ASSUME Calm, IType, EyesInv, [Next]_vars PROVE EyesInv'
<1>1. IType' /\ (Early' => Early)
  BY TypeStep, EarlyNeverReturns
<1>2. QED BY <1>1, EyesRequest, EyesOther, EyesStutter DEF Next

(* "The maker can never be their own checker", neither in the workflow nor *)
(* by closing the row, up to the first trouble that the claim does not     *)
(* protect from: for any number of reviewers, overlapping requests, failed *)
(* calls, unsent signals and failures of the consumer.                     *)
THEOREM MakerNeverClosesItem == Spec => []UndisturbedFourEyes
<1> DEFINE Inv == Checked /\ ~disturbed => EyesInv
<1>1. Init => IType /\ Inv
  BY InitType, EyesInit
<1>2. IType /\ Inv /\ [Next]_vars => (IType /\ Inv)'
  <2> SUFFICES ASSUME IType, Inv, [Next]_vars PROVE IType' /\ Inv'
    OBVIOUS
  <2>1. ASSUME Checked, ~disturbed' PROVE EyesInv'
    BY <2>1, TroubleStays, EyesStep DEF Calm
  <2>2. QED BY <2>1, TypeStep
<1>3. IType /\ Inv => UndisturbedFourEyes
  BY DEF EyesInv, UndisturbedFourEyes
<1>4. QED BY <1>1, <1>2, <1>3, PTL DEF Spec

----------------------------------------------------------------------------
(* What the desk closes the workflow knows of, unless the answer says      *)
(* otherwise, whatever lapses, fails, is misread or is handled twice.      *)

(* A request that holds its signal for sent, and one that checks, follows  *)
(* a decision; only a request that answers for a decision closes anything. *)
AnswerOK(r) ==
  /\ request[r].op = "validate" \/ request[r].seen.validation \/ request[r].sent => Decided
  /\ request[r].step \in {"signal", "record", "forget"} =>
       request[r].op \in {"decide", "blind", "validate"}
  /\ request[r].op = "claim" => request[r].step = "claim"
  /\ request[r].op = "unclaim" =>
       request[r].step \in {"release", "delete", "misc", "read", "write"}
  /\ request[r].op = "none" => request[r].step = "idle"

DecidedInv ==
  /\ review.stage = "checking" \/ meta.validation => Decided
  /\ item.status # "decided" => item.by = None
  /\ \A r \in Reviewers : AnswerOK(r)

LEMMA DecidedInit == Init => DecidedInv
BY DEF Init, DecidedInv, AnswerOK, Idle, NoMeta

LEMMA IdleIsAnswered ==
  ASSUME NEW r \in Reviewers, request'[r] = Idle PROVE AnswerOK(r)'
BY DEF AnswerOK, Idle, NoMeta

(* A step that leaves a request alone and the decision standing leaves     *)
(* what is said of the request standing.                                   *)
LEMMA OthersAnswered ==
  ASSUME NEW r \in Reviewers, AnswerOK(r), request'[r] = request[r], Decided => Decided'
  PROVE  AnswerOK(r)'
BY DEF AnswerOK

(* A decision is replaced, never withdrawn.                                *)
LEMMA DecidedStands == ASSUME IType, [Next]_vars PROVE Decided => Decided'
<1>1. ASSUME NEW r \in Reviewers, Reviewer(r) PROVE Decided => Decided'
  <2>1. CASE Signal(r)
    BY <2>1, NoneIsNoReviewer DEF Signal, Signalled, Decided, IType, TypeOK
  <2>2. CASE UNCHANGED review
    BY <2>2 DEF Decided
  <2>3. QED BY <1>1, <2>1, <2>2 DEF Reviewer, BeginDecide, BeginBlind, BeginValidate, BeginClaim,
          BeginUnclaim, Begin, TakeClaim, Record, ReadClaim, DeleteClaim, Forget, RedisFails,
          MoveToMisc, ReadMeta, WriteMeta
<1>2. CASE MakerDecides \/ Concludes
  BY <1>2 DEF MakerDecides, Concludes, Decided, IType, TypeOK
<1>3. CASE UNCHANGED review
  BY <1>3 DEF Decided
<1>4. QED BY <1>1, <1>2, <1>3 DEF Next, AdminAssigns, Lapse, Consumer, OpenItem, SetMeta,
        ReadForValidation, WriteValidation, FreeClaim, Commit, ConsumerFails, vars

(* The steps of a request.                                                 *)
LEMMA DecidedRequest ==
  ASSUME IType, DecidedInv, NEW r \in Reviewers, Reviewer(r), Decided => Decided'
  PROVE  DecidedInv'
<1>t. request \in [Reviewers -> Requests]
  BY DEF IType, TypeOK
<1>a. \A q \in Reviewers : AnswerOK(q)
  BY DEF DecidedInv
<1> DEFINE Alone == \A q \in Reviewers \ {r} : request'[q] = request[q]
           Kept  == UNCHANGED <<meta, item, review>>
<1>o. ASSUME Alone PROVE \A q \in Reviewers \ {r} : AnswerOK(q)'
  BY <1>o, <1>a, OthersAnswered
<1>e. ASSUME Ends(r) PROVE Alone /\ AnswerOK(r)'
  BY <1>e, <1>t, IdleIsAnswered DEF Ends
<1>0. ASSUME NEW s, Then(r, s)
      PROVE  /\ Alone /\ request'[r].op = request[r].op /\ request'[r].step = s
             /\ request'[r].seen = request[r].seen /\ request'[r].sent = request[r].sent
  BY <1>0, <1>t DEF Then, Requests
<1>k. ASSUME Kept
      PROVE  /\ (review.stage = "checking" \/ meta.validation => Decided)'
             /\ (item.status # "decided" => item.by = None)'
  BY <1>k DEF DecidedInv, Decided
<1>b. ASSUME NEW op \in Operations, NEW s \in {"claim", "release", "signal"}, NEW c,
             Begin(r, op, s, c), op = "validate" => meta.validation,
             s = "signal" => op = "blind", s = "release" <=> op = "unclaim"
      PROVE  DecidedInv'
  <2>1. /\ Alone /\ Kept /\ request'[r].op = op /\ request'[r].step = s
        /\ ~request'[r].seen.validation /\ ~request'[r].sent
    BY <1>b, <1>t DEF Begin, desk, Idle, NoMeta
  <2>2. AnswerOK(r)'
    BY <1>b, <2>1 DEF AnswerOK, Operations, DecidedInv
  <2>3. QED BY <2>1, <2>2, <1>o, <1>k DEF DecidedInv
<1>1. CASE BeginDecide(r) \/ BeginBlind(r) \/ BeginValidate(r) \/ BeginClaim(r) \/ BeginUnclaim(r)
  BY <1>1, <1>b DEF BeginDecide, BeginBlind, BeginValidate, BeginClaim, BeginUnclaim, Operations
<1>2. CASE TakeClaim(r)
  <2>1. Kept /\ request[r].step = "claim" /\ request[r] \in Requests
    BY <1>2, <1>t DEF TakeClaim
  <2>2. CASE Ends(r)
    BY <2>1, <2>2, <1>e, <1>o, <1>k DEF DecidedInv
  <2>3. CASE request[r].op # "claim" /\ Then(r, "signal")
    <3>1. /\ Alone /\ request'[r].op = request[r].op /\ request'[r].step = "signal"
          /\ request'[r].seen = request[r].seen /\ request'[r].sent = request[r].sent
      BY <2>3, <1>0
    <3>2. AnswerOK(r)'
      BY <1>a, <2>1, <2>3, <3>1 DEF AnswerOK, Requests, Operations
    <3>3. QED BY <2>1, <3>1, <3>2, <1>o, <1>k DEF DecidedInv
  <2>4. QED BY <1>2, <2>2, <2>3 DEF TakeClaim
<1>3. CASE Signal(r)
  <2>1. /\ UNCHANGED <<meta, item>> /\ request[r].step = "signal" /\ request[r] \in Requests
        /\ review'.stage = review.stage
    BY <1>3, <1>t DEF Signal, desk, Signalled, IType, TypeOK
  <2>2. /\ (review.stage = "checking" \/ meta.validation => Decided)'
        /\ (item.status # "decided" => item.by = None)'
    BY <2>1 DEF DecidedInv
  <2>3. CASE Ends(r)
    BY <2>2, <2>3, <1>e, <1>o DEF DecidedInv
  <2>4. ASSUME NEW sent \in BOOLEAN, GoesOn(r, sent), sent => review' = Signalled(r)
        PROVE  DecidedInv'
    <3>1. request[r].op \in {"decide", "blind", "validate"}
      BY <1>a, <2>1 DEF AnswerOK
    <3>2. sent => Decided'
      <4>1. CASE Decides(r)
        BY <2>4, <4>1, NoneIsNoReviewer DEF Signalled, Decided, IType, TypeOK
      <4>2. CASE request[r].op = "validate"
        BY <1>a, <4>2 DEF AnswerOK
      <4>3. QED BY <3>1, <4>1, <4>2 DEF Decides
    <3>3. \/ Ends(r)
          \/ \E s \in {"read", "record"} :
                /\ request' = [request EXCEPT ![r].step = s, ![r].sent = sent]
      BY <2>4 DEF GoesOn
    <3>4. ASSUME NEW s \in {"read", "record"},
                 request' = [request EXCEPT ![r].step = s, ![r].sent = sent]
          PROVE  DecidedInv'
      <4>1. /\ Alone /\ request'[r].op = request[r].op /\ request'[r].step = s
            /\ request'[r].seen = request[r].seen /\ request'[r].sent = sent
        BY <3>4, <1>t DEF Requests
      <4>2. AnswerOK(r)'
        BY <1>a, <3>1, <3>2, <4>1 DEF AnswerOK
      <4>3. QED BY <2>2, <4>1, <4>2, <1>o DEF DecidedInv
    <3>5. QED BY <3>3, <3>4, <2>3
  <2>5. CASE review' = Signalled(r) /\ GoesOn(r, TRUE)  BY <2>4, <2>5
  <2>6. CASE UNCHANGED review /\ GoesOn(r, FALSE)       BY <2>4, <2>6
  <2>7. QED BY <1>3, <2>3, <2>5, <2>6 DEF Signal
<1>p. ASSUME request[r].step \notin {"idle", "claim"}
      PROVE  request[r].op # "claim" /\ request[r].op # "none"
  BY <1>p, <1>a DEF AnswerOK
<1>4. ASSUME UNCHANGED <<meta, review>>, (item.status # "decided" => item.by = None)',
             NEW s \in {"release", "delete", "misc", "read", "write", "forget"}, Then(r, s),
             request[r].step \notin {"idle", "claim"},
             s = "forget" => request[r].op \in {"decide", "blind", "validate"}
      PROVE  DecidedInv'
  <2>1. /\ Alone /\ request'[r].op = request[r].op /\ request'[r].step = s
        /\ request'[r].seen = request[r].seen /\ request'[r].sent = request[r].sent
    BY <1>4, <1>0
  <2>2. (review.stage = "checking" \/ meta.validation => Decided)'
    BY <1>4 DEF DecidedInv, Decided
  <2>3. AnswerOK(r)'
    BY <1>a, <1>4, <1>p, <2>1 DEF AnswerOK
  <2>4. QED BY <1>4, <2>1, <2>2, <2>3, <1>o DEF DecidedInv
<1>5. CASE Record(r)
  <2>1. UNCHANGED <<meta, review>> /\ request[r].step = "record"
        /\ (item.status # "decided" => item.by = None)'
    BY <1>5 DEF Record, DecidedInv
  <2>2. CASE Then(r, "release")  BY <2>1, <2>2, <1>4
  <2>3. CASE Ends(r)
    BY <2>1, <2>3, <1>e, <1>o DEF DecidedInv, Decided
  <2>4. QED BY <1>5, <2>2, <2>3 DEF Record
<1>g. ASSUME request[r].step \in {"release", "delete"} PROVE
        AfterRelease(r) = "forget" => request[r].op \in {"decide", "blind", "validate"}
  BY <1>g, <1>a, <1>p, <1>t DEF AfterRelease, Requests, Operations
<1>6. CASE ReadClaim(r)
  <2>1. Kept /\ request[r].step = "release"
        /\ Then(r, IF claim = r THEN "delete" ELSE AfterRelease(r))
    BY <1>6 DEF ReadClaim, desk
  <2>2. CASE claim = r  BY <2>1, <2>2, <1>4, <1>k
  <2>3. CASE claim # r  BY <2>1, <2>3, <1>4, <1>g, <1>k DEF AfterRelease
  <2>4. QED BY <2>2, <2>3
<1>7. CASE DeleteClaim(r)
  <2>1. Kept /\ request[r].step = "delete" /\ Then(r, AfterRelease(r))
    BY <1>7 DEF DeleteClaim
  <2>2. QED BY <2>1, <1>4, <1>g, <1>k DEF AfterRelease
<1>8. CASE Forget(r)
  <2>1. UNCHANGED <<item, review>> /\ Ends(r) /\ ~meta'.validation
    BY <1>8 DEF Forget, NoMeta
  <2>2. /\ (review.stage = "checking" \/ meta.validation => Decided)'
        /\ (item.status # "decided" => item.by = None)'
    BY <2>1 DEF DecidedInv, Decided
  <2>3. QED BY <2>1, <2>2, <1>e, <1>o DEF DecidedInv
<1>9. CASE RedisFails(r)
  BY <1>9, <1>e, <1>o, <1>k DEF RedisFails, desk, DecidedInv
<1>10. CASE MoveToMisc(r)
  <2>1. Kept /\ request[r].step = "misc"
    BY <1>10 DEF MoveToMisc, desk
  <2>2. CASE Ends(r)  BY <2>1, <2>2, <1>e, <1>o, <1>k DEF DecidedInv
  <2>3. CASE Then(r, "read")  BY <2>1, <2>3, <1>4, <1>k
  <2>4. QED BY <1>10, <2>2, <2>3 DEF MoveToMisc
<1>11. CASE ReadMeta(r)
  <2>1. /\ Kept /\ Alone /\ request[r].step = "read" /\ request'[r].step = "write"
        /\ request'[r].op = request[r].op /\ request'[r].seen = meta
        /\ request'[r].sent = request[r].sent
    BY <1>11, <1>t DEF ReadMeta, desk, Requests
  <2>2. meta.validation => Decided'
    BY DEF DecidedInv
  <2>3. AnswerOK(r)'
    BY <1>a, <2>1, <2>2, <1>p DEF AnswerOK
  <2>4. QED BY <2>1, <2>3, <1>o, <1>k DEF DecidedInv
<1>12. CASE WriteMeta(r)
  <2>1. /\ UNCHANGED <<item, review>> /\ Ends(r)
        /\ meta'.validation = request[r].seen.validation
    <3>1. request[r].seen \in Metas
      BY <1>t DEF Requests
    <3>2. QED BY <1>12, <3>1 DEF WriteMeta, Metas
  <2>2. /\ (review.stage = "checking" \/ meta.validation => Decided)'
        /\ (item.status # "decided" => item.by = None)'
    BY <1>a, <2>1 DEF DecidedInv, Decided, AnswerOK
  <2>3. QED BY <2>1, <2>2, <1>e, <1>o DEF DecidedInv
<1>13. QED BY <1>1, <1>2, <1>3, <1>5, <1>6, <1>7, <1>8, <1>9, <1>10, <1>11, <1>12 DEF Reviewer

(* The steps of the workflow, the administrators and the consumer.         *)
LEMMA DecidedOther ==
  ASSUME IType, DecidedInv, Decided => Decided',
         (\E r \in Reviewers : AdminAssigns(r)) \/ Lapse \/ MakerDecides \/ Concludes \/ Consumer
  PROVE  DecidedInv'
<1>1. UNCHANGED request
  BY DEF AdminAssigns, Lapse, MakerDecides, Concludes, Consumer, OpenItem, SetMeta,
     ReadForValidation, WriteValidation, FreeClaim, Commit, ConsumerFails, desk
<1>2. \A r \in Reviewers : AnswerOK(r)'
  BY <1>1, OthersAnswered DEF DecidedInv
<1>3. (review.stage = "checking" \/ meta.validation => Decided)'
  <2>1. CASE MakerDecides
    BY <2>1 DEF MakerDecides, Decided, IType, TypeOK
  <2>2. CASE Concludes
    BY <2>2 DEF Concludes, Decided, IType, TypeOK
  <2>3. CASE SetMeta
    BY <2>3 DEF SetMeta, DecidedInv, Decided
  <2>4. CASE WriteValidation
    <3>1. review.stage # "waiting" /\ UNCHANGED review
      BY <2>4, AnnouncedByMaker DEF WriteValidation
    <3>2. Decided
      BY <3>1 DEF DecidedInv, Decided, IType, TypeOK
    <3>3. QED BY <3>2
  <2>5. CASE UNCHANGED <<meta, review>>
    BY <2>5 DEF DecidedInv
  <2>6. QED BY <2>1, <2>2, <2>3, <2>4, <2>5 DEF AdminAssigns, Lapse, Consumer, OpenItem,
          ReadForValidation, FreeClaim, Commit, ConsumerFails, desk
<1>4. (item.status # "decided" => item.by = None)'
  BY DEF DecidedInv, AdminAssigns, Lapse, MakerDecides, Concludes, Consumer, OpenItem, SetMeta,
     ReadForValidation, WriteValidation, FreeClaim, Commit, ConsumerFails, desk
<1>5. QED BY <1>2, <1>3, <1>4 DEF DecidedInv

LEMMA DecidedStep == ASSUME IType, DecidedInv, [Next]_vars PROVE DecidedInv'
<1>1. Decided => Decided'
  BY DecidedStands
<1>2. CASE UNCHANGED vars
  BY <1>2 DEF vars, DecidedInv, AnswerOK, Decided
<1>3. QED BY <1>1, <1>2, DecidedRequest, DecidedOther DEF Next

Untold == \E r \in Reviewers : request'[r] # request[r] /\ ~request[r].sent

(* Only a request that answers for a decision closes anything.             *)
LEMMA ClosesDecided ==
  ASSUME IType, DecidedInv, [Next]_vars, Closes PROVE Decided \/ Untold
<1>t. request \in [Reviewers -> Requests]
  BY DEF IType, TypeOK
<1>1. PICK r \in Reviewers : Record(r) \/ Forget(r)
  <2>1. ASSUME NEW r \in Reviewers, WriteMeta(r) PROVE FALSE
    <3>1. request[r].seen \in Metas
      BY DEF IType, TypeOK, Requests
    <3>2. QED BY <2>1, <3>1 DEF WriteMeta, Metas, Closes
  <2>2. ~SetMeta /\ ~WriteValidation /\ ~OpenItem /\ ~UNCHANGED <<meta, item>>
    BY DEF SetMeta, WriteValidation, OpenItem, Closes, DecidedInv
  <2>3. QED BY <2>1, <2>2 DEF Next, Reviewer, BeginDecide, BeginBlind, BeginValidate, BeginClaim,
          BeginUnclaim, Begin, TakeClaim, Signal, ReadClaim, DeleteClaim, RedisFails,
          MoveToMisc, ReadMeta, AdminAssigns, Lapse, MakerDecides, Concludes, Consumer,
          ReadForValidation, FreeClaim, Commit, ConsumerFails, desk, vars
<1>2. request[r].step \in {"record", "forget"} /\ AnswerOK(r)
  BY <1>1 DEF Record, Forget, DecidedInv
<1>3. request'[r] # request[r]
  BY <1>1, <1>2, <1>t DEF Record, Forget, Then, Ends, Idle, Requests
<1>4. QED BY <1>2, <1>3 DEF AnswerOK, Untold

(* A row is closed and a record dropped only once some reviewer's decision *)
(* has reached the workflow, or by a request whose answer says that its    *)
(* signal was not sent: with or without maker-checker, whatever lapses,    *)
(* fails, is misread, not connected or handled twice.                      *)
THEOREM NothingClosedUntold == Spec => ClosedOnlyWhenTold
<1>1. Init => IType /\ DecidedInv
  BY InitType, DecidedInit
<1>2. IType /\ DecidedInv /\ [Next]_vars => (IType /\ DecidedInv)'
  BY TypeStep, DecidedStep
<1>3. IType /\ DecidedInv /\ [Next]_vars => [Closes => Decided \/ Untold]_vars
  BY ClosesDecided
<1>4. QED BY <1>1, <1>2, <1>3, PTL DEF Spec, ClosedOnlyWhenTold, Untold

(* Without maker-checker that decision is the final one the review waits   *)
(* for.                                                                    *)
THEOREM DirectIsClosedWhenFinal ==
  ASSUME ~Checked PROVE Spec => [][Closes => HasFinalDecision \/ Untold]_vars
<1>1. Decided => HasFinalDecision
  BY DEF Decided, HasFinalDecision
<1>2. [Closes => Decided \/ Untold]_vars => [Closes => HasFinalDecision \/ Untold]_vars
  BY <1>1
<1>3. QED BY <1>2, NothingClosedUntold, PTL DEF ClosedOnlyWhenTold, Untold

----------------------------------------------------------------------------
(* Two reviewers have acted on what is checked and on what is closed.      *)

(* The API accepted a decision of r.                                       *)
Acted(r) == \E b \in BOOLEAN : <<r, b>> \in accepted

(* Whoever a record, or a copy of it, names as maker has acted, and it     *)
(* asks for a checker only when it names one.                              *)
NamesMaker(m) == (m.maker # None => Acted(m.maker)) /\ (m.validation => m.maker # None)

WorkflowNames ==
  /\ review.decision # None => Acted(review.decision)
  /\ review.maker # None => Acted(review.maker)
  /\ events \notin {<<>>, <<"REVIEW">>} => review.maker # None

RequestNames(r) ==
  /\ NamesMaker(request[r].seen)
  /\ request[r].op = "decide" /\ request[r].step \in {"read", "write"} => Acted(r)
  /\ request[r].op = "validate" => NotAlone(r)
  /\ request[r].step = "record" =>
       /\ request[r].op \in {"decide", "blind", "validate"}
       /\ request[r].op # "validate" => <<r, FALSE>> \in accepted
  /\ request[r].step = "signal" => request[r].op \in {"decide", "blind", "validate"}
  /\ request[r].op = "claim" => request[r].step = "claim"
  /\ request[r].step = "misc" => request[r].op = "unclaim"
  /\ request[r].op = "unclaim" =>
       request[r].step \in {"release", "delete", "misc", "read", "write"}
  /\ request[r].op = "none" => request[r].step = "idle"

AloneInv == /\ WorkflowNames /\ NamesMaker(meta) /\ \A r \in Reviewers : RequestNames(r)
            /\ NoOneClosesAlone

LEMMA AloneInit == Init => AloneInv
<1> SUFFICES ASSUME Init PROVE AloneInv
  OBVIOUS
<1>1. NamesMaker(NoMeta)
  BY DEF NamesMaker, NoMeta
<1>2. \A r \in Reviewers : RequestNames(r)
  BY <1>1 DEF Init, RequestNames, Idle
<1>3. QED BY <1>1, <1>2 DEF Init, AloneInv, WorkflowNames, NoOneClosesAlone

(* What is accepted stays accepted, so what was said of it stays true.     *)
LEMMA AcceptedStays == ASSUME IType, [Next]_vars PROVE accepted \subseteq accepted'
<1>1. ASSUME NEW r \in Reviewers, Reviewer(r) \/ AdminAssigns(r) PROVE accepted \subseteq accepted'
  BY <1>1 DEF Reviewer, AdminAssigns, BeginDecide, BeginBlind, BeginValidate, BeginClaim,
     BeginUnclaim, Begin, TakeClaim, Signal, GoesOn, Record, ReadClaim, DeleteClaim, Forget,
     RedisFails, MoveToMisc, ReadMeta, WriteMeta, past
<1>2. CASE MakerDecides \/ Concludes \/ Consumer \/ Lapse \/ UNCHANGED vars
  BY <1>2 DEF MakerDecides, Concludes, Consumer, OpenItem, SetMeta, ReadForValidation,
     WriteValidation, FreeClaim, Commit, ConsumerFails, Lapse, vars, past
<1>3. QED BY <1>1, <1>2 DEF Next

LEMMA ActedStays ==
  ASSUME accepted \subseteq accepted', NEW r
  PROVE  (Acted(r) => Acted(r)') /\ (NotAlone(r) => NotAlone(r)')
BY DEF Acted, NotAlone

LEMMA NamesStays ==
  ASSUME accepted \subseteq accepted', NEW m, NamesMaker(m), NEW n, n = m
  PROVE  /\ n.maker # None => Acted(n.maker)'
         /\ n.validation => n.maker # None
BY ActedStays DEF NamesMaker

LEMMA ActedIsNotAlone == ASSUME NEW q, NEW r, Acted(q), q # r PROVE NotAlone(r)
<1>1. PICK b \in BOOLEAN : <<q, b>> \in accepted
  BY DEF Acted
<1>2. <<q, b>>[1] = q
  OBVIOUS
<1>3. QED BY <1>1, <1>2 DEF NotAlone

LEMMA RequestStays ==
  ASSUME accepted \subseteq accepted', NEW r \in Reviewers, RequestNames(r),
         request'[r] = request[r]
  PROVE  RequestNames(r)'
<1>1. NamesMaker(request[r].seen)'
  BY NamesStays DEF RequestNames, NamesMaker
<1>2. QED BY <1>1, ActedStays DEF RequestNames

LEMMA IdleNames == ASSUME NEW r \in Reviewers, request'[r] = Idle PROVE RequestNames(r)'
<1>1. NamesMaker(NoMeta)'
  BY DEF NamesMaker, NoMeta
<1>2. QED BY <1>1 DEF RequestNames, Idle

(* Nothing that the workflow, the record or the row says changes.          *)
LEMMA NamesKept ==
  ASSUME AloneInv, accepted \subseteq accepted', UNCHANGED <<meta, item, review, events>>
  PROVE  WorkflowNames' /\ NamesMaker(meta)' /\ NoOneClosesAlone'
<1>1. WorkflowNames'
  BY ActedStays DEF AloneInv, WorkflowNames
<1>2. NamesMaker(meta)'
  BY NamesStays DEF AloneInv, NamesMaker
<1>3. NoOneClosesAlone'
  BY ActedStays DEF AloneInv, NoOneClosesAlone
<1>4. QED BY <1>1, <1>2, <1>3

LEMMA AloneRequest ==
  ASSUME IType, AloneInv, NEW r \in Reviewers, Reviewer(r), accepted \subseteq accepted'
  PROVE  AloneInv'
<1>t. request \in [Reviewers -> Requests]
  BY DEF IType, TypeOK
<1>a. \A q \in Reviewers : RequestNames(q)
  BY DEF AloneInv
<1> DEFINE Alone == \A q \in Reviewers \ {r} : request'[q] = request[q]
           Kept  == UNCHANGED <<meta, item, review, events>>
<1>k. ASSUME Kept, Alone, RequestNames(r)' PROVE AloneInv'
  <2>1. WorkflowNames' /\ NamesMaker(meta)' /\ NoOneClosesAlone'
    BY <1>k, NamesKept
  <2>2. \A q \in Reviewers : RequestNames(q)'
    BY <1>k, <1>a, RequestStays
  <2>3. QED BY <2>1, <2>2 DEF AloneInv
<1>e. ASSUME Ends(r) PROVE Alone /\ RequestNames(r)'
  BY <1>e, <1>t, IdleNames DEF Ends
<1>0. ASSUME NEW s, Then(r, s)
      PROVE  /\ Alone /\ request'[r].op = request[r].op /\ request'[r].step = s
             /\ request'[r].seen = request[r].seen
  BY <1>0, <1>t DEF Then, Requests
<1>s. request'[r].seen = request[r].seen => NamesMaker(request[r].seen)'
  BY <1>a, NamesStays DEF RequestNames, NamesMaker
<1>n. NamesMaker(NoMeta)'
  BY DEF NamesMaker, NoMeta
<1>b. ASSUME NEW op \in Operations, NEW s \in {"claim", "release", "signal"}, NEW c,
             Begin(r, op, s, c), op = "validate" => meta.validation /\ meta.maker # r,
             s = "signal" => op = "blind", s = "release" <=> op = "unclaim"
      PROVE  AloneInv'
  <2>1. /\ Alone /\ Kept /\ request'[r].op = op /\ request'[r].step = s
        /\ request'[r].seen = NoMeta
    BY <1>b, <1>t DEF Begin, desk, Idle
  <2>2. op = "validate" => NotAlone(r)
    BY <1>b, ActedIsNotAlone DEF AloneInv, NamesMaker
  <2>3. RequestNames(r)'
    BY <1>b, <1>n, <2>1, <2>2, ActedStays DEF RequestNames, Operations
  <2>4. QED BY <2>1, <2>3, <1>k
<1>1. CASE BeginDecide(r) \/ BeginBlind(r) \/ BeginValidate(r) \/ BeginClaim(r) \/ BeginUnclaim(r)
  BY <1>1, <1>b DEF BeginDecide, BeginBlind, BeginValidate, BeginClaim, BeginUnclaim, Operations
<1>2. CASE TakeClaim(r)
  <2>1. Kept /\ request[r].step = "claim" /\ request[r] \in Requests
    BY <1>2, <1>t DEF TakeClaim
  <2>2. CASE Ends(r)  BY <2>1, <2>2, <1>e, <1>k
  <2>3. CASE request[r].op # "claim" /\ Then(r, "signal")
    <3>0. /\ Alone /\ request'[r].op = request[r].op /\ request'[r].step = "signal"
          /\ request'[r].seen = request[r].seen
      BY <2>3, <1>0
    <3>1. RequestNames(r)'
      BY <1>a, <1>s, <2>1, <2>3, <3>0, ActedStays DEF RequestNames, Requests, Operations
    <3>2. QED BY <2>1, <3>0, <3>1, <1>k
  <2>4. QED BY <1>2, <2>2, <2>3 DEF TakeClaim
<1>3. CASE Signal(r)
  <2>1. /\ UNCHANGED <<meta, item, events>> /\ request[r].step = "signal"
        /\ request[r] \in Requests /\ request[r].op \in {"decide", "blind", "validate"}
    BY <1>3, <1>t, <1>a DEF Signal, desk, RequestNames
  <2>2. CASE Ends(r) /\ UNCHANGED review
    BY <2>1, <2>2, <1>e, <1>k
  <2>3. ASSUME NEW sent \in BOOLEAN, GoesOn(r, sent), NEW v \in {review, Signalled(r)}, review' = v
        PROVE  AloneInv'
    <3>1. \/ Ends(r)
          \/ /\ request[r].op = "decide"
             /\ request' = [request EXCEPT ![r].step = "read", ![r].sent = sent]
          \/ /\ request' = [request EXCEPT ![r].step = "record", ![r].sent = sent]
             /\ request[r].op # "validate" => ~request[r].checked
      BY <2>1, <2>3 DEF GoesOn, Decides
    <3>2. request[r].op # "validate" => <<r, request[r].checked>> \in accepted' /\ Acted(r)'
      BY <2>1, <2>3 DEF GoesOn, Decides, Acted, Requests
    <3>3. ASSUME NEW s \in {"read", "record"},
                 request' = [request EXCEPT ![r].step = s, ![r].sent = sent]
          PROVE  /\ Alone /\ request'[r].op = request[r].op /\ request'[r].step = s
                 /\ request'[r].seen = request[r].seen
      BY <3>3, <1>t DEF Requests
    <3>4. Alone /\ RequestNames(r)'
      <4>1. CASE Ends(r)
        BY <4>1, <1>e
      <4>2. CASE /\ request[r].op = "decide"
                 /\ request' = [request EXCEPT ![r].step = "read", ![r].sent = sent]
        BY <4>2, <3>2, <3>3, <1>s DEF RequestNames
      <4>3. CASE /\ request' = [request EXCEPT ![r].step = "record", ![r].sent = sent]
                 /\ request[r].op # "validate" => ~request[r].checked
        <5>1. request[r].op # "validate" => <<r, FALSE>> \in accepted'
          BY <2>1, <3>2, <4>3 DEF Requests
        <5>2. QED BY <4>3, <5>1, <2>1, <3>3, <1>s, <1>a, ActedStays DEF RequestNames
      <4>4. QED BY <3>1, <4>1, <4>2, <4>3
    <3>5. /\ review'.maker = review.maker
          /\ \/ review'.decision = review.decision
             \/ review'.decision = r /\ request[r].op # "validate"
          /\ \/ review'.checker = review.checker
             \/ review'.checker = r /\ request[r].op = "validate"
      <4>1. CASE Decides(r)
        BY <2>1, <2>3, <4>1 DEF Signalled, Decides, IType, TypeOK
      <4>2. CASE ~Decides(r)
        <5>1. v \in {review, [review EXCEPT !.checker = r]}
          BY <2>3, <4>2 DEF Signalled
        <5>2. request[r].op = "validate"
          BY <2>1, <4>2 DEF Decides
        <5>3. QED BY <2>3, <5>1, <5>2 DEF IType, TypeOK
      <4>3. QED BY <4>1, <4>2
    <3>6. WorkflowNames'
      BY <2>1, <3>2, <3>5, ActedStays DEF AloneInv, WorkflowNames
    <3>7. NamesMaker(meta)'
      BY <2>1, NamesStays DEF AloneInv, NamesMaker
    <3>8. NoOneClosesAlone'
      BY <1>a, <2>1, <3>5, ActedStays DEF AloneInv, NoOneClosesAlone, RequestNames
    <3>9. QED BY <3>4, <3>6, <3>7, <3>8, <1>a, RequestStays DEF AloneInv
  <2>4. CASE review' = Signalled(r) /\ GoesOn(r, TRUE)  BY <2>3, <2>4
  <2>5. CASE UNCHANGED review /\ GoesOn(r, FALSE)       BY <2>3, <2>5
  <2>6. QED BY <1>3, <2>2, <2>4, <2>5 DEF Signal
<1>4. ASSUME Kept, NEW s \in {"release", "delete", "misc", "read", "forget"}, Then(r, s),
             request[r].step \notin {"idle", "claim"},
             s \in {"read", "misc"} => request[r].op = "unclaim",
             s = "forget" => request[r].op # "unclaim"
      PROVE  AloneInv'
  <2>1. /\ Alone /\ request'[r].op = request[r].op /\ request'[r].step = s
        /\ request'[r].seen = request[r].seen
    BY <1>4, <1>0
  <2>2. RequestNames(r)'
    BY <1>4, <1>a, <1>s, <2>1, ActedStays DEF RequestNames
  <2>3. QED BY <1>4, <2>1, <2>2, <1>k
<1>5. CASE Record(r)
  <2>1. /\ UNCHANGED <<meta, review, events>> /\ request[r].step = "record"
        /\ item'.by \in {item.by, r} /\ request[r].op \in {"decide", "blind", "validate"}
    <3>1. UNCHANGED <<meta, review, events>> /\ request[r].step = "record"
          /\ item'.by \in {item.by, r}
      BY <1>5 DEF Record
    <3>2. QED BY <3>1, <1>a DEF RequestNames
  <2>2. WorkflowNames' /\ NamesMaker(meta)'
    BY <2>1, ActedStays, NamesStays DEF AloneInv, WorkflowNames, NamesMaker
  <2>3. <<r, FALSE>> \in accepted' \/ NotAlone(r)'
    BY <1>a, <2>1, ActedStays DEF RequestNames
  <2>4. NoOneClosesAlone'
    BY <2>1, <2>3, ActedStays DEF AloneInv, NoOneClosesAlone
  <2>5. Alone /\ RequestNames(r)'
    <3>1. CASE Ends(r)  BY <3>1, <1>e
    <3>2. CASE Then(r, "release")
      <4>1. /\ Alone /\ request'[r].op = request[r].op /\ request'[r].step = "release"
            /\ request'[r].seen = request[r].seen
        BY <3>2, <1>0
      <4>2. QED BY <4>1, <1>a, <1>s, <2>1, ActedStays DEF RequestNames
    <3>3. QED BY <1>5, <3>1, <3>2 DEF Record
  <2>6. QED BY <2>2, <2>4, <2>5, <1>a, RequestStays DEF AloneInv
<1>6. CASE ReadClaim(r)
  <2>1. Kept /\ request[r].step = "release"
        /\ Then(r, IF claim = r THEN "delete" ELSE AfterRelease(r))
    BY <1>6 DEF ReadClaim, desk
  <2>2. CASE claim = r  BY <2>1, <2>2, <1>4
  <2>3. CASE claim # r  BY <2>1, <2>3, <1>4 DEF AfterRelease
  <2>4. QED BY <2>2, <2>3
<1>7. CASE DeleteClaim(r)
  <2>1. Kept /\ request[r].step = "delete" /\ Then(r, AfterRelease(r))
    BY <1>7 DEF DeleteClaim
  <2>2. QED BY <2>1, <1>4 DEF AfterRelease
<1>8. CASE Forget(r)
  <2>1. UNCHANGED <<item, review, events>> /\ Ends(r) /\ meta' = NoMeta
    BY <1>8 DEF Forget
  <2>2. NamesMaker(meta)'
    BY <2>1, <1>n DEF NamesMaker
  <2>3. WorkflowNames' /\ NoOneClosesAlone'
    BY <2>1, ActedStays DEF AloneInv, WorkflowNames, NoOneClosesAlone
  <2>4. QED BY <2>1, <2>2, <2>3, <1>e, <1>a, RequestStays DEF AloneInv
<1>9. CASE RedisFails(r)
  BY <1>9, <1>e, <1>k DEF RedisFails, desk
<1>10. CASE MoveToMisc(r)
  <2>1. Kept /\ request[r].step = "misc"
    BY <1>10 DEF MoveToMisc, desk
  <2>2. CASE Ends(r)  BY <2>1, <2>2, <1>e, <1>k
  <2>3. CASE Then(r, "read")
    <3>1. request[r].op = "unclaim"
      BY <2>1, <1>a DEF RequestNames
    <3>2. QED BY <2>1, <2>3, <3>1, <1>4
  <2>4. QED BY <1>10, <2>2, <2>3 DEF MoveToMisc
<1>11. CASE ReadMeta(r)
  <2>1. /\ Kept /\ Alone /\ request[r].step = "read" /\ request'[r].step = "write"
        /\ request'[r].op = request[r].op /\ request'[r].seen = meta
    BY <1>11, <1>t DEF ReadMeta, desk, Requests
  <2>2. NamesMaker(request[r].seen)'
    BY <2>1, NamesStays DEF AloneInv, NamesMaker
  <2>3. RequestNames(r)'
    BY <1>a, <2>1, <2>2, ActedStays DEF RequestNames
  <2>4. QED BY <2>1, <2>3, <1>k
<1>12. CASE WriteMeta(r)
  <2>1. /\ UNCHANGED <<item, review, events>> /\ Ends(r) /\ request[r].step = "write"
        /\ meta'.validation = request[r].seen.validation
        /\ meta'.maker = IF request[r].op = "decide" THEN r ELSE request[r].seen.maker
    <3>1. request[r].seen \in Metas
      BY <1>t DEF Requests
    <3>2. QED BY <1>12, <3>1 DEF WriteMeta, Metas
  <2>2. NamesMaker(meta)'
    <3>1. NamesMaker(request[r].seen) /\ (request[r].op = "decide" => Acted(r))
      BY <1>a, <2>1 DEF RequestNames
    <3>2. QED BY <2>1, <3>1, ActedStays, NoneIsNoReviewer DEF NamesMaker
  <2>3. WorkflowNames' /\ NoOneClosesAlone'
    BY <2>1, ActedStays DEF AloneInv, WorkflowNames, NoOneClosesAlone
  <2>4. QED BY <2>1, <2>2, <2>3, <1>e, <1>a, RequestStays DEF AloneInv
<1>13. QED BY <1>1, <1>2, <1>3, <1>5, <1>6, <1>7, <1>8, <1>9, <1>10, <1>11, <1>12 DEF Reviewer

LEMMA AloneOther ==
  ASSUME IType, AloneInv, accepted \subseteq accepted',
         (\E r \in Reviewers : AdminAssigns(r)) \/ Lapse \/ MakerDecides \/ Concludes \/ Consumer
         \/ UNCHANGED vars
  PROVE  AloneInv'
<1>1. UNCHANGED request
  BY DEF AdminAssigns, Lapse, MakerDecides, Concludes, Consumer, OpenItem, SetMeta,
     ReadForValidation, WriteValidation, FreeClaim, Commit, ConsumerFails, desk, vars
<1>2. \A r \in Reviewers : RequestNames(r)'
  BY <1>1, RequestStays DEF AloneInv
<1>k. ASSUME UNCHANGED <<meta, item, review, events>> PROVE AloneInv'
  BY <1>k, <1>2, NamesKept DEF AloneInv
<1>3. CASE MakerDecides
  <2>1. /\ UNCHANGED <<meta, item>> /\ review.decision # None
        /\ review'.decision = review.decision /\ review'.checker = review.checker
        /\ review'.maker = review.decision
    BY <1>3 DEF MakerDecides, desk, IType, TypeOK
  <2>2. WorkflowNames'
    BY <2>1, ActedStays DEF AloneInv, WorkflowNames
  <2>3. NamesMaker(meta)' /\ NoOneClosesAlone'
    BY <2>1, ActedStays, NamesStays DEF AloneInv, NamesMaker, NoOneClosesAlone
  <2>4. QED BY <1>2, <2>2, <2>3 DEF AloneInv
<1>4. CASE Concludes
  <2>1. /\ UNCHANGED <<meta, item, events>>
        /\ review'.decision = review.decision /\ review'.checker = review.checker
        /\ review'.maker = review.maker
    BY <1>4 DEF Concludes, desk, IType, TypeOK
  <2>2. WorkflowNames' /\ NamesMaker(meta)' /\ NoOneClosesAlone'
    BY <2>1, ActedStays, NamesStays DEF AloneInv, WorkflowNames, NamesMaker, NoOneClosesAlone
  <2>3. QED BY <1>2, <2>2 DEF AloneInv
<1>5. CASE OpenItem
  <2>1. UNCHANGED <<meta, review, events>> /\ item'.by \in {None, item.by}
    BY <1>5 DEF OpenItem
  <2>2. WorkflowNames' /\ NamesMaker(meta)' /\ NoOneClosesAlone'
    BY <2>1, ActedStays, NamesStays DEF AloneInv, WorkflowNames, NamesMaker, NoOneClosesAlone
  <2>3. QED BY <1>2, <2>2 DEF AloneInv
<1>6. CASE SetMeta \/ WriteValidation
  <2>1. UNCHANGED <<item, review, events>>
    BY <1>6 DEF SetMeta, WriteValidation
  <2>2. NamesMaker(meta)'
    <3>1. CASE SetMeta  BY <3>1 DEF SetMeta, NamesMaker
    <3>2. CASE WriteValidation
      <4>1. events = <<"VALIDATION">>
        BY <3>2, Handling DEF WriteValidation
      <4>2. <<"VALIDATION">> # <<>> /\ <<"VALIDATION">> # <<"REVIEW">>
        OBVIOUS
      <4>3. review.maker # None /\ Acted(review.maker)
        BY <4>1, <4>2 DEF AloneInv, WorkflowNames
      <4>4. QED BY <3>2, <4>3, ActedStays DEF WriteValidation, NamesMaker
    <3>3. QED BY <1>6, <3>1, <3>2
  <2>3. WorkflowNames' /\ NoOneClosesAlone'
    BY <2>1, ActedStays DEF AloneInv, WorkflowNames, NoOneClosesAlone
  <2>4. QED BY <1>2, <2>2, <2>3 DEF AloneInv
<1>7. CASE Commit
  <2>1. UNCHANGED <<meta, item, review>> /\ consumer = "commit" /\ events' = Tail(events)
    BY <1>7 DEF Commit, desk
  <2>2. /\ Tail(<<"REVIEW">>) = <<>> /\ Tail(<<"VALIDATION">>) = <<>>
        /\ Tail(<<"REVIEW", "VALIDATION">>) = <<"VALIDATION">>
        /\ <<"REVIEW", "VALIDATION">> # <<"REVIEW">> /\ <<"REVIEW", "VALIDATION">> # <<>>
    OBVIOUS
  <2>3. events \in {<<"REVIEW">>, <<"VALIDATION">>, <<"REVIEW", "VALIDATION">>}
    BY <2>1 DEF IType, EventsOK
  <2>4. events' \notin {<<>>, <<"REVIEW">>} => events \notin {<<>>, <<"REVIEW">>}
    BY <2>1, <2>2, <2>3
  <2>5. WorkflowNames'
    BY <2>1, <2>4, ActedStays DEF AloneInv, WorkflowNames
  <2>6. NamesMaker(meta)' /\ NoOneClosesAlone'
    BY <2>1, ActedStays, NamesStays DEF AloneInv, NamesMaker, NoOneClosesAlone
  <2>7. QED BY <1>2, <2>5, <2>6 DEF AloneInv
<1>8. QED BY <1>3, <1>4, <1>5, <1>6, <1>7, <1>k DEF AdminAssigns, Lapse, Consumer,
        ReadForValidation, FreeClaim, ConsumerFails, desk, vars

(* Of a review with a checker, and of a checked row that is closed by      *)
(* anyone but a reviewer to whom maker-checker was off, two reviewers have *)
(* submitted decisions: for any number of reviewers and requests, whatever *)
(* lapses, fails, is misread, not connected or handled twice.              *)
THEOREM TwoHaveActed == Spec => []NoOneClosesAlone
<1>1. Init => IType /\ AloneInv
  BY InitType, AloneInit
<1>2. IType /\ AloneInv /\ [Next]_vars => (IType /\ AloneInv)'
  BY TypeStep, AcceptedStays, AloneRequest, AloneOther DEF Next
<1>3. AloneInv => NoOneClosesAlone
  BY DEF AloneInv
<1>4. QED BY <1>1, <1>2, <1>3, PTL DEF Spec
===========================================================================
