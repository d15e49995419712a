---------------------------- MODULE ReviewDesk ----------------------------
(***************************************************************************)
(* How reviewers and the human review workflow of one cheque meet.  They   *)
(* share no transaction: the reviewers' requests go through the API, which *)
(* keeps the claim and the item's allocation record in Redis; the workflow *)
(* takes their decisions as signals and announces its stages on a Kafka    *)
(* topic; the consumer of that topic writes the same allocation record.    *)
(*                                                                         *)
(* With maker-checker on (Checked) the first reviewer's decision has to be *)
(* checked by a second one.  A request is a sequence of Redis, Temporal    *)
(* and database calls, each of them a step here.  Time is abstract: claims *)
(* lapse and the workflow's waits time out at any moment.  What else may   *)
(* go wrong is chosen by Troubles; the failures of single calls always may.*)
(***************************************************************************)
EXTENDS Naturals, Sequences

CONSTANTS
  Reviewers,
  None,
  Checked,        \* maker_checker_enabled, as the workflow was started with
  Troubles,       \* which of AllTroubles may occur
  MaxRequests,    \* bound on the requests made for the item
  MaxFaults       \* bound on the consumer's crashes and Redis failures

ASSUME NoneIsNoReviewer == None \notin Reviewers

AllTroubles == {
  "lapse",        \* a claim ends early: its TTL, an unclaim, an admin's assignment
  "twice",        \* the consumer crashes after freeing a claim, and then frees it again
  "differs",      \* a request takes maker-checker for other than the workflow does: its
                  \* read failed (and counts as off), or the setting was changed since
  "unconnected",  \* an API process has had no Temporal client since it started
  "noredis"}      \* an API process has had no Redis since it started

ASSUME TroublesAssumption == Checked \in BOOLEAN /\ Troubles \subseteq AllTroubles
ASSUME BoundsAssumption == MaxRequests \in Nat /\ MaxFaults \in Nat

VARIABLES
  claim,      \* the value of the Redis key lock:cts:{instrument_id}
  meta,       \* the item's record in the Redis hash alloc-item:{bank_id}
  item,       \* the row of cts.human_review_items
  request,    \* what each reviewer's request in progress does next
  made,       \* how many requests were made
  review,     \* the HumanReviewWorkflow
  events,     \* queue events the consumer has not committed
  consumer,   \* the consumer of the topic cts.human.review
  faults,     \* crashes and Redis failures of the consumer so far
  accepted,   \* history: whose decisions the API accepted, and whether as a maker's
  disturbed   \* history: a trouble that the claim does not protect from has occurred

vars == <<claim, meta, item, request, made, review, events, consumer, faults, accepted,
          disturbed>>
desk == <<claim, meta, item>>
past == <<accepted, disturbed>>

Maybe == Reviewers \cup {None}

Metas  == [present : BOOLEAN, bucket : {"HR", "VAL", "MISC", None}, maker : Maybe,
           validation : BOOLEAN]
NoMeta == [present |-> FALSE, bucket |-> None, maker |-> None, validation |-> FALSE]

\* "blind" is a /decide in a process without Redis: no record is asked, no claim taken.
Operations == {"decide", "blind", "validate", "claim", "unclaim"}
Steps == {"idle", "claim", "signal", "record", "release", "delete", "forget", "misc",
          "read", "write"}
\* checked is what the request read of the setting, sent whether its signal was sent.
Requests == [op : Operations \cup {"none"}, step : Steps, seen : Metas, checked : BOOLEAN,
             sent : BOOLEAN]
Idle == [op |-> "none", step |-> "idle", seen |-> NoMeta, checked |-> FALSE, sent |-> FALSE]

Init ==
  /\ claim = None /\ meta = NoMeta
  /\ item = [status |-> "none", by |-> None]
  /\ request = [r \in Reviewers |-> Idle]
  /\ made = 0
  /\ review = [stage |-> "waiting", decision |-> None, maker |-> None, checker |-> None]
  /\ events = <<"REVIEW">>
  /\ consumer = "idle"
  /\ faults = 0
  /\ accepted = {} /\ disturbed = FALSE

----------------------------------------------------------------------------
(* The reviewers' requests *)

Then(r, step)   == request' = [request EXCEPT ![r].step = step]
Ends(r)         == request' = [request EXCEPT ![r] = Idle]

(* A request that passes its checks of the allocation record; the ones     *)
(* that fail them end there and change nothing.                            *)
Begin(r, op, step, checked) ==
  /\ request[r] = Idle /\ made < MaxRequests
  /\ request' = [request EXCEPT ![r] =
                   [Idle EXCEPT !.op = op, !.step = step, !.checked = checked]]
  /\ made' = made + 1
  /\ disturbed' = (disturbed \/ checked # Checked \/ op \in {"unclaim", "blind"})
  /\ UNCHANGED <<desk, review, events, consumer, faults, accepted>>

(* maker_checker_enabled as a request reads it.                            *)
Readings == IF "differs" \in Troubles THEN BOOLEAN ELSE {Checked}

(* Seeded bug: the maker is not kept from validating.                      *)
AnyoneValidates(r) ==
  TRUE \in Readings /\ meta.validation /\ Begin(r, "validate", "claim", TRUE)

BeginDecide(r) ==
  /\ meta.present /\ ~meta.validation
  /\ \E checked \in Readings : Begin(r, "decide", "claim", checked)
BeginBlind(r) ==
  "noredis" \in Troubles /\ \E checked \in Readings :
                             Begin(r, "blind", "signal", checked)
BeginValidate(r) ==
  /\ TRUE \in Readings /\ meta.validation /\ meta.maker # r
  /\ Begin(r, "validate", "claim", TRUE)
BeginClaim(r)    == meta.maker # r /\ Begin(r, "claim", "claim", Checked)
BeginUnclaim(r)  == "lapse" \in Troubles /\ Begin(r, "unclaim", "release", Checked)

(* SET NX: a free claim is taken, one's own is kept, another's refuses the *)
(* request.                                                                *)
TakeClaim(r) ==
  /\ request[r].step = "claim"
  /\ IF claim \in {None, r} THEN claim' = r ELSE UNCHANGED claim
  /\ IF claim \in {None, r} /\ request[r].op # "claim" THEN Then(r, "signal") ELSE Ends(r)
  /\ UNCHANGED <<meta, item, made, review, events, consumer, faults, past>>

(* receive_decision replaces the decision; receive_checker_decision is     *)
(* ignored unless it comes from someone else than the decision.  A review  *)
(* that is filing takes the signal and does nothing with it.               *)
Decides(r) == request[r].op \in {"decide", "blind"}

Signalled(r) ==
  IF review.stage = "done" THEN review
  ELSE IF Decides(r) THEN [review EXCEPT !.decision = r]
  ELSE IF review.decision \in {None, r} THEN review
  ELSE [review EXCEPT !.checker = r]

(* A decision taken as a maker's is noted in the allocation record, any    *)
(* other is final; without Redis there is no record to note it in.         *)
GoesOn(r, sent) ==
  /\ CASE Decides(r) /\ request[r].checked /\ request[r].op = "blind" -> Ends(r)
       [] Decides(r) /\ request[r].checked /\ request[r].op = "decide" ->
            request' = [request EXCEPT ![r].step = "read", ![r].sent = sent]
       [] OTHER -> request' = [request EXCEPT ![r].step = "record", ![r].sent = sent]
  /\ accepted' = IF Decides(r) THEN accepted \cup {<<r, request[r].checked>>} ELSE accepted
  /\ UNCHANGED disturbed

(* Seeded bug: the request goes on when the signal could not be sent.      *)
SignalNeverFails(r) ==
  /\ request[r].step = "signal"
  /\ \E sent \in BOOLEAN : review' = IF sent THEN Signalled(r) ELSE review
  /\ GoesOn(r, TRUE)
  /\ UNCHANGED <<desk, made, events, consumer, faults>>

(* The signal is sent, or Temporal refuses it and so does the API (503).   *)
(* A process without a Temporal client sends nothing and goes on: only the *)
(* answer tells, in signal_sent.                                           *)
Signal(r) ==
  /\ request[r].step = "signal"
  /\ \/ review' = Signalled(r) /\ GoesOn(r, TRUE)
     \/ UNCHANGED <<review, past>> /\ Ends(r)
     \/ "unconnected" \in Troubles /\ UNCHANGED review /\ GoesOn(r, FALSE)
  /\ UNCHANGED <<desk, made, events, consumer, faults>>

(* The decision is final: the row is decided, unless the database fails or *)
(* it is already; failure does not stop the request.                       *)
Record(r) ==
  /\ request[r].step = "record"
  /\ \/ item.status = "open" /\ item' = [status |-> "decided", by |-> r]
     \/ UNCHANGED item
  /\ IF request[r].op = "blind" THEN Ends(r) ELSE Then(r, "release")
  /\ UNCHANGED <<claim, meta, made, review, events, consumer, faults, past>>

(* release_lock reads the claim and then deletes it.                       *)
AfterRelease(r) == IF request[r].op = "unclaim" THEN "misc" ELSE "forget"

ReadClaim(r) ==
  /\ request[r].step = "release"
  /\ Then(r, IF claim = r THEN "delete" ELSE AfterRelease(r))
  /\ UNCHANGED <<desk, made, review, events, consumer, faults, past>>

DeleteClaim(r) ==
  /\ request[r].step = "delete"
  /\ claim' = None
  /\ Then(r, AfterRelease(r))
  /\ UNCHANGED <<meta, item, made, review, events, consumer, faults, past>>

Forget(r) ==
  /\ request[r].step = "forget"
  /\ meta' = NoMeta
  /\ Ends(r)
  /\ UNCHANGED <<claim, item, made, review, events, consumer, faults, past>>

(* With bucket routing on an unclaimed item goes to MISC, whoever asked.   *)
MoveToMisc(r) ==
  /\ request[r].step = "misc"
  /\ IF meta.bucket = "MISC" THEN Ends(r) ELSE Then(r, "read")
  /\ UNCHANGED <<desk, made, review, events, consumer, faults, past>>

(* update_item_meta: read the record, then write it back with the change,  *)
(* creating it if there is none.                                           *)
ReadMeta(r) ==
  /\ request[r].step = "read"
  /\ request' = [request EXCEPT ![r].step = "write", ![r].seen = meta]
  /\ UNCHANGED <<desk, made, review, events, consumer, faults, past>>

WriteMeta(r) ==
  /\ request[r].step = "write"
  /\ meta' = IF request[r].op = "decide"
               THEN [request[r].seen EXCEPT !.present = TRUE, !.maker = r]
               ELSE [request[r].seen EXCEPT !.present = TRUE, !.bucket = "MISC"]
  /\ Ends(r)
  /\ UNCHANGED <<claim, item, made, review, events, consumer, faults, past>>

(* A Redis failure ends the request: it is logged in the clean-up after a  *)
(* final decision and answered with an error elsewhere.                    *)
RedisFails(r) ==
  /\ request[r].step \in {"claim", "release", "delete", "forget", "misc", "read", "write"}
  /\ Ends(r)
  /\ UNCHANGED <<desk, made, review, events, consumer, faults, past>>

Reviewer(r) ==
  \/ BeginDecide(r) \/ BeginBlind(r) \/ BeginValidate(r) \/ BeginClaim(r)
  \/ BeginUnclaim(r) \/ TakeClaim(r) \/ Signal(r) \/ Record(r) \/ ReadClaim(r) \/ DeleteClaim(r)
  \/ Forget(r) \/ RedisFails(r) \/ MoveToMisc(r) \/ ReadMeta(r) \/ WriteMeta(r)

----------------------------------------------------------------------------
(* Claims that end early or change hands *)

Lapse ==
  /\ "lapse" \in Troubles /\ claim # None
  /\ claim' = None /\ disturbed' = TRUE
  /\ UNCHANGED <<meta, item, request, made, review, events, consumer, faults, accepted>>

(* An admin gives the item to anyone but its maker.                        *)
AdminAssigns(r) ==
  /\ "lapse" \in Troubles /\ meta.maker # r
  /\ claim' = r /\ disturbed' = TRUE
  /\ UNCHANGED <<meta, item, request, made, review, events, consumer, faults, accepted>>

----------------------------------------------------------------------------
(* The review workflow *)

(* Seeded bug: the maker's decision does not end the first wait.           *)
MakerDecidesAgain ==
  /\ review.stage = "waiting" /\ Checked /\ review.decision # None
  /\ review' = [review EXCEPT !.maker = review.decision]
  /\ events' \in {events, Append(events, "VALIDATION")}
  /\ UNCHANGED <<desk, request, made, consumer, faults, past>>

(* The first decision becomes the maker's.  The event that asks for a      *)
(* checker may be lost: its publication is given up after some attempts.   *)
MakerDecides ==
  /\ review.stage = "waiting" /\ Checked /\ review.decision # None
  /\ review' = [review EXCEPT !.stage = "checking", !.maker = review.decision]
  /\ events' \in {events, Append(events, "VALIDATION")}
  /\ UNCHANGED <<desk, request, made, consumer, faults, past>>

Concludes ==
  /\ \/ review.stage = "checking"
     \/ review.stage = "waiting" /\ (Checked => review.decision = None)
  /\ review' = [review EXCEPT !.stage = "done"]
  /\ UNCHANGED <<desk, request, made, events, consumer, faults, past>>

(* Whose decision is filed; nobody's when all waits timed out.             *)
FiledBy == IF review.checker # None THEN review.checker ELSE review.decision

----------------------------------------------------------------------------
(* The consumer of the queue events *)

OpenItem ==
  /\ consumer = "idle" /\ events # <<>>
  /\ \/ item.status = "none" /\ item' = [status |-> "open", by |-> None]
     \/ UNCHANGED item
  /\ consumer' = IF Head(events) = "REVIEW" THEN "set" ELSE "read"
  /\ UNCHANGED <<claim, meta, request, made, review, events, faults, past>>

SetMeta ==
  /\ consumer = "set"
  /\ meta' = [present |-> TRUE, bucket |-> "HR", maker |-> None, validation |-> FALSE]
  /\ consumer' = "commit"
  /\ UNCHANGED <<claim, item, request, made, review, events, faults, past>>

(* Seeded bug: the maker's claim is released before the stage is written.  *)
ReleaseBeforeValidation ==
  /\ consumer = "read"
  /\ claim' = None
  /\ consumer' = "write"
  /\ UNCHANGED <<meta, item, request, made, review, events, faults, past>>

ReadForValidation ==
  /\ consumer = "read"
  /\ consumer' = "write"
  /\ UNCHANGED <<desk, request, made, review, events, faults, past>>

WriteValidation ==
  /\ consumer = "write"
  /\ meta' = [present |-> TRUE, bucket |-> "VAL", maker |-> review.maker, validation |-> TRUE]
  /\ consumer' = "free"
  /\ UNCHANGED <<claim, item, request, made, review, events, faults, past>>

(* force_release: "the maker no longer holds it".                          *)
FreeClaim ==
  /\ consumer = "free"
  /\ claim' = None
  /\ consumer' = "commit"
  /\ UNCHANGED <<meta, item, request, made, review, events, faults, past>>

Commit ==
  /\ consumer = "commit"
  /\ events' = Tail(events)
  /\ consumer' = "idle"
  /\ UNCHANGED <<desk, request, made, review, faults, past>>

(* A Redis failure is logged and the event committed all the same; after a *)
(* crash the event is handled from the start, and a claim that was freed   *)
(* before the crash is freed again.                                        *)
Freed == consumer = "commit" /\ Head(events) = "VALIDATION"

ConsumerFails ==
  /\ faults < MaxFaults /\ faults' = faults + 1
  /\ \/ consumer \in {"set", "read", "write", "free"}
        /\ consumer' = "commit" /\ UNCHANGED disturbed
     \/ consumer # "idle" /\ (Freed => "twice" \in Troubles)
        /\ consumer' = "idle" /\ disturbed' = (disturbed \/ Freed)
  /\ UNCHANGED <<desk, request, made, review, events, accepted>>

Consumer == \/ OpenItem \/ SetMeta \/ ReadForValidation \/ WriteValidation
            \/ FreeClaim \/ Commit \/ ConsumerFails

----------------------------------------------------------------------------
Next == \/ \E r \in Reviewers : Reviewer(r) \/ AdminAssigns(r)
        \/ Lapse \/ MakerDecides \/ Concludes \/ Consumer

Spec == Init /\ [][Next]_vars

----------------------------------------------------------------------------
(* Properties *)

(* The shape of the state; at most the two queue events are ever under way.*)
TypeOK ==
  /\ claim \in Maybe /\ meta \in Metas
  /\ item \in [status : {"none", "open", "decided"}, by : Maybe]
  /\ request \in [Reviewers -> Requests]
  /\ made \in 0..MaxRequests
  /\ review \in [stage : {"waiting", "checking", "done"}, decision : Maybe, maker : Maybe,
                 checker : Maybe]
  /\ events \in Seq({"REVIEW", "VALIDATION"}) /\ Len(events) <= 2
  /\ consumer \in {"idle", "set", "read", "write", "free", "commit"}
  /\ faults \in 0..MaxFaults
  /\ accepted \subseteq Reviewers \X BOOLEAN /\ disturbed \in BOOLEAN

(* HumanReviewInput: "The maker can never be their own checker."           *)
FourEyes == review.checker # None => review.checker # review.maker

(* A checked item's row is never recorded as decided by its own maker.     *)
RowHasFourEyes == Checked /\ item.by # None => item.by # review.maker

(* While claims last, requests read what the workflow was started with and *)
(* no event that freed a claim is handled again, neither the workflow nor  *)
(* the row lets a maker check their own decision, however the requests     *)
(* overlap, whatever calls fail, signals go unsent and however late the    *)
(* consumer is: the claim keeps a second maker away until the record says  *)
(* VALIDATION.                                                             *)
UndisturbedFourEyes == Checked /\ ~disturbed => FourEyes /\ RowHasFourEyes

(* Whatever lapses, is handled twice, is misread or not connected: of a    *)
(* review with a checker, and of a row that is closed, two reviewers have  *)
(* submitted decisions.  The exception is a row closed by a reviewer to    *)
(* whom maker-checker was off.                                             *)
NotAlone(r) == \E a \in accepted : a[1] # r
NoOneClosesAlone ==
  /\ review.checker # None => NotAlone(review.checker)
  /\ Checked /\ item.by # None /\ <<item.by, FALSE>> \notin accepted => NotAlone(item.by)

(* The workflow has a decision to file, or is filing.                      *)
Decided == review.stage = "done" \/ review.decision # None

(* A row is closed, and a record dropped from the queues, only when the    *)
(* workflow has a decision, or by a request whose answer will say that its *)
(* signal was not sent.                                                    *)
Closes == item'.by # item.by \/ (meta.present /\ ~meta'.present)
ClosedOnlyWhenTold ==
  [][Closes => \/ Decided
               \/ \E r \in Reviewers : request'[r] # request[r] /\ ~request[r].sent]_vars

(* The decision a review waits for: the reviewer's, or the checker's.      *)
HasFinalDecision ==
  \/ review.stage = "done"
  \/ IF Checked THEN review.checker # None ELSE review.decision # None

(* submit_review_decision: "Every queued item has an allocation record     *)
(* until its final decision is filed; none means it is not waiting."  The  *)
(* record is dropped only when the workflow has what it waits for.         *)
ForgottenOnlyWhenFinal == [][meta.present /\ ~meta'.present => HasFinalDecision]_vars

(* LockService: "release_lock() is owner-guarded -- only the lock holder   *)
(* can release": a reviewer's request ends no one else's claim.            *)
ReleaseIsOwnerGuarded ==
  [][\A r \in Reviewers : DeleteClaim(r) => claim \in {None, r}]_vars

(* HumanReviewInput: "If no checker acts in checker_timeout_minutes ...    *)
(* the maker's decision is filed."                                         *)
MakerDecisionFiled ==
  review.stage = "done" /\ review.maker # None /\ review.checker = None
    => FiledBy = review.maker
===========================================================================
