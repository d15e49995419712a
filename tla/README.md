# ASTRA CTS in TLA+

ASTRA CTS is a cheque-truncation platform for banks: cheques arrive as images, AI and
rules decide on them, people review what the machine may not decide alone, and every
decision has to reach the clearing house (NGCH) before the cheque's *item expiry time*
(IET). The platform is Python on Temporal workflows, Redis, Kafka, YugabyteDB and Immudb.

This directory models the parts where several actors meet without a shared transaction,
checks them with TLC on small instances, and proves their safety with TLAPS for every
value of the constants. Paths below are relative to the repository (`src/`).

| File | What it is |
|---|---|
| `Settlement.tla` | abstract: what the inward side promises about one cheque |
| `InwardFiling.tla` | pipeline, human review and IET watchdog racing to file one cheque |
| `ReviewDesk.tla` | reviewers' requests, the review workflow and the queue consumer on one item |
| `EventConsumer.tla` | the Kafka poll loop every consumer of the platform runs |
| `Allocation.tla` | automatic assignment and rebalancing of review items |
| `FourEyes.tla` | abstract: what the bank asks of a decision that takes two people |
| `OutwardStage.tla` | requests and sweeps racing to settle one staged outward decision |
| `OutwardLots.tla` | outward cheques in lots: joining, sealing, endorsing, clearing sessions, filing |
| `ConfigChange.tla` | proposing, approving and reading a setting |
| `HoldDesk.tla` | placing, releasing and escalating holds on one cheque |
| `PaperTrail.tla` | abstract: what the bank asks of one paper original |
| `Custody.tla` | the paper originals of a branch |
| `BucketDesk.tla` | two administrators replacing one reviewer's buckets |
| `WebClient.tla` | what the screens of the web application share |
| `ReviewScreen`, `OutwardScreen`, `ValidationScreen`, `SubmissionScreen`, `ScannerScreen`, `ConfigScreen` `.tla` | the pages that write, one module each |
| `OutwardPages.tla`, `StaffPages.tla` | compositions: the pages behind the router, with the servers they work on |
| `MC*.tla`, `MC*.cfg` | instances for TLC |
| `*Proofs.tla` | theorems and proofs about the module of that name; `OutwardProofs` is about `OutwardStage` and `OutwardLots`, `CustodyProofs` is about `Custody`, and `StaffPagesProofs` builds on it |
| `PROJECT.json` | components, runs, mutants, the map to the source, findings, hazards, theorems |

## 1. The system

### Components, their state and how they interact

**Inward filing** (`modules/cts/workflows/cheque_workflow.py`, `iet_watchdog_workflow.py`,
`human_review_workflow.py`, `activities/ngch_filer.py`). One
`ChequeProcessingWorkflow` per cheque runs the AI pipeline and calls `finalise` from each
of its exits. It starts the watchdog before anything else and, if a person must decide or
may overrule the system (a *SIP hold*), a `HumanReviewWorkflow`. State: Temporal workflow
state only (flags set by signals, timers). Any of the three files the decision, with the
same idempotency key; they inform each other by signals (`decision_ready`,
`filing_complete`, `iet_emergency_filed`), which fail when the addressee has closed.
Hard: the order of signals and timers, filings whose answer is lost, retries that meet
their own filing as a duplicate, the deadline. Correct means: one decision at the clearing
house, nothing expires in silence, the audit trail says what was filed.

**Review desk** (`apps/api/routers/cts_inward.py`, `cts_holds.py`,
`modules/cts/allocation/lock_service.py`, `modules/cts/consumers/human_review_consumer.py`,
`modules/cts/review_queue.py`). State: a claim per item (Redis key with TTL), an
allocation record per item (Redis hash), a durable row (YugabyteDB), the workflow's own
decision and stage. Requests claim, decide, validate and unclaim as sequences of
Redis, Temporal and database calls; the workflow answers through a Kafka topic whose consumer
writes the same record and frees the same claim. Hard: checks made before a call and used
after it, read-modify-write of the record, events handled late or twice. Correct means
the four-eyes rule, and that an item leaves the desk only when it is decided.

**Automatic allocation** (`modules/cts/allocation/allocation_service.py`, `lock_service.py`).
State: the sets *hybrid-pending* and *alloc-auto* beside the claims. There is no allocator
process: any reviewer's queue poll pops due items, assigns them, and rebalances. Hard: any
number of polls do so at once on snapshots that age. Correct means nobody gets an
item outside their processing unit, nothing is dropped, opened items stay.

**Event bus** (`shared/event_bus/`). State: the partition, the group's committed offset,
the consumer's position. Hard: crash or shutdown between handling and committing, failing
handlers, batches. Correct means at-least-once, or a stated bound on what is lost.

**Configuration** (`apps/api/routers/admin.py`, `shared/config/`). Threshold changes
need a maker and a checker; approval is one transaction with the audit record inside it;
values are cached in Redis. Hard: the transaction failing and the handler going on, two
approvals of one change, a reader writing an old value back into the cache. Correct means a
value in force was proposed by one person, approved by another, and audited.

**Outward maker-checker** (`apps/api/routers/cts_outward_data.py`). State: one staged row per
cheque (YugabyteDB), a Redis claim, and the decision put into effect by a separate update. Every API
process runs a sweep that files overdue rows without a checker. Hard: several requests and several
sweeps at one row; a switch that is read from a configuration that may not answer; a crash between making
the row final and putting it into effect. Correct means one decision, once, by two people.

**Outward lots** (`modules/cts/lot/db_lots.py`, `workflows/clearing_session_workflow.py`,
`ngch_submission_workflow.py`, `batch_endorsement_workflow.py`, `apps/api/routers/cts_outward_core.py`,
`apps/eeh`). State: a row per lot with its status and count, a row per cheque with its lot, written in separate
statements by the scan's last activity, by staff, by the hub and by workflows. Hard: a cheque that joins
a lot closed meanwhile, unconditional updates of the status, two sessions that pick the same lots, lost
answers. Correct means that what is marked as filed is in the file the clearing house has.

**Holds** (`modules/cts/hold/`, `apps/api/routers/cts_holds.py`). A row per hold and one
escalation workflow per cheque. Hard: the request writes its row and then starts or signals the
workflow; a second hold meets the workflow of the first.

**Custody of paper originals** (`apps/api/routers/cts_custody.py`). Batches in transit between
branch and storage; look first, write afterwards in a transaction. Hard: two people at one
original or one batch.

**Bucket subscriptions** (`modules/cts/allocation/subscriptions.py`). A reviewer's set is
replaced by a delete and inserts, and copied to Redis. Hard: two replacements under READ COMMITTED.

**The pages** (`apps/web/src/modules/cts/pages/`). Each keeps a copy of what a server told
it last, polls, shows changes before they are known, and acts on what it shows. Hard:
answers out of order, rows that move under a key press, dialogs that outlive their rows,
buttons that start twice. Correct means that a click acts on what the person saw and that the
page catches up.

**Audit trail** (`shared/audit/`, `apps/audit_service/`). A capped Redis stream, a consumer
group and Immudb. Hard: entries read and not written, the cap during an outage.

**Outward scan**, the **vision-AI kill switch**, the **vaults and their synchronisation**
and the **sub-member flows** are sequential protocols around the same workflows. Everything else is
I/O, formats, inference, presentation or tooling; the complete list, with a reason for each
part that is left out, is `components` in `PROJECT.json`, and `hazards` lists what is hard to
test, at its line, with the properties aimed at it.

### Plan and state of the work

In the order of the plan: (1) inward filing and its abstract register, because a cheque that
expires undecided is the platform's worst failure; (2) the review desk; (3) the event consumer, on which the
desk depends; (4) allocation; (5) `ConfigChange`; (6) `OutwardStage` with `FourEyes`, and
`OutwardLots`; (7) `HoldDesk`, `Custody`, `BucketDesk`; (8) the pages and their compositions. All of
these are done, each with its theorems.

Dropped from the plan: `AuditTrail`, since with one stream, one reader and no second actor a
model would restate a read position and a cap (its hazard is listed); `LeafRegistry`, since
no caller reports a used leaf; bucket classification and the mandate rules, which are tables
of conditions that a reference definition would repeat. What is left: SIP items and bucket
tiers at the desk, reconciliation and representation after `OutwardLots`, and a composition of
`ReviewDesk` with the repeats of `EventConsumer`.

`InwardFiling`'s review is the workflow of `ReviewDesk` seen from the other side: there the
signals come from anybody at any time, here it is shown which requests produce them.
`ReviewDesk`'s consumer may handle an event again after a crash, which is what
`EventConsumer` allows before a commit. The pages meet the server in two ways: `ReviewScreen` and
`OutwardScreen` take a request as one step, because `ReviewDesk` and `OutwardStage` take it apart;
`StaffPages` puts pages and the server modules `HoldDesk`, `ConfigChange`, `Custody` and `BucketDesk`
side by side. A cheque that `OutwardStage` confirms is one of `OutwardLots`' cheques.

## 2. The modules

Every definition that stands for code is listed with its lines in `map` of `PROJECT.json`.
In all modules one action is one atomic step of the program: the code between two awaited
calls, or one call to Redis, Temporal, Kafka, the database or NGCH. Definitions marked *Seeded
bug* are the mutants the properties are tested with; no specification uses them.

### Settlement and InwardFiling

`pc` says where each of the three workflows stands. `Finalise` is `finalise`'s entry, the
only place where the emergency flag is read; `PipelineFails` an uncaught activity failure.
Then follow, call by call, the straight path (`SignalDecision`, filing, `FilingComplete`,
`AuditFiling`), the SIP hold (`HoldForSip`, `SignalHeldDecision`, `AuditHeld`,
`StartReview`) and the ordinary review (`AuditQueued`, `StartReview`). The filing activity
`file_to_ngch` has three outcomes: `FilingAccepted`, `FilingDuplicate` (409) and
`FilingAttemptFails`, in which the decision may or may not have reached NGCH (answer
lost, decision event not published); after `MaxAttempts` the workflow takes its error path.
The watchdog stands down (`filing_complete`), or fires at `EmergencyAt` with the last
decision it was told of or CONFIRM, then audits and tells the pipeline. The review takes
signals at any time, has a maker and a checker stage, and concludes on a decision or a timeout.

The clock counts minutes and stops at `Deadline`, past which nothing reads it. AI
activities are a nondeterministic verdict. `write_audit` is retried without limit, so
it is one step that succeeds.

`Settlement` is the promise: the clearing house holds the first decision filed for ever, and
the cheque is settled or an alarm is in the audit trail. The refinement maps `outcome` to what
NGCH holds and `alarmed` to the presence of a *FIRE_FAILED* audit event.

### ReviewDesk

One item, any number of reviewers, each with one request in progress, whose `step`
is the next call to make and whose `seen` is the record it read. `Checked` is the
maker-checker switch as the workflow was started with; a request reads its own (`Readings`). Time is abstract: the workflow's
waits may end at any moment. Every single call may fail. What else can happen to the desk is chosen
by `Troubles`, so that a run says which of it a property survives:

* `lapse`: a claim ends early, by its TTL, an unclaim or an admin's assignment (`Lapse`, `BeginUnclaim`, `AdminAssigns`);
* `twice`: the consumer crashes after it freed the maker's claim and before the commit, and frees it again;
* `differs`: a request takes maker-checker for other than the workflow does, because its read of the configuration
  failed and counts as off (`cts_inward.py:586-590`), or because the setting was changed since;
* `unconnected`: an API process has had no Temporal client since it started (`main.py:218-220`). `_signal_review` then
  returns without raising and the request goes on: it records, releases and forgets, and only `signal_sent` in its answer tells;
* `noredis`: a process without Redis asks for no record and takes no claim (`BeginBlind`).

The consumer reads `REVIEW` and `VALIDATION` events; `ConsumerFails` is a
swallowed Redis error (the event is committed) or a crash (the event is handled again). Two variables are history: `accepted`
has whose decisions the API took, and whether as a maker's; `disturbed` says that a trouble occurred which the claim
does not protect from, that is all of the list but `unconnected`, which cannot make a maker check their own decision.

What holds under which trouble is the point of the module. *Undisturbed*, neither the workflow nor the row lets a maker check
their own decision (`UndisturbedFourEyes`). Under all troubles but `twice` (in TLC; the proof has them all) two reviewers have submitted decisions before a review
has a checker or a row is closed, unless the row was closed by a reviewer to whom maker-checker was off (`NoOneClosesAlone`); and nothing is closed or
forgotten while the workflow has no decision, unless by a request that will say that its signal was not sent (`ClosedOnlyWhenTold`).
That the row always has four eyes, that the owner alone releases a claim and that only final decisions are forgotten is *not* true of the code;
section 3 lists the configurations in which TLC refutes each.

### EventConsumer

One partition, since the producer's key is the bank. `Poll` takes a batch and moves the position past all of it,
`Dispatch`, `HandlerFails` and `SkipMessage` are the three ways out of `_handle_message`,
`Commit` commits the *position*. `Stop` is a crash or the worker's shutdown, which cancels
the task. `LoopFails` is an exception of `poll()` or `connect()`: neither is in a `try` (`consumer.py:88-91`,
`human_review_consumer.py:298`), so the task ends, and nothing starts it again while the process lives, although the docstrings say "runs until
stop() or cancellation" (`consumer.py:79`) and "Runs until cancelled" (`human_review_consumer.py:289`). `Stop` after it is the restart
of the process. `handled`, `failed` and `settled` are history.

### Allocation

Any number of polls (`worker`), each with the items it popped, or the snapshot a rebalancing
pass works from: who is active, whose units are known, their loads, who held what, what was tried. `may` is the
relation of processing units, fixed but arbitrary. A check of it is made against what Redis has: `known` are the reviewers
whose units a heartbeat has written, which it does after it entered the reviewer among the active ones (`lock_service.py:167`, `:172`), and
`record` the items that have a record. Whoever finds no units or no record restricts nothing (`Allows`). So an admin may
assign to anybody who is registered and never polled (`ForceAssign`; `cts_holds.py:1124-1126`), although the comment above it says the target "must be allowed to work the
cheque's processing unit" (`cts_holds.py:1066-1068`), and the rebalancer may move across a restriction, "never" in its docstring (`allocation_service.py:302`).
`Decide` is `/decide`, which takes a free claim without looking at units, and drops the item or leaves it (`FileDecision`, `MakerDecided`).
`DeferFails` is the consumer that cannot read the configuration or cannot queue the item: it logs and commits, and no poll will find it.

`Take` and `TakeFails` abstract the choice among candidates; `Best` keeps the code's choice of donor and
receiver. `transfer` is two calls. History: `pinned` (who was told an item
is theirs, or was given it by an admin), `givenUp` (items decided, released, lapsed, or that a failed consumer or poll left in no queue),
`unread` (reviewers whose units somebody did not find), `loose` (items once without a record, or decided from outside their unit). `OutsideUnitOnlyUnread`
and `NeverDropped` are worded with these: they say that there is no *other* way out of a unit or a queue, whatever interleaves.
A validation item's maker, whom every path refuses, is left out. Bucket routing is off, and `list_auto` is taken as one step.

### OutwardStage and FourEyes

One cheque, and any number of request handlers and sweeping API processes (`request`), each with the step it is at.
A maker's request claims and stages (`BeginDecide`, `Stage`); a checker's looks at the row, claims, makes it
final by a conditional update and puts the decision into effect (`BeginValidate`, `Claim`, `Final`, `File`);
a sweep begins at `Final`. `trouble` counts reads of the configuration that failed: `_cts_config` then answers
without settings and maker-checker counts as off. `FourEyes` is the bank's promise; the refinement maps
its `word` to the row's maker and action, and asks nothing once `trouble` is above zero.

### OutwardLots

A lot is a status and a count, a cheque the lot it is in. `FindsOpenLot` and `Persists` are the two ends of the
transaction that persists a cheque: `ensure_open_lot` reads the open lot, and the statements after it name
only the lot. Whether the database notices a change in between depends on its isolation; both
outcomes are steps. `FindsUnsealed` and `Seals` are the two ways to seal (the API's, the hub's), each a read and
an unconditional update; `endorse_batch` starts a workflow that ends in `update_lot_status`. A session picks
the endorsed lots, files one after the other in child workflows named after the lot, and marks what was
acknowledged: lots first, then cheques. The clearing house takes one file per lot and answers later ones with the reference of
the first; this is *external*, after how the activities use it (the production adapter's method for
lots is not implemented in the repository).

`late` counts cheques that joined a lot which had changed, and endorsements of lots still open. With
`late > 0` the properties say nothing, because the code keeps neither: the file and the count are then of a lot
that changes. Two things may surprise: the cheque that fills a lot is counted in it and put into the next one,
so no lot ever holds `max_instruments` cheques; and a session that ended with *EXCEPTION* has used
up its type for the day, since only a failed workflow may be started again under its name.

### The pages, and what is behind them

`WebClient` has what all share: cheques, the person at the screen (`Me`) and everybody else (`Other`), and
`POST`s that the server refuses when they come without the CSRF token. Several pages build their
requests themselves without it (submission, scanner, the hold lists, `CTSConfig`): their writes never
take effect, and the models say so. Each page module has variables for the server's side and for what the page
keeps; where requests overlap every answer is a step of its own, so that lists come late and out of order.

* `ReviewScreen`: the inward review queue with focus mode, single-key decisions and dialogs that hold
  on to their row.
* `OutwardScreen`, `ValidationScreen`: maker and checker of outward cheques; rows taken off before the server
  knows, refused decisions put back, approvals of rows settled meanwhile.
* `SubmissionScreen`: the filing page, which does not take over an empty answer and shows as filed what was only asked for.
* `ScannerScreen`: overlapping starts and stops, each a sequence of awaited calls, and the intervals they leave.
* `ConfigScreen`: the two settings pages, one with and one without the token. Both begin with literals of their own source, which need not be
  values that were ever in force (`CTSThresholds.jsx:92` has 0.87, `admin.py:83` 0.85), and keep them when the request fails or is refused; the server, too, answers with
  its defaults when it cannot read its table. No property is stated of what they show: that it was in force is not true.
* `ConfigChange`: `approve_threshold_change` as the code runs it: the transaction with its audit record, a failure that is
  logged while the handler goes on, readers that fill the cache with what they read before. The event an approval publishes
  deletes a key nothing is cached under, and is left out.
  `FourEyes` is implemented here, too, once for each change: its `word` is the proposal, its filing the approval or rejection.
* `HoldDesk`: rows, the two requests, and `HoldEscalationWorkflow` with three checkpoints. A start that fails is logged and the hold answered as placed
  (`StartFails`), as is a signal (`SignalFails`), and an activity that fails at each attempt ends the workflow (`ActivityFails`). One always does: the critical alert asks the
  configuration with a parameter `get` does not have (`hold_escalation.py:123`, `config_service.py:313`; `CriticalRaises`), so that the last alert is never sent; the tests
  run the workflow with activities of their own. Nor would the alerts reach a manager, since `place_hold` names none (`cts_holds.py:306-313`).
* `Custody`: handover, receipt and disposal, each a look and a transaction. `PaperTrail` is the promise, of one original and
  without requests or batches: handed over, received or missed by somebody else of storage or management, disposed of when
  its time has come, and each move written down. `Custody` implements it once for each original.
* `BucketDesk`: `set_reviewer_buckets` statement by statement, with the snapshot each statement works on.

`OutwardPages` and `StaffPages` put them behind the router: `route` is the page that is open, and a page works
alone while it is.

## 3. What is checked

| Run | Shows | Instance |
|---|---|---|
| `inward_filing` | whoever closes as settled is right; no cheque is lost in silence; the audit trail of a filing that was no duplicate is true; the watchdog files the decision in force; refinement of `Settlement` with its liveness; every review ends | 3 attempts, deadline 4, emergency at 3; 247k states |
| `desk_four_eyes` | until a trouble the claim does not protect from, the maker never checks and never closes the row | 3 reviewers, 4 requests, unsent signals, 1 fault, an event that is handled twice; 1.3m states |
| `desk_troubled` | nobody checks or closes alone, and nothing is closed that the workflow was not told, except as said above | 2 reviewers, 3 requests, claims that lapse, differing readings, no Temporal client, no Redis; 1.6m states |
| `events` | a stop loses at most a batch less one; nothing committed is repeated; every event is attended to unless the loop ends for good | 4 events, batches of 3, 2 stops, 2 failures; 241k states |
| `allocation` | no way out of a unit but units or records that are missing and `/decide`; only failed calls of the consumer or a poll drop items | 2 items, 2 reviewers, 2 polls, 1 request, heartbeat or lapse, 1 fault; 1.4m states |
| `outward_stage` | one decision, once, by two people; refinement of `FourEyes`; what is staged comes into effect | 2 people, 2 requests and 2 sweeps, 1 failed read, 1 crash; 439k states |
| `outward_lots` | what is marked as filed the clearing house has, and nothing twice; a lot counts its cheques; a session ends | 3 cheques, 2 lots of 3, 2 sessions, 2 seals or endorsements, 1 fault, 1 late; 569k states |
| `outward_pages` | decided on the page is decided at the server; an approval says what the maker said; a shown session is polled; pages catch up | 2 cheques, 2 decisions, 3 starts, 2 scans; 319k states |
| `staff_pages` | decisions only on cheques one held; values in force were approved and audited, changes are settled once and by two people; originals are kept; refinement of `PaperTrail`; the branch of an only hold is reminded if its workflow started and did not fail; pages catch up | 2 items, 3 people, 2 of each thing, 2 attempts, 1 fault; 587k states |

and three runs that TLC must find violated, each a statement of the code's own comments:

| Run | The statement | What happens |
|---|---|---|
| `emergency_then_review` | after the emergency signal the pipeline must "neither file nor queue a human review" | the flag is read once, on entry to `finalise`; a signal during the activities that follow is ignored |
| `safe_without_audit` | on a duplicate the other filer "already recorded the real decision" | the watchdog meets its own lost filing, closes SAFE, and nobody audits |
| `desk_maker_checks` | "the maker can never be their own checker" | one crash of the consumer frees the claim twice; a late decision replaces the maker's, and the check compares with the replacement |

Seven more configurations beside them are no runs of the list. TLC refutes what they state (`MCReviewDeskRefuted.cfg` states three
things; `-continue` shows all of them), and each shows where a documented claim ends:

| Configuration | The statement | What happens |
|---|---|---|
| `MCReviewDeskMaker.cfg` (`MakerDecisionFiled`) | without a checker "the maker's decision is filed" | a request past its stage check overwrites it |
| `MCReviewDeskRefuted.cfg` (`ForgottenOnlyWhenFinal`) | "every queued item has an allocation record until its final decision is filed" (`cts_inward.py:666-668`) | without a Temporal client nothing is signalled, and the item is forgotten all the same |
| `MCReviewDeskRefuted.cfg` (`ReleaseIsOwnerGuarded`) | "only the lock holder can release" | read and delete are two calls; the claim changes hands in between |
| `MCReviewDeskRefuted.cfg` (`RowHasFourEyes`) | the maker's decision needs a checker | a failed read of the configuration counts as off, and the maker's decision closes the row |
| `MCEventConsumerCommit.cfg` (`CommittedIsProcessed`) | "manual commit after successful processing" | the first commit of a batch covers the unprocessed rest |
| `MCAllocationOpened.cfg` (`OpenedStays`) | "never moving an item the reviewer has opened" | the list of unopened items is read once for the whole pass |
| `MCOutwardStageTrouble.cfg` (`OnlyCheckersFile`) | trouble with the configuration does not change who can file (`_cts_config`) | a failed read counts as maker-checker off (`cts_outward_data.py:764`, `:984`) |
| `MCStaffPagesAlert.cfg` (`LastAlertIsSent`) | the escalation "exits cleanly" when released or when "all three checkpoints have fired" (`hold_escalation_workflow.py:4-12`) | the critical alert raises at every attempt and the workflow fails; no manager is named |
| `MCBucketDesk.cfg` (`Replaces`) | a request replaces the reviewer's set | two at once leave the union: each DELETE sees what was committed before |

**Bounds.** The bounds on requests, faults, stops and events only cut off how often something
happens; what matters is that every interleaving of two of each kind occurs. Two workflows filing
at once and a third retrying needs the full set of three, and three attempts let one fail, one
meet its own filing and one remain. The deadline of 4 leaves a minute before the guard, one
between guard and emergency, and one after it; the review timeouts 1 and 4 fall before and
after the emergency. Three reviewers are a maker, a checker and a latecomer, and four requests
are a claim, two decisions and a validation; two reviewers and three requests let each trouble meet a decision and a validation. Batches of 3 among 4
events make a full batch, a partial one, and a commit in the middle. Two items and two
reviewers, of whom one may work the items, let one move, and a second poll undo it; what the other one gets is outside their unit, and
`MCAllocation`'s view drops the history that nothing checked reads and units from which nothing follows. Two attempts of
a hold's activity (the code has three) are one that is repeated and one that is not. Two handlers and two timers let two checkers, two sweeps, or one of each
race. In `outward_lots` lots of 3 hold 2 cheques, so the third cheque fills one and opens the next; two sessions
race for one endorsed lot; two orders endorse one lot twice, seal it after its endorsement, or endorse both lots; with three orders the
safety properties hold as well (3.0m states). On the pages two cheques make a list that can shrink under a
focus, two answers come in either order, and two batches or changes can name the same thing; since one page works at a time,
the state space is the sum of the pages'. Symmetry of reviewers and items is used
in safety runs only. Every property has a mutant of a mapped definition that violates it.

**Fairness.** `InwardFiling`: the clock (Temporal's timers), the watchdog, the review workflow
and each workflow's filing steps are weakly fair: Temporal resumes an open workflow
until it closes, and retries end. Nothing is assumed of the pipeline before `finalise`
(an AI call may hang for ever, and the watchdog must still file) nor of
reviewers. `EventConsumer`: a process that stopped is restarted and a loop that runs goes on, both unless `LoopFails`; nobody has to
publish, nor to restart a process whose loop ended, so `AlwaysAttended` excepts exactly that. `OutwardStage`: a request that began goes on (crashes are counted faults), the clock moves and every process runs its
sweep each minute. `OutwardLots`: Temporal carries sessions and filings on; nothing is assumed of staff
or of cheques. The pages: intervals fire and answers that were asked for come, while their page is open
(the steps of a page's fairness are conjoined with `route`, so nothing is assumed of a page that is closed); a hold's workflow
and a started request go on, or fail, cached values expire; nobody has to click. The other safety runs assume no fairness.

Deadlock is checked in `inward_filing` and `outward_stage`, and in the violated runs of the former; the other modules
bound requests, events or cheques and may then have nothing left to do.

## 4. What is proved

TLAPS checks the following for every value of the constants that satisfies the named
assumptions (about 9900 obligations). Each proof has one step per action.

* **InwardFilingProofs.** `TypeCorrect`, `ClosedIsSettled`, `NothingLostInSilence`, `AuditIsTrue`,
  `WatchdogIsInformed`, `EmergencyIsNotBlind` and `ImplementsRegister` (the safety part of the
  refinement: every step settles the register, raises the alarm or stutters). None of the
  properties is inductive alone. The type invariant needs that a workflow that files knows its decision and
  has an attempt left, and that a review exists only when the pipeline is done; the rest needs who may have
  a duplicate or a filed decision at which stage, and what the watchdog was told by then.
* **ReviewDeskProofs.** All without assumptions on troubles. `DeskTypeCorrect`. `MakerNeverClosesItem` is
  `UndisturbedFourEyes`: four eyes up to the first trouble that the claim does not protect from, while calls fail, signals go unsent and the
  consumer loses events or crashes anywhere but between freeing the maker's claim and committing; that one crash is what the violated run `desk_maker_checks` needs.
  The invariant `EyesInv` follows the claim: the first request to signal holds it, keeps it until the consumer has
  handled VALIDATION, and every later request either sees the record with the maker's name or fails
  to take the claim. An invariant that says only "maker is not checker" is not inductive: it needs to know who is
  waiting for whose claim (`MakerBlocked`) and whose name the record has (`MetaOK`).
  `TwoHaveActed` (`NoOneClosesAlone`) and `NothingClosedUntold` (`ClosedOnlyWhenTold`) hold under all troubles. `AloneInv` follows names: whomever the decision, the
  record, a copy of the record in a request's hands or the workflow names has had a decision accepted, and who validates is not that one. `DecidedInv` follows signals:
  a request that holds its signal for sent, or was let in by a record that says VALIDATION, comes after a decision.
  `DirectIsClosedWhenFinal`: without maker-checker the decision that reached the workflow is the final one. With it that is not true, not even of an undisturbed desk: a decision that passed its stage check before the
  VALIDATION event replaces the maker's, its sender may then validate, the workflow ignores a checker whose name is on the decision, and
  the API, which does not learn of that, records the decision as final and drops the record. The theorems therefore say only that somebody decided.
* **EventConsumerProofs.** `StreamTypeCorrect`, `LossBounded`, `NoRepeatAfterCommit`. The invariant:
  once a commit covers part of a batch, less than a whole batch is left; the running consumer has
  attended to all it took beyond the committed offset. The loss is a cardinality argument
  over the events a stop leaves behind.
* **AllocationProofs.** `AllocationTypeCorrect`, `OutsideOnlyUnread`, `NothingIsDropped`, for any
  number of items, reviewers, polls, requests and failures. The invariant ties each poll's snapshot to the
  present: popped items have arrived, whose units it has not read is among the `unread`, a chosen move ends at a reviewer who fits (`Fits`), and its donor's book
  load exceeds the receiver's by at least two. `OpenedStaysWhenApart` says how far the promise that `MCAllocationOpened.cfg` refutes
  does hold: if nobody opens an item (`Apart`), and no admin gives one away (`GivenFree`), while a poll is
  assigning it or has it on its list, then no pass decides to move an opened item. Opening other
  items, releases, lapsing claims and failed polls may interleave freely. The step lemma
  `PollTouches` says what any one step of a poll can do to one item.
* **OutwardProofs**, first half. `TypeCorrect`, `OneFilingByTwo` and `PromiseKept` (the safety of the refinement of
  `FourEyes`). The invariant `IInv` says who may stand before the conditional update (`MayCheck`: not the maker, and
  the sweep only with the maker's action) and counts: filings done and under way are at most one per
  final row and failed read (`CountInv`), an argument over a cardinality that each request enters and leaves.
* **OutwardProofs**, second half. `LotsTypeCorrect`, `FiledWasPresented`, `PresentedRightly`, `LotsCountTheirCheques`, for any number of cheques, lots,
  sessions, orders and faults. `LotsInv` adds to the shapes: a filing belongs to one session that waits for it (`ChildInv`);
  what a session picked, has to do and has filed nests (`SessionInv`); whoever looks for a lot has none yet
  (`JoinInv`); and, while `late = 0`, only closed lots are endorsed, picked or filed (`OrderInv`), so that a
  file and what the clearing house has are the lot's cheques for good (`PresentedInv`) and a session that says so has
  marked them all (`MarkedInv`). That no cheque is in the files of two lots needs no order at all: a file is what its lot
  had when it was put together, a cheque that has a lot keeps it, so that files stay within their lots (`FilesInv`) however late anybody is.
* **OutwardPagesProofs.** `PagesTypeCorrect`, `ShownAsDecidedIsDecided`, `ApprovalsRepeatTheMaker`,
  `ShownSessionIsPolled`. Each page has its invariant (`OutwardInv`, `ValidationInv`, which says that the row, the list
  and every answer under way name the same maker's decision, `ScannerInv`), and the composition the conjunction: a step of
  one page leaves the others' variables alone.
* **CustodyProofs.** `OriginalsKeptByTwo`: every step of `Custody` is, for each original, a step of `PaperTrail` or leaves it alone, although
  requests look and write at different times and one write moves a whole batch. `CustodyInv` ties places, batches, requests and histories of the originals
  together, `RolesInv` keeps the roles the routes ask for; each of the three writes then moves exactly the originals of its transaction (`InsertMoves`,
  `ReceiveMoves`, `DisposeMoves`), by one step each.
* **StaffPagesProofs.** `PagesTypeCorrect`, `HeldItemsOnlyOnPages`, `ApprovedByTwo`, `SettledForGood`, `ChangesSettledByTwo`,
  `OriginalsAreKeptOnPages`, `KeptByTwoOnPages`, `BucketsWereAskedFor`, `ReplacedWhenAlone`. `HeldInv` bounds the list, the focus,
  the dialogs and the requests by what was ever claimed for the reviewer; `ApprovalInv` says what the lock of a transaction keeps others from, and with
  `ProposersInv` (a change has a proposer exactly when it was proposed) gives the refinement of `FourEyes`. Of buckets two things are proved: `AskedInv` has for every row, written or about to be,
  a request that sent its bucket, without any assumption; `ReplaceInv` follows one transaction from its snapshot to its commit while no other is in one. So
  overlap is the only way in which `Replaces`, refuted by `MCBucketDesk.cfg`, can fail, and no bucket nobody asked for comes of it.

Assumptions on constants are the `ASSUME`s of each module; TLC evaluates them in the runs.

**Only model-checked:** liveness under fairness, which is outside what the prover handles, as are ENABLED and induction over
recursive data: `ImplementsSettlement`'s `<>Resolved`, `ReviewEnds`, `AlwaysAttended`, `StagedIsFiled`, `SessionEnds`,
`OnlyHoldIsReminded` and the two `PagesCatchUp`. Every other property of a passing run is stated by a theorem.

**Where a property stops.** `StagedIsFiled`, `FiledByTwo`, `TwoPeople` ask nothing once a process died after the row was final or a read of the configuration failed: the code keeps
none of them then (`cts_outward_data.py:1049`, `:765`). With maker-checker off or unreadable `/outward/review/{id}/decide` answers 200 although signal and update both failed
(`cts_outward_data.py:930-961`, `:996-1003`); `DecidedIsStaged` is about staging and does not see it. `InForceIsApproved` goes from a value in force to its audit record: the APPROVED record of an
approval that failed (`admin.py:655`) is a step of `ConfigChange`, and no property catches it. `PagesCatchUp` says that pages come to show what is stored, the union of two administrators' buckets too.

## 5. What is not modelled

The AI verdicts, the contents of messages, files and records that no property reads, authentication, and all
of the components listed as `not_modelled`. Within the modelled ones:

* inward: SIP items and bucket tiers at the desk, bucket routing and overflow,
  Temporal's replay (workflow code is deterministic), Redis failover. One cheque at a time is modelled at the desk
  and in filing: cheques share only the allocation's loads, which `Allocation` models with several items;
* outward: the scan's gates before a cheque is accepted, the agency route, reconciliation and representation,
  the in-memory lot manager of tests and demonstrations, workers without a database;
* configuration: the endpoints of `admin.py` for banks, users and licences, which are single-row updates;
* pages: layout, filters, image viewers and sample data; the pages that only show something; `web-sb-only`,
  which repeats pages of `web`.

Most of the repository's JavaScript is markup, styling, texts, fixed sample data and animation: of about 80 000
lines only the handlers, effects and requests of the pages that write carry state that
meets other state, and `map` names those lines and no others. The share of JavaScript lines in `map` is therefore
small, and small for good; the protocol code in Python is mapped where it is modelled.
