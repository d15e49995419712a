----------------------------- MODULE Allocation -----------------------------
(***************************************************************************)
(* Automatic allocation of review items (AUTO and HYBRID modes, bucket     *)
(* routing off): an item waits in hybrid-pending until some reviewer's     *)
(* queue poll pops it and assigns it; the same poll then rebalances the    *)
(* items that were assigned and not opened (allocation_service.py,         *)
(* lock_service.py, cts_inward.py, human_review_consumer.py).              *)
(*                                                                         *)
(* All state is in Redis, a step is a Redis call, and any number of polls  *)
(* (API requests) run at once.  list_auto's reads are taken together, and  *)
(* so are the reads that choose candidates and the calls of the requests   *)
(* no property tells apart.  Processing units are checked against what     *)
(* Redis knows: a reviewer whose units are not there, or an item without a *)
(* record, is not restricted.  The maker of a validation item, whom every  *)
(* path refuses, takes no part here.                                       *)
(***************************************************************************)
EXTENDS Integers, FiniteSets

CONSTANTS
  Items, Reviewers,
  Workers,       \* queue polls, and consumer events, under way at once
  None,
  may,           \* the reviewers whose processing units cover each item
  MaxMoves,      \* allocation_rebalance_max_moves
  MaxRequests,   \* bound: reviewer and admin requests, first heartbeats, what lapses in Redis
  MaxFaults      \* bound: Redis calls that fail, processes that die

ASSUME AllocationAssumption ==
  /\ None \notin Items \union Reviewers
  /\ IsFiniteSet(Items) /\ IsFiniteSet(Reviewers)
  /\ may \in [Items -> SUBSET Reviewers]
  /\ MaxMoves \in Nat /\ MaxRequests \in Nat /\ MaxFaults \in Nat

VARIABLES
  known,      \* reviewers whose units their heartbeat has written to Redis
  arrived,    \* items the consumer has opened
  record,     \* items with an allocation record (and so a processing unit)
  claim,      \* lock:cts:{item}: the holder
  pending,    \* hybrid-pending: items to assign
  auto,       \* alloc-auto: items assigned and not opened
  opening,    \* the claim or decision of each reviewer, between its Redis calls
  pinned,     \* history: the holder who was told the item is theirs, or was given it by an admin
  givenUp,    \* history: items decided, or whose claim was released or lapsed, or that a failed
              \* call of the consumer or of a poll left in no queue
  unread,     \* history: reviewers whose units a poll, a pass or an admin did not find
  loose,      \* history: items once without a record, or decided outside their unit
  worker,     \* the polls under way
  requests, faults

vars == <<known, arrived, record, claim, pending, auto, opening, pinned, givenUp, unread, loose,
          worker, requests, faults>>
desk == <<known, record, opening, pinned, givenUp, loose, requests>>

MaybeReviewer == Reviewers \union {None}
Moves         == [item : Items, from : Reviewers, to : Reviewers]
NoMove        == [item |-> None, from |-> None, to |-> None]
NoRequest     == [item |-> None, step |-> "none"]

\* due: popped items still to assign; item: the one being assigned.  A poll has its
\* snapshots: who was active and whose units were known, and when it rebalances their
\* loads and who held each movable item.
Idle == [step |-> "idle", poll |-> FALSE, due |-> {}, item |-> None,
         active |-> {}, known |-> {}, loads |-> [r \in Reviewers |-> 0], held |-> [i \in Items |-> None],
         move |-> NoMove, tried |-> {}, moves |-> 0]

Steps == {"idle", "popping", "assigning", "taking", "marking", "retrying", "listing", "moving", "writing"}

PollState ==
  [step : Steps, poll : BOOLEAN, due : SUBSET Items, item : Items \union {None},
   active : SUBSET Reviewers, known : SUBSET Reviewers,
   loads : [Reviewers -> 0..Cardinality(Items)], held : [Items -> MaybeReviewer],
   move : Moves \union {NoMove}, tried : SUBSET Moves, moves : 0..MaxMoves]

TypeOK ==
  /\ known \subseteq Reviewers /\ unread \subseteq Reviewers
  /\ arrived \subseteq Items /\ record \subseteq arrived /\ loose \subseteq arrived
  /\ pending \subseteq arrived /\ auto \subseteq arrived /\ givenUp \subseteq arrived
  /\ claim \in [Items -> MaybeReviewer] /\ pinned \in [Items -> MaybeReviewer]
  /\ opening \in [Reviewers -> [item : Items, step : {"unmark", "remove", "file"}] \union {NoRequest}]
  /\ worker \in [Workers -> PollState]
  /\ requests \in 0..MaxRequests /\ faults \in 0..MaxFaults

Init ==
  /\ known \in SUBSET Reviewers /\ unread = {}
  /\ arrived = {} /\ record = {} /\ pending = {} /\ auto = {} /\ givenUp = {} /\ loose = {}
  /\ claim = [i \in Items |-> None] /\ pinned = [i \in Items |-> None]
  /\ opening = [r \in Reviewers |-> NoRequest]
  /\ worker = [w \in Workers |-> Idle]
  /\ requests = 0 /\ faults = 0

\* pu_allows, for a giver who found the units of the reviewers in units.
Allows(i, r, units) == i \in record /\ r \in units => r \in may[i]

(***************************************************************************)
(* Heartbeats.  A reviewer's queue poll enters them among the active ones  *)
(* for a while and then writes their units.  Who is active when somebody   *)
(* asks is left open: any reviewer may have entered, or have gone quiet.   *)
(***************************************************************************)
Request == requests < MaxRequests /\ requests' = requests + 1
Rest    == <<arrived, record, claim, pending, auto, opening, pinned, givenUp, unread, loose, worker, faults>>

WriteUnits(r) ==
  /\ Request /\ r \notin known
  /\ known' = known \union {r}
  /\ UNCHANGED Rest

\* Nobody polls for twice a heartbeat's life: the units lapse.
UnitsLapse ==
  /\ Request /\ known' = {}
  /\ UNCHANGED Rest

(***************************************************************************)
(* The consumer: HYBRID defers the assignment, AUTO tries it at once.      *)
(***************************************************************************)
\* The item's record is written first; an item whose record cannot be written goes on without.
Arrives(i) ==
  /\ i \notin arrived
  /\ arrived' = arrived \union {i}
  /\ \/ record' = record \union {i} /\ UNCHANGED <<loose, faults>>
     \/ /\ faults < MaxFaults /\ faults' = faults + 1
        /\ loose' = loose \union {i} /\ UNCHANGED record

Defer(i) ==
  /\ Arrives(i)
  /\ pending' = pending \union {i}
  /\ UNCHANGED <<known, claim, auto, opening, pinned, givenUp, unread, worker, requests>>

\* The configuration cannot be read, which means SELF, or the item cannot be queued: both
\* are logged, the event is committed, and no poll will ever assign the item.  The same
\* outage may have kept its record from being written.
DeferFails(i) ==
  /\ i \notin arrived /\ faults < MaxFaults
  /\ faults' = faults + 1
  /\ arrived' = arrived \union {i} /\ givenUp' = givenUp \union {i}
  /\ \/ record' = record \union {i} /\ UNCHANGED loose
     \/ loose' = loose \union {i} /\ UNCHANGED record
  /\ UNCHANGED <<known, claim, pending, auto, opening, pinned, unread, worker, requests>>

AssignNow(w, i) ==
  /\ Arrives(i) /\ worker[w].step = "idle"
  /\ worker' = [worker EXCEPT ![w] = [Idle EXCEPT !.step = "assigning", !.due = {i}]]
  /\ UNCHANGED <<known, claim, pending, auto, opening, pinned, givenUp, unread, requests>>

(***************************************************************************)
(* A poll's deferred assignments.                                          *)
(***************************************************************************)
\* pop_due_hybrid_pending: two polls may read the same items before one removes them.
StartPoll(w) ==
  /\ worker[w].step = "idle"
  /\ \E due \in SUBSET pending :
       worker' = [worker EXCEPT ![w] = [Idle EXCEPT !.step = IF due = {} THEN "assigning" ELSE "popping",
                                                    !.poll = TRUE, !.due = due]]
  /\ UNCHANGED <<arrived, claim, pending, auto, unread, desk, faults>>

Pop(w) ==
  /\ worker[w].step = "popping"
  /\ pending' = pending \ worker[w].due
  /\ worker' = [worker EXCEPT ![w].step = "assigning"]
  /\ UNCHANGED <<arrived, claim, auto, unread, desk, faults>>

\* auto_assign leaves an item somebody holds; only the consumer queues it again all the same.
\* For a free one it reads whose units are known.
CheckHolder(w) ==
  /\ worker[w].step = "assigning"
  /\ \E i \in worker[w].due :
       worker' = [worker EXCEPT ![w].due = @ \ {i},
                                ![w].item = IF claim[i] # None /\ worker[w].poll THEN None ELSE i,
                                ![w].step = IF claim[i] = None THEN "taking"
                                            ELSE IF worker[w].poll THEN "assigning" ELSE "retrying",
                                ![w].known = known]
  /\ unread' = unread \union (Reviewers \ known)
  /\ UNCHANGED <<arrived, claim, pending, auto, desk, faults>>

\* The first candidate whose acquire_lock succeeds: on a free item, or on their own.
\* Who is active, loads and the cap choose among those allowed.
Take(w) ==
  /\ worker[w].step = "taking"
  /\ \E r \in Reviewers :
       /\ Allows(worker[w].item, r, worker[w].known)
       /\ claim[worker[w].item] \in {None, r}
       /\ claim' = [claim EXCEPT ![worker[w].item] = r]
  /\ worker' = [worker EXCEPT ![w].step = "marking"]
  /\ UNCHANGED <<arrived, pending, auto, unread, desk, faults>>

\* Somebody else was faster with every candidate.
TakeFails(w) ==
  /\ worker[w].step = "taking" /\ claim[worker[w].item] # None
  /\ worker' = [worker EXCEPT ![w].item = IF worker[w].poll THEN None ELSE @,
                              ![w].step = IF worker[w].poll THEN "assigning" ELSE "retrying"]
  /\ UNCHANGED <<arrived, claim, pending, auto, unread, desk, faults>>

NobodyEligible(w) ==
  /\ worker[w].step = "taking"
  /\ worker' = [worker EXCEPT ![w].step = "retrying"]
  /\ UNCHANGED <<arrived, claim, pending, auto, unread, desk, faults>>

MarkAuto(w) ==
  /\ worker[w].step = "marking"
  /\ auto' = auto \union {worker[w].item}
  /\ worker' = [worker EXCEPT ![w].step = "assigning", ![w].item = None]
  /\ UNCHANGED <<arrived, claim, pending, unread, desk, faults>>

\* Seeded bug: an item nobody is eligible for is not queued again.
NoRetry(w) ==
  /\ worker[w].step = "retrying"
  /\ worker' = [worker EXCEPT ![w].step = "assigning", ![w].item = None]
  /\ UNCHANGED <<arrived, claim, pending, auto, unread, desk, faults>>

Retry(w) ==
  /\ worker[w].step = "retrying"
  /\ pending' = pending \union {worker[w].item}
  /\ worker' = [worker EXCEPT ![w].step = "assigning", ![w].item = None]
  /\ UNCHANGED <<arrived, claim, auto, unread, desk, faults>>

(***************************************************************************)
(* Rebalancing: on a new login, or when the gate opens.                    *)
(***************************************************************************)
LoadOf(r) == Cardinality({i \in Items : claim[i] = r})

Finish(w) ==
  /\ worker[w].step = "assigning" /\ worker[w].due = {}
  /\ worker' = [worker EXCEPT ![w] = Idle]
  /\ UNCHANGED <<arrived, claim, pending, auto, unread, desk, faults>>

StartRebalance(w) ==
  /\ worker[w].step = "assigning" /\ worker[w].due = {} /\ worker[w].poll
  /\ \E active \in SUBSET Reviewers :
       /\ Cardinality(active) >= 2
       /\ worker' = [worker EXCEPT ![w] = [Idle EXCEPT !.step = "listing", !.poll = TRUE,
                                                       !.active = active, !.known = known,
                                                       !.loads = [r \in Reviewers |-> LoadOf(r)]]]
  /\ unread' = unread \union (Reviewers \ known)
  /\ UNCHANGED <<arrived, claim, pending, auto, desk, faults>>

\* list_auto, which also drops the items whose claim lapsed.
ListAuto(w) ==
  /\ worker[w].step = "listing"
  /\ auto' = {i \in auto : claim[i] # None}
  /\ worker' = [worker EXCEPT ![w].step = "moving",
       ![w].held = [i \in Items |-> IF i \in auto /\ claim[i] \in worker[w].active THEN claim[i] ELSE None]]
  /\ UNCHANGED <<arrived, claim, pending, unread, desk, faults>>

\* Seeded bug: the receiver's processing unit is not looked at.
MovesAnywhere(k) ==
  {m \in [item : Items, from : k.active, to : k.active] :
     /\ k.held[m.item] = m.from /\ k.loads[m.from] - k.loads[m.to] >= 2
     /\ m \notin k.tried}

\* Seeded bug: the difference of the loads is not looked at.
MovesAlways(k) ==
  {m \in [item : Items, from : k.active, to : k.active] :
     /\ k.held[m.item] = m.from /\ m.from # m.to
     /\ Allows(m.item, m.to, k.known) /\ m \notin k.tried}

Candidates(k) ==
  {m \in [item : Items, from : k.active, to : k.active] :
     /\ k.held[m.item] = m.from /\ k.loads[m.from] - k.loads[m.to] >= 2
     /\ Allows(m.item, m.to, k.known) /\ m \notin k.tried}

\* The most loaded donor that has a move, and its least loaded receiver.
Best(k) ==
  {m \in Candidates(k) : \A n \in Candidates(k) :
     /\ k.loads[n.from] <= k.loads[m.from]
     /\ n.from = m.from => k.loads[m.to] <= k.loads[n.to]}

\* transfer, first call: the donor must still hold the item.
CheckDonor(w) ==
  /\ worker[w].step = "moving" /\ worker[w].moves < MaxMoves
  /\ \E m \in Best(worker[w]) :
       worker' = IF claim[m.item] = m.from
                 THEN [worker EXCEPT ![w].step = "writing", ![w].move = m]
                 ELSE [worker EXCEPT ![w].tried = @ \union {m}]
  /\ UNCHANGED <<arrived, claim, pending, auto, unread, desk, faults>>

\* The books of a pass after a move: the item leaves the donor's movable list and enters
\* no other, and the search starts anew.
Moved(k) ==
  [k EXCEPT !.step = "moving", !.move = NoMove, !.tried = {}, !.moves = @ + 1,
            !.held = [@ EXCEPT ![k.move.item] = None],
            !.loads = [r \in Reviewers |-> IF r = k.move.from THEN @[r] - 1
                                           ELSE IF r = k.move.to THEN @[r] + 1 ELSE @[r]]]

\* transfer, second call: SET XX overwrites whoever holds the item now.
Transfer(w) ==
  /\ worker[w].step = "writing"
  /\ LET m == worker[w].move IN
       IF claim[m.item] # None
       THEN /\ claim' = [claim EXCEPT ![m.item] = m.to]
            /\ worker' = [worker EXCEPT ![w] = Moved(@)]
       ELSE /\ worker' = [worker EXCEPT ![w].step = "moving", ![w].move = NoMove, ![w].tried = @ \union {m}]
            /\ UNCHANGED claim
  /\ UNCHANGED <<arrived, pending, auto, unread, desk, faults>>

Rebalanced(w) == worker[w].step = "moving" /\ (worker[w].moves = MaxMoves \/ Candidates(worker[w]) = {})

EndRebalance(w) ==
  /\ Rebalanced(w)
  /\ worker' = [worker EXCEPT ![w] = Idle]
  /\ UNCHANGED <<arrived, claim, pending, auto, unread, desk, faults>>

\* Items that are in no queue while the poll works on them.
Holds(k, i) == i \in k.due \/ (k.item = i /\ k.step \in {"taking", "retrying"})

\* A failed Redis call ends the assignments, after which the poll may still rebalance, or
\* the rebalancing; a process that dies ends both.
PollFails(w) ==
  /\ worker[w].step # "idle" /\ faults < MaxFaults
  /\ faults' = faults + 1
  /\ givenUp' = givenUp \union {i \in Items : Holds(worker[w], i)}
  /\ worker' = [worker EXCEPT ![w] =
       IF worker[w].step \in {"listing", "moving", "writing"} THEN Idle
       ELSE [Idle EXCEPT !.step = "assigning", !.poll = worker[w].poll]]
  /\ UNCHANGED <<known, arrived, record, claim, pending, auto, opening, pinned, unread, loose, requests>>

(***************************************************************************)
(* Reviewers and admins.                                                   *)
(***************************************************************************)
Asks(r)  == Request /\ opening[r] = NoRequest /\ UNCHANGED <<known, arrived, record, worker, faults>>

\* claim: the reviewer, whose units are in the session, takes a free item or opens their own.
Claim(r, i) ==
  /\ Asks(r)
  /\ i \in arrived /\ Allows(i, r, Reviewers) /\ claim[i] \in {None, r}
  /\ claim' = [claim EXCEPT ![i] = r]
  /\ opening' = [opening EXCEPT ![r] = [item |-> i, step |-> "unmark"]]
  /\ UNCHANGED <<pending, auto, pinned, givenUp, unread, loose>>

UnmarkAuto(r) ==
  /\ opening[r].step = "unmark"
  /\ auto' = auto \ {opening[r].item}
  /\ opening' = [opening EXCEPT ![r].step = "remove"]
  /\ UNCHANGED <<known, arrived, record, claim, pending, pinned, givenUp, unread, loose, worker, requests, faults>>

\* The last call; the reviewer is told the item is theirs.
RemovePending(r) ==
  /\ opening[r].step = "remove"
  /\ pending' = pending \ {opening[r].item}
  /\ opening' = [opening EXCEPT ![r] = NoRequest]
  /\ pinned' = IF claim[opening[r].item] = r THEN [pinned EXCEPT ![opening[r].item] = r] ELSE pinned
  /\ UNCHANGED <<known, arrived, record, claim, auto, givenUp, unread, loose, worker, requests, faults>>

\* /decide takes a free claim, and looks at no unit.
Decide(r, i) ==
  /\ Asks(r)
  /\ i \in record /\ claim[i] \in {None, r}
  /\ claim' = [claim EXCEPT ![i] = r]
  /\ loose' = IF r \in may[i] THEN loose ELSE loose \union {i}
  /\ opening' = [opening EXCEPT ![r] = [item |-> i, step |-> "file"]]
  /\ UNCHANGED <<pending, auto, pinned, givenUp, unread>>

Free(i) ==
  /\ claim' = [claim EXCEPT ![i] = None]
  /\ pinned' = [pinned EXCEPT ![i] = None] /\ givenUp' = givenUp \union {i}

\* A decision that is final: the claim and every record of the item are dropped.
FileDecision(r) ==
  /\ opening[r].step = "file"
  /\ opening' = [opening EXCEPT ![r] = NoRequest]
  /\ LET i == opening[r].item IN
       /\ IF claim[i] = r THEN Free(i)
          ELSE givenUp' = givenUp \union {i} /\ UNCHANGED <<claim, pinned>>
       /\ record' = record \ {i} /\ auto' = auto \ {i} /\ pending' = pending \ {i}
       /\ loose' = loose \union {i}
  /\ UNCHANGED <<known, arrived, unread, worker, requests, faults>>

\* One that a checker has to confirm, or that was not signalled or cleared up, leaves all in place.
MakerDecided(r) ==
  /\ opening[r].step = "file"
  /\ opening' = [opening EXCEPT ![r] = NoRequest]
  /\ UNCHANGED <<known, arrived, record, claim, pending, auto, pinned, givenUp, unread, loose, worker,
                 requests, faults>>

Unclaim(r, i) ==
  /\ Asks(r) /\ claim[i] = r
  /\ Free(i) /\ auto' = auto \ {i}
  /\ UNCHANGED <<pending, opening, unread, loose>>

Lapse(i) ==
  /\ Request /\ claim[i] # None
  /\ Free(i)
  /\ UNCHANGED <<known, arrived, record, pending, auto, opening, unread, loose, worker, faults>>

\* An admin's assignment, pinned from the start, to a registered reviewer, who need not be
\* online: one whose units are not known is not restricted.
ForceAssign(r, i) ==
  /\ Request /\ i \in arrived /\ Allows(i, r, known)
  /\ claim' = [claim EXCEPT ![i] = r] /\ pinned' = [pinned EXCEPT ![i] = r]
  /\ auto' = auto \ {i} /\ pending' = pending \ {i}
  /\ unread' = unread \union ({r} \ known)
  /\ UNCHANGED <<known, arrived, record, opening, givenUp, loose, worker, faults>>

Assigns(w) ==
  \/ StartPoll(w) \/ Pop(w) \/ CheckHolder(w) \/ Take(w) \/ TakeFails(w) \/ NobodyEligible(w)
  \/ MarkAuto(w) \/ Retry(w) \/ Finish(w) \/ \E i \in Items : AssignNow(w, i)
Rebalances(w) == StartRebalance(w) \/ ListAuto(w) \/ CheckDonor(w) \/ Transfer(w) \/ EndRebalance(w)
Staff ==
  \E r \in Reviewers :
    \/ UnmarkAuto(r) \/ RemovePending(r) \/ FileDecision(r) \/ MakerDecided(r)
    \/ \E i \in Items : Claim(r, i) \/ Decide(r, i) \/ Unclaim(r, i) \/ ForceAssign(r, i)

Next ==
  \/ \E w \in Workers : Assigns(w) \/ Rebalances(w) \/ PollFails(w)
  \/ \E i \in Items : Defer(i) \/ DeferFails(i) \/ Lapse(i)
  \/ \E r \in Reviewers : WriteUnits(r)
  \/ UnitsLapse
  \/ Staff

Spec == Init /\ [][Next]_vars

(***************************************************************************)
(* Properties.                                                             *)
(***************************************************************************)
\* However polls, rebalancing and requests interleave, an item is held outside its
\* processing unit only by a reviewer whose units some poll, pass or admin did not find in
\* Redis, or when the item had no record, or was taken by /decide from outside.
OutsideUnitOnlyUnread ==
  \A i \in Items : claim[i] # None /\ claim[i] \notin may[i] => claim[i] \in unread \/ i \in loose

InHands(i) == \E w \in Workers : Holds(worker[w], i)

\* An item that never had a holder waits in hybrid-pending or is in the hands of a poll,
\* however polls, claims and assignments interleave; the only items that can be in no
\* queue are those the consumer could not queue (human_review_consumer.py:250) and those a
\* poll had popped when it failed (cts_inward.py:858).
NeverDropped == \A i \in arrived \ givenUp : claim[i] = None => i \in pending \/ InHands(i)

\* The rebalancer never decides to move an item its holder has opened, or an admin has
\* given them ("never moving an item the reviewer has opened", "pinned").
OpenedStays ==
  [][\A w \in Workers : worker[w].step = "moving" /\ worker'[w].step = "writing" =>
       LET m == worker'[w].move IN pinned[m.item] # m.from]_vars
=============================================================================
