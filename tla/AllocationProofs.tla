-------------------------- MODULE AllocationProofs --------------------------
(***************************************************************************)
(* What Allocation promises for any number of items, reviewers, polls and  *)
(* requests, whatever fails: who holds an item outside their processing    *)
(* unit got it while their units could not be read, and no item is dropped *)
(* except by a consumer or a poll that failed.  An opened item stays with  *)
(* its reviewer if nobody opens an item that a poll has in work.           *)
(***************************************************************************)
EXTENDS Allocation, FiniteSetTheorems, TLAPS

(***************************************************************************)
(* The inductive invariant.                                                *)
(***************************************************************************)
\* r is in i's unit, or could be given i because r's units or i's record could not be read.
Fits(i, r) == r \in may[i] \/ r \in unread \/ i \in loose

\* While a poll acts on the units it has read.
Scoped == {"taking", "listing", "moving", "writing"}

\* What a poll is busy with: items that have arrived, a move its snapshot justifies.
BusyInv ==
  \A w \in Workers :
    /\ worker[w].due \subseteq arrived
    /\ worker[w].step \in {"popping", "assigning", "taking", "marking", "retrying"} \/ worker[w].due = {}
    /\ worker[w].step \in {"taking", "marking", "retrying"} => worker[w].item \in arrived
    /\ worker[w].step \in Scoped => Reviewers \ worker[w].known \subseteq unread
    /\ worker[w].step = "writing" =>
         /\ worker[w].move \in Moves /\ worker[w].moves < MaxMoves
         /\ Fits(worker[w].move.item, worker[w].move.to)
         /\ worker[w].loads[worker[w].move.from] - worker[w].loads[worker[w].move.to] >= 2

\* A reviewer opens or decides an item that has arrived and that has had a holder.
OpeningInv ==
  \A r \in Reviewers : opening[r] # NoRequest =>
    /\ opening[r].item \in arrived
    /\ claim[opening[r].item] # None \/ opening[r].item \in givenUp

\* Only items that have arrived are claimed.
ClaimedInv == \A i \in Items : claim[i] # None => i \in arrived

\* Every holder fits; an item that has no record was counted among the loose.
UnitInv ==
  /\ arrived \subseteq record \union loose
  /\ \A i \in Items : claim[i] # None => Fits(i, claim[i])

IInv == TypeOK /\ BusyInv /\ OpeningInv /\ ClaimedInv /\ UnitInv

LEMMA LoadsBounded ==
  ASSUME TypeOK
  PROVE  Cardinality(Items) \in Nat /\ \A r \in Reviewers : LoadOf(r) \in 0..Cardinality(Items)
  <1>1. IsFiniteSet(Items)
    BY AllocationAssumption
  <1>2. \A r \in Reviewers : {i \in Items : claim[i] = r} \subseteq Items
    OBVIOUS
  <1> QED
    BY <1>1, <1>2, FS_Subset, FS_CardinalityType DEF LoadOf

LEMMA IdleIsTyped == Idle \in PollState
  <1>1. Cardinality(Items) \in Nat
    BY AllocationAssumption, FS_CardinalityType
  <1> QED
    BY <1>1, AllocationAssumption DEF Idle, PollState, Steps, MaybeReviewer, Moves, NoMove

LEMMA InitInv == Init => IInv
  <1> SUFFICES ASSUME Init PROVE IInv
    OBVIOUS
  <1>1. TypeOK
    BY IdleIsTyped, AllocationAssumption DEF Init, TypeOK, MaybeReviewer, NoRequest
  <1>2. BusyInv /\ OpeningInv /\ ClaimedInv /\ UnitInv
    BY DEF Init, BusyInv, OpeningInv, ClaimedInv, UnitInv, Fits, Idle, NoRequest, Scoped
  <1> QED
    BY <1>1, <1>2 DEF IInv

\* What a poll's next state must be like, given that the step touches only that poll.
LEMMA PollStep ==
  ASSUME IInv, NEW w \in Workers, NEW k \in PollState,
         worker' = [worker EXCEPT ![w] = k], arrived \subseteq arrived',
         unread \subseteq unread', loose \subseteq loose',
         k.due \subseteq arrived',
         k.step \in {"popping", "assigning", "taking", "marking", "retrying"} \/ k.due = {},
         k.step \in {"taking", "marking", "retrying"} => k.item \in arrived',
         k.step \in Scoped => Reviewers \ k.known \subseteq unread',
         k.step = "writing" => /\ k.move \in Moves /\ k.moves < MaxMoves /\ Fits(k.move.item, k.move.to)
                               /\ k.loads[k.move.from] - k.loads[k.move.to] >= 2
  PROVE  worker' \in [Workers -> PollState] /\ BusyInv'
  <1>1. worker \in [Workers -> PollState]
    BY DEF IInv, TypeOK
  <1>2. worker' \in [Workers -> PollState] /\ \A v \in Workers : worker'[v] = IF v = w THEN k ELSE worker[v]
    BY <1>1
  <1>3. BusyInv'
    <2> SUFFICES ASSUME NEW v \in Workers
                 PROVE  /\ worker'[v].due \subseteq arrived'
                        /\ worker'[v].step \in {"popping", "assigning", "taking", "marking", "retrying"}
                             \/ worker'[v].due = {}
                        /\ worker'[v].step \in {"taking", "marking", "retrying"} => worker'[v].item \in arrived'
                        /\ worker'[v].step \in Scoped => Reviewers \ worker'[v].known \subseteq unread'
                        /\ worker'[v].step = "writing" =>
                             /\ worker'[v].move \in Moves /\ worker'[v].moves < MaxMoves
                             /\ Fits(worker[v].move.item, worker[v].move.to)'
                             /\ worker'[v].loads[worker'[v].move.from] - worker'[v].loads[worker'[v].move.to] >= 2
      BY DEF BusyInv
    <2>1. CASE v = w
      BY <1>2, <2>1 DEF Fits
    <2>2. CASE v # w
      BY <1>2, <2>2 DEF IInv, BusyInv, Fits
    <2> QED
      BY <2>1, <2>2
  <1> QED
    BY <1>2, <1>3

\* An arriving item leaves what the others rely on.
LEMMA ArrivalKeepsInv ==
  ASSUME IInv, NEW i \in Items, Arrives(i), worker' \in [Workers -> PollState],
         UNCHANGED <<known, claim, auto, opening, pinned, givenUp, unread, requests>>,
         pending' \subseteq arrived'
  PROVE  TypeOK' /\ OpeningInv' /\ ClaimedInv' /\ UnitInv'
  <1> USE DEF IInv
  <1>1. faults' \in 0..MaxFaults
    BY AllocationAssumption DEF Arrives, TypeOK
  <1>2. /\ arrived' = arrived \union {i} /\ record \subseteq record' /\ loose \subseteq loose'
        /\ record' \subseteq record \union {i} /\ loose' \subseteq loose \union {i}
        /\ i \in record' \union loose'
    BY DEF Arrives
  <1>3. TypeOK'
    BY <1>1, <1>2 DEF TypeOK
  <1>4. OpeningInv' /\ ClaimedInv'
    BY <1>2 DEF OpeningInv, ClaimedInv
  <1>5. UnitInv'
    BY <1>2 DEF UnitInv, Fits
  <1> QED
    BY <1>3, <1>4, <1>5

LEMMA PollsKeepInv ==
  ASSUME IInv, NEW w \in Workers, Assigns(w) \/ Rebalances(w) \/ PollFails(w)
  PROVE  IInv'
  <1> DEFINE p == worker[w]
  <1> USE DEF IInv, Scoped
  <1>0. p \in PollState /\ worker \in [Workers -> PollState]
    BY DEF TypeOK
  <1>b. /\ p.due \subseteq arrived
        /\ p.step \in {"popping", "assigning", "taking", "marking", "retrying"} \/ p.due = {}
        /\ p.step \in {"taking", "marking", "retrying"} => p.item \in arrived
        /\ p.step \in Scoped => Reviewers \ p.known \subseteq unread
        /\ p.step = "writing" => /\ p.move \in Moves /\ p.moves < MaxMoves /\ Fits(p.move.item, p.move.to)
                                 /\ p.loads[p.move.from] - p.loads[p.move.to] >= 2
    BY DEF BusyInv
  \* The steps that change nothing but the poll.
  <1>1. ASSUME NEW k \in PollState, worker' = [worker EXCEPT ![w] = k],
               UNCHANGED <<arrived, claim, pending, auto, desk>>, faults' \in 0..MaxFaults,
               unread \subseteq unread', unread' \subseteq Reviewers,
               k.due \subseteq arrived,
               k.step \in {"popping", "assigning", "taking", "marking", "retrying"} \/ k.due = {},
               k.step \in {"taking", "marking", "retrying"} => k.item \in arrived,
               k.step \in Scoped => Reviewers \ k.known \subseteq unread',
               k.step = "writing" => /\ k.move \in Moves /\ k.moves < MaxMoves /\ Fits(k.move.item, k.move.to)
                                     /\ k.loads[k.move.from] - k.loads[k.move.to] >= 2
        PROVE  IInv'
    <2>1. worker' \in [Workers -> PollState] /\ BusyInv'
      BY <1>1, PollStep DEF desk
    <2>2. TypeOK'
      BY <1>1, <2>1 DEF TypeOK, desk
    <2>3. OpeningInv' /\ ClaimedInv' /\ UnitInv'
      BY <1>1 DEF OpeningInv, ClaimedInv, UnitInv, Fits, desk
    <2> QED
      BY <2>1, <2>2, <2>3
  <1>2. CASE StartPoll(w)
    <2>1. PICK due \in SUBSET pending :
            worker' = [worker EXCEPT ![w] = [Idle EXCEPT !.step = IF due = {} THEN "assigning" ELSE "popping",
                                                         !.poll = TRUE, !.due = due]]
      BY <1>2 DEF StartPoll
    <2> DEFINE k == [Idle EXCEPT !.step = IF due = {} THEN "assigning" ELSE "popping", !.poll = TRUE, !.due = due]
    <2>2. k \in PollState /\ k.due = due /\ k.step \in {"assigning", "popping"}
      BY IdleIsTyped DEF PollState, Steps, Idle, TypeOK
    <2>3. due \subseteq arrived /\ faults' \in 0..MaxFaults /\ unread \subseteq unread' /\ unread' \subseteq Reviewers
      BY <1>2 DEF TypeOK, StartPoll
    <2>4. UNCHANGED <<arrived, claim, pending, auto, desk>>
      BY <1>2 DEF StartPoll
    <2> HIDE DEF k
    <2> QED
      BY <1>1, <2>1, <2>2, <2>3, <2>4 DEF k
  <1>3. CASE CheckHolder(w)
    <2>1. PICK i \in p.due :
            worker' = [worker EXCEPT ![w].due = @ \ {i},
                                     ![w].item = IF claim[i] # None /\ worker[w].poll THEN None ELSE i,
                                     ![w].step = IF claim[i] = None THEN "taking"
                                                 ELSE IF worker[w].poll THEN "assigning" ELSE "retrying",
                                     ![w].known = known]
      BY <1>3 DEF CheckHolder
    <2> DEFINE k == [p EXCEPT !.due = @ \ {i}, !.item = IF claim[i] # None /\ p.poll THEN None ELSE i,
                              !.step = IF claim[i] = None THEN "taking" ELSE IF p.poll THEN "assigning" ELSE "retrying",
                              !.known = known]
    <2>2. worker' = [worker EXCEPT ![w] = k]
      BY <1>0, <2>1
    <2>3. k \in PollState /\ k.due \subseteq p.due /\ k.step \in {"taking", "assigning", "retrying"}
          /\ (k.step # "assigning" => k.item = i) /\ k.known = known
      BY <1>0 DEF PollState, Steps, TypeOK
    <2>4. faults' \in 0..MaxFaults /\ i \in arrived
      BY <1>3, <1>b DEF CheckHolder, TypeOK
    <2>5. unread' = unread \union (Reviewers \ known) /\ UNCHANGED <<arrived, claim, pending, auto, desk>>
      BY <1>3 DEF CheckHolder
    <2>6. unread \subseteq unread' /\ unread' \subseteq Reviewers /\ Reviewers \ k.known \subseteq unread'
      BY <2>3, <2>5 DEF TypeOK
    <2> HIDE DEF k
    <2> QED
      BY <1>1, <1>b, <2>2, <2>3, <2>4, <2>5, <2>6
  <1>4. CASE TakeFails(w)
    <2> DEFINE k == [p EXCEPT !.item = IF p.poll THEN None ELSE @, !.step = IF p.poll THEN "assigning" ELSE "retrying"]
    <2>1. worker' = [worker EXCEPT ![w] = k]
      BY <1>0, <1>4 DEF TakeFails
    <2>2. k \in PollState /\ k.due = p.due /\ k.step \in {"assigning", "retrying"} /\ (k.step = "retrying" => k.item = p.item)
      BY <1>0, IdleIsTyped DEF PollState, Steps
    <2>3. /\ UNCHANGED <<arrived, claim, pending, auto, unread, desk>>
          /\ faults' \in 0..MaxFaults /\ unread \subseteq Reviewers
      BY <1>4 DEF TakeFails, TypeOK
    <2> HIDE DEF k
    <2> QED
      BY <1>1, <1>4, <1>b, <2>1, <2>2, <2>3 DEF TakeFails
  <1>5. CASE NobodyEligible(w)
    <2> DEFINE k == [p EXCEPT !.step = "retrying"]
    <2>1. worker' = [worker EXCEPT ![w] = k]
      BY <1>0, <1>5 DEF NobodyEligible
    <2>2. k \in PollState /\ k.due = p.due /\ k.step = "retrying" /\ k.item = p.item
      BY <1>0, IdleIsTyped DEF PollState, Steps
    <2>3. /\ UNCHANGED <<arrived, claim, pending, auto, unread, desk>>
          /\ faults' \in 0..MaxFaults /\ unread \subseteq Reviewers
      BY <1>5 DEF NobodyEligible, TypeOK
    <2> HIDE DEF k
    <2> QED
      BY <1>1, <1>5, <1>b, <2>1, <2>2, <2>3 DEF NobodyEligible
  <1>6. CASE Finish(w)
    <2> DEFINE k == Idle
    <2>1. worker' = [worker EXCEPT ![w] = k]
      BY <1>0, <1>6 DEF Finish
    <2>2. k \in PollState /\ k.due = {} /\ k.step = "idle"
      BY <1>0, IdleIsTyped DEF PollState, Steps, Idle
    <2>3. /\ UNCHANGED <<arrived, claim, pending, auto, unread, desk>>
          /\ faults' \in 0..MaxFaults /\ unread \subseteq Reviewers
      BY <1>6 DEF Finish, TypeOK
    <2> HIDE DEF k
    <2> QED
      BY <1>1, <1>6, <1>b, <2>1, <2>2, <2>3 DEF Finish
  <1>7. CASE EndRebalance(w)
    <2> DEFINE k == Idle
    <2>1. worker' = [worker EXCEPT ![w] = k]
      BY <1>0, <1>7 DEF EndRebalance
    <2>2. k \in PollState /\ k.due = {} /\ k.step = "idle"
      BY <1>0, IdleIsTyped DEF PollState, Steps, Idle
    <2>3. /\ UNCHANGED <<arrived, claim, pending, auto, unread, desk>>
          /\ faults' \in 0..MaxFaults /\ unread \subseteq Reviewers
      BY <1>7 DEF EndRebalance, TypeOK
    <2> HIDE DEF k
    <2> QED
      BY <1>1, <1>7, <1>b, <2>1, <2>2, <2>3 DEF EndRebalance
  <1>8. CASE StartRebalance(w)
    <2>1. PICK active \in SUBSET Reviewers :
            worker' = [worker EXCEPT ![w] = [Idle EXCEPT !.step = "listing", !.poll = TRUE,
                                                         !.active = active, !.known = known,
                                                         !.loads = [r \in Reviewers |-> LoadOf(r)]]]
      BY <1>8 DEF StartRebalance
    <2> DEFINE k == [Idle EXCEPT !.step = "listing", !.poll = TRUE, !.active = active, !.known = known,
                                 !.loads = [r \in Reviewers |-> LoadOf(r)]]
    <2>2. [r \in Reviewers |-> LoadOf(r)] \in [Reviewers -> 0..Cardinality(Items)]
      BY LoadsBounded
    <2>3. k \in PollState /\ k.due = {} /\ k.step = "listing" /\ k.known = known
      BY <2>2, IdleIsTyped DEF PollState, Steps, Idle, TypeOK
    <2>4. /\ unread' = unread \union (Reviewers \ known) /\ UNCHANGED <<arrived, claim, pending, auto, desk>>
          /\ faults' \in 0..MaxFaults
      BY <1>8 DEF StartRebalance, TypeOK
    <2>5. unread \subseteq unread' /\ unread' \subseteq Reviewers /\ Reviewers \ k.known \subseteq unread'
      BY <2>3, <2>4 DEF TypeOK
    <2>6. worker' = [worker EXCEPT ![w] = k]
      BY <2>1
    <2> HIDE DEF k
    <2> QED
      BY <1>1, <2>3, <2>4, <2>5, <2>6
  <1>9. CASE CheckDonor(w)
    <2>1. PICK m \in Best(p) :
            worker' = IF claim[m.item] = m.from
                      THEN [worker EXCEPT ![w].step = "writing", ![w].move = m]
                      ELSE [worker EXCEPT ![w].tried = @ \union {m}]
      BY <1>9 DEF CheckDonor
    <2>2. m \in Moves /\ Allows(m.item, m.to, p.known) /\ p.loads[m.from] - p.loads[m.to] >= 2
      BY <1>0 DEF Best, Candidates, Moves, PollState
    <2>3. p.step = "moving" /\ p.moves < MaxMoves
      BY <1>9 DEF CheckDonor
    <2>6. /\ UNCHANGED <<arrived, claim, pending, auto, unread, desk>>
          /\ faults' \in 0..MaxFaults /\ unread \subseteq Reviewers
      BY <1>9 DEF CheckDonor, TypeOK
    <2>4. CASE claim[m.item] = m.from
      <3> DEFINE k == [p EXCEPT !.step = "writing", !.move = m]
      <3>1. worker' = [worker EXCEPT ![w] = k]
        BY <1>0, <2>1, <2>4
      <3>2. /\ k \in PollState /\ k.due = p.due /\ k.step = "writing"
            /\ k.move = m /\ k.moves = p.moves /\ k.loads = p.loads /\ k.known = p.known
        BY <1>0, <2>2 DEF PollState, Steps
      <3>3. m.item \in arrived /\ m.to \in Reviewers
        BY <2>2, <2>4, AllocationAssumption DEF Moves, ClaimedInv
      <3>4. Fits(m.item, m.to)
        BY <1>b, <2>2, <2>3, <3>3 DEF Fits, Allows, UnitInv
      <3> HIDE DEF k
      <3> QED
        BY <1>1, <1>b, <2>2, <2>3, <2>6, <3>1, <3>2, <3>4
    <2>5. CASE claim[m.item] # m.from
      <3> DEFINE k == [p EXCEPT !.tried = @ \union {m}]
      <3>1. worker' = [worker EXCEPT ![w] = k]
        BY <1>0, <2>1, <2>5
      <3>2. k \in PollState /\ k.due = p.due /\ k.step = "moving" /\ k.known = p.known
        BY <1>0, <2>2, <2>3 DEF PollState, Steps
      <3> HIDE DEF k
      <3> QED
        BY <1>1, <1>b, <2>3, <2>6, <3>1, <3>2
    <2> QED
      BY <2>4, <2>5
  <1>10. CASE PollFails(w)
    <2>0. givenUp \subseteq givenUp' /\ givenUp' \subseteq arrived
      BY <1>10, <1>b DEF PollFails, Holds, TypeOK
    <2> DEFINE k == IF p.step \in {"listing", "moving", "writing"} THEN Idle
                    ELSE [Idle EXCEPT !.step = "assigning", !.poll = p.poll]
    <2>1. worker' = [worker EXCEPT ![w] = k]
      BY <1>10 DEF PollFails
    <2>2. k \in PollState /\ k.due = {} /\ k.step \in {"idle", "assigning"}
      BY <1>0, IdleIsTyped DEF PollState, Steps, Idle
    <2>3. faults' \in 0..MaxFaults
      BY <1>10, AllocationAssumption DEF PollFails, TypeOK
    <2>4. UNCHANGED <<known, arrived, record, claim, pending, auto, opening, pinned, unread, loose, requests>>
      BY <1>10 DEF PollFails
    <2> HIDE DEF k
    <2>5. worker' \in [Workers -> PollState] /\ BusyInv'
      BY <2>1, <2>2, <2>4, PollStep
    <2>6. TypeOK'
      BY <2>0, <2>3, <2>4, <2>5 DEF TypeOK
    <2>7. OpeningInv' /\ ClaimedInv' /\ UnitInv'
      BY <2>0, <2>4 DEF OpeningInv, ClaimedInv, UnitInv, Fits
    <2> QED
      BY <2>5, <2>6, <2>7
  \* The steps that also write to Redis.
  <1>11. CASE Pop(w)
    <2> DEFINE k == [p EXCEPT !.step = "assigning"]
    <2>1. worker' = [worker EXCEPT ![w] = k]
      BY <1>0, <1>11 DEF Pop
    <2>2. k \in PollState /\ k.due = p.due /\ k.step = "assigning"
      BY <1>0, IdleIsTyped DEF PollState, Steps
    <2>0. UNCHANGED <<arrived, unread, desk>>
      BY <1>11 DEF Pop
    <2>3. worker' \in [Workers -> PollState] /\ BusyInv'
      <3> HIDE DEF k
      <3> QED
        BY <1>b, <2>0, <2>1, <2>2, PollStep DEF desk
    <2>4. TypeOK'
      BY <1>11, <1>b, <2>3 DEF Pop, TypeOK, desk
    <2>5. OpeningInv' /\ ClaimedInv' /\ UnitInv'
      BY <1>11 DEF Pop, OpeningInv, ClaimedInv, UnitInv, Fits, desk
    <2> QED
      BY <2>3, <2>4, <2>5
  <1>12. CASE MarkAuto(w)
    <2> DEFINE k == [p EXCEPT !.step = "assigning", !.item = None]
    <2>1. worker' = [worker EXCEPT ![w] = k]
      BY <1>0, <1>12 DEF MarkAuto
    <2>2. k \in PollState /\ k.due = p.due /\ k.step = "assigning"
      BY <1>0, IdleIsTyped DEF PollState, Steps
    <2>0. UNCHANGED <<arrived, unread, desk>>
      BY <1>12 DEF MarkAuto
    <2>3. worker' \in [Workers -> PollState] /\ BusyInv'
      <3> HIDE DEF k
      <3> QED
        BY <1>b, <2>0, <2>1, <2>2, PollStep DEF desk
    <2>4. TypeOK'
      BY <1>12, <1>b, <2>3 DEF MarkAuto, TypeOK, desk
    <2>5. OpeningInv' /\ ClaimedInv' /\ UnitInv'
      BY <1>12 DEF MarkAuto, OpeningInv, ClaimedInv, UnitInv, Fits, desk
    <2> QED
      BY <2>3, <2>4, <2>5
  <1>13. CASE Retry(w)
    <2> DEFINE k == [p EXCEPT !.step = "assigning", !.item = None]
    <2>1. worker' = [worker EXCEPT ![w] = k]
      BY <1>0, <1>13 DEF Retry
    <2>2. k \in PollState /\ k.due = p.due /\ k.step = "assigning"
      BY <1>0, IdleIsTyped DEF PollState, Steps
    <2>0. UNCHANGED <<arrived, unread, desk>>
      BY <1>13 DEF Retry
    <2>3. worker' \in [Workers -> PollState] /\ BusyInv'
      <3> HIDE DEF k
      <3> QED
        BY <1>b, <2>0, <2>1, <2>2, PollStep DEF desk
    <2>4. TypeOK'
      BY <1>13, <1>b, <2>3 DEF Retry, TypeOK, desk
    <2>5. OpeningInv' /\ ClaimedInv' /\ UnitInv'
      BY <1>13 DEF Retry, OpeningInv, ClaimedInv, UnitInv, Fits, desk
    <2> QED
      BY <2>3, <2>4, <2>5
  <1>14. CASE \E i \in Items : AssignNow(w, i)
    <2>1. PICK i \in Items : AssignNow(w, i)
      BY <1>14
    <2> DEFINE k == [Idle EXCEPT !.step = "assigning", !.due = {i}]
    <2>2. k \in PollState /\ k.due = {i} /\ k.step = "assigning"
      BY IdleIsTyped DEF PollState, Steps, Idle
    <2>0. /\ worker' = [worker EXCEPT ![w] = k] /\ Arrives(i)
          /\ UNCHANGED <<known, claim, pending, auto, opening, pinned, givenUp, unread, requests>>
      BY <2>1 DEF AssignNow
    <2>5. i \in arrived' /\ arrived \subseteq arrived' /\ loose \subseteq loose'
      BY <2>0 DEF Arrives
    <2>3. worker' \in [Workers -> PollState] /\ BusyInv'
      <3> HIDE DEF k
      <3> QED
        BY <2>0, <2>2, <2>5, PollStep
    <2>4. TypeOK' /\ OpeningInv' /\ ClaimedInv' /\ UnitInv'
      <3>1. pending' \subseteq arrived'
        BY <2>0, <2>5 DEF TypeOK
      <3> QED
        BY <2>0, <2>3, <3>1, ArrivalKeepsInv
    <2> QED
      BY <2>3, <2>4
  <1>15. CASE ListAuto(w)
    <2> DEFINE h == [i \in Items |-> IF i \in auto /\ claim[i] \in p.active THEN claim[i] ELSE None]
               k == [p EXCEPT !.step = "moving", !.held = h]
    <2>1. worker' = [worker EXCEPT ![w] = k] /\ p.step = "listing"
      BY <1>0, <1>15 DEF ListAuto
    <2>2. h \in [Items -> MaybeReviewer]
      BY DEF TypeOK, MaybeReviewer
    <2>3. k \in PollState /\ k.due = p.due /\ k.step = "moving" /\ k.known = p.known
      <3> HIDE DEF h
      <3> QED
        BY <1>0, <2>2 DEF PollState, Steps
    <2>0. UNCHANGED <<arrived, unread, desk>>
      BY <1>15 DEF ListAuto
    <2>4. worker' \in [Workers -> PollState] /\ BusyInv'
      <3> HIDE DEF k
      <3> QED
        BY <1>b, <2>0, <2>1, <2>3, PollStep DEF desk
    <2>5. TypeOK'
      BY <1>15, <2>4 DEF ListAuto, TypeOK, desk
    <2>6. OpeningInv' /\ ClaimedInv' /\ UnitInv'
      BY <1>15 DEF ListAuto, OpeningInv, ClaimedInv, UnitInv, Fits, desk
    <2> QED
      BY <2>4, <2>5, <2>6
  <1>16. CASE Take(w)
    <2>1. PICK r \in Reviewers : Allows(p.item, r, p.known) /\ claim' = [claim EXCEPT ![p.item] = r]
      BY <1>16 DEF Take
    <2> DEFINE k == [p EXCEPT !.step = "marking"]
    <2>2. worker' = [worker EXCEPT ![w] = k] /\ p.step = "taking"
      BY <1>0, <1>16 DEF Take
    <2>0. UNCHANGED <<arrived, unread, desk>>
      BY <1>16 DEF Take
    <2>3. k \in PollState /\ k.due = p.due /\ k.step = "marking" /\ k.item = p.item
      BY <1>0 DEF PollState, Steps
    <2>4. worker' \in [Workers -> PollState] /\ BusyInv'
      <3> HIDE DEF k
      <3> QED
        BY <1>b, <2>0, <2>2, <2>3, PollStep DEF desk
    <2>5. p.item \in arrived /\ p.item \in Items /\ r \in Reviewers /\ r # None
      BY <1>b, <2>1, <2>2, AllocationAssumption DEF TypeOK
    <2>6. \A i \in Items : claim'[i] = IF i = p.item THEN r ELSE claim[i]
      BY <2>1 DEF TypeOK
    <2>7. TypeOK'
      BY <1>16, <2>1, <2>4, <2>5 DEF Take, TypeOK, desk, MaybeReviewer
    <2>9. Fits(p.item, r)
      BY <1>b, <2>1, <2>2, <2>5 DEF Fits, Allows, UnitInv
    <2>8. OpeningInv' /\ ClaimedInv' /\ UnitInv'
      BY <2>0, <2>5, <2>6, <2>9 DEF TypeOK, OpeningInv, ClaimedInv, UnitInv, Fits, desk, NoRequest
    <2> QED
      BY <2>4, <2>7, <2>8
  <1>17. CASE Transfer(w)
    <2> DEFINE m == p.move
    <2>0. /\ p.step = "writing" /\ m \in Moves /\ p.moves < MaxMoves /\ Fits(m.item, m.to)
          /\ UNCHANGED <<arrived, unread, desk>>
          /\ p.loads[m.from] - p.loads[m.to] >= 2
      BY <1>17, <1>b DEF Transfer
    <2>1. CASE claim[m.item] # None
      <3> DEFINE l == [r \in Reviewers |-> IF r = m.from THEN p.loads[r] - 1
                                           ELSE IF r = m.to THEN p.loads[r] + 1 ELSE p.loads[r]]
                 h == [p.held EXCEPT ![m.item] = None]
                 k == Moved(p)
      <3>1. worker' = [worker EXCEPT ![w] = k]
        BY <1>17, <2>1 DEF Transfer
      <3>2. l \in [Reviewers -> 0..Cardinality(Items)]
        <4>1. p.loads \in [Reviewers -> 0..Cardinality(Items)] /\ Cardinality(Items) \in Nat
          BY <1>0, LoadsBounded DEF PollState
        <4>2. m.from \in Reviewers /\ m.to \in Reviewers
          BY <2>0 DEF Moves
        <4>3. p.loads[m.from] - 1 \in 0..Cardinality(Items) /\ p.loads[m.to] + 1 \in 0..Cardinality(Items)
              /\ m.from # m.to
          BY <2>0, <4>1, <4>2
        <4> QED
          BY <4>1, <4>2, <4>3
      <3>3. h \in [Items -> MaybeReviewer] /\ p.moves + 1 \in 0..MaxMoves
        BY <1>0, <2>0, AllocationAssumption DEF PollState, MaybeReviewer, Moves
      <3>4. k \in PollState /\ k.due = p.due /\ k.step = "moving" /\ k.known = p.known
        <4>1. k = [p EXCEPT !.step = "moving", !.move = NoMove, !.tried = {}, !.moves = @ + 1,
                            !.held = h, !.loads = l]
          BY DEF Moved
        <4> HIDE DEF l, h, k
        <4> QED
          BY <1>0, <3>2, <3>3, <4>1 DEF PollState, Steps
      <3>5. worker' \in [Workers -> PollState] /\ BusyInv'
        <4> HIDE DEF k
        <4> QED
          BY <1>b, <2>0, <3>1, <3>4, PollStep DEF desk
      <3>6. claim' = [claim EXCEPT ![m.item] = m.to] /\ m.item \in Items /\ m.to \in Reviewers /\ m.to # None
        BY <1>17, <2>0, <2>1, AllocationAssumption DEF Transfer, Moves
      <3>7. \A i \in Items : claim'[i] = IF i = m.item THEN m.to ELSE claim[i]
        BY <3>6 DEF TypeOK
      <3>8. TypeOK'
        BY <1>17, <3>5, <3>6 DEF Transfer, TypeOK, desk, MaybeReviewer
      <3>9. OpeningInv' /\ ClaimedInv' /\ UnitInv'
        BY <2>0, <2>1, <3>6, <3>7 DEF TypeOK, OpeningInv, ClaimedInv, UnitInv, Fits, desk, NoRequest
      <3> QED
        BY <3>5, <3>8, <3>9
    <2>2. CASE claim[m.item] = None
      <3> DEFINE k == [p EXCEPT !.step = "moving", !.move = NoMove, !.tried = @ \union {m}]
      <3>1. worker' = [worker EXCEPT ![w] = k]
        BY <1>0, <1>17, <2>2 DEF Transfer
      <3>2. k \in PollState /\ k.due = p.due /\ k.step = "moving" /\ k.known = p.known
        BY <1>0, <2>0 DEF PollState, Steps
      <3>3. /\ UNCHANGED <<arrived, claim, pending, auto, unread, desk>>
            /\ faults' \in 0..MaxFaults /\ unread \subseteq Reviewers
        BY <1>17, <2>2 DEF Transfer, TypeOK
      <3> HIDE DEF k
      <3> QED
        BY <1>1, <1>b, <2>0, <3>1, <3>2, <3>3
    <2> QED
      BY <2>1, <2>2
  <1> QED
    BY <1>2, <1>3, <1>4, <1>5, <1>6, <1>7, <1>8, <1>9, <1>10, <1>11, <1>12, <1>13, <1>14, <1>15, <1>16, <1>17
       DEF Assigns, Rebalances

\* What the requests of reviewers and admins do to the polls: nothing.
LEMMA PollsUndisturbed ==
  ASSUME BusyInv, worker' = worker, arrived' = arrived, unread \subseteq unread', loose \subseteq loose'
  PROVE  BusyInv'
  BY DEF BusyInv, Fits

\* Heartbeats, arrivals, reviewers' and admins' requests, and claims that lapse.
LEMMA OthersKeepInv ==
  ASSUME IInv, \/ \E i \in Items : Defer(i) \/ DeferFails(i) \/ Lapse(i)
               \/ \E r \in Reviewers : WriteUnits(r)
               \/ UnitsLapse
               \/ Staff
  PROVE  IInv'
  <1> USE AllocationAssumption DEF IInv
  <1>a. Request => requests' \in 0..MaxRequests
    BY DEF Request, TypeOK
  <1>1. ASSUME NEW i \in Items, Defer(i) PROVE IInv'
    <2>1. /\ Arrives(i) /\ pending' = pending \union {i}
          /\ UNCHANGED <<known, claim, auto, opening, pinned, givenUp, unread, worker, requests>>
      BY <1>1 DEF Defer
    <2>2. arrived' = arrived \union {i} /\ loose \subseteq loose'
      BY <2>1 DEF Arrives
    <2>3. pending' \subseteq arrived' /\ worker' \in [Workers -> PollState]
      BY <2>1, <2>2 DEF TypeOK
    <2>4. TypeOK' /\ OpeningInv' /\ ClaimedInv' /\ UnitInv'
      BY <2>1, <2>3, ArrivalKeepsInv
    <2>5. BusyInv'
      BY <2>1, <2>2 DEF BusyInv, Fits
    <2> QED
      BY <2>4, <2>5
  <1>2. ASSUME NEW i \in Items, DeferFails(i) PROVE IInv'
    <2>1. faults' \in 0..MaxFaults
      BY <1>2 DEF DeferFails, TypeOK
    <2>2. TypeOK'
      BY <1>2, <2>1 DEF DeferFails, TypeOK
    <2>3. OpeningInv' /\ ClaimedInv' /\ UnitInv'
      BY <1>2 DEF DeferFails, OpeningInv, ClaimedInv, UnitInv, Fits
    <2>4. BusyInv'
      BY <1>2 DEF DeferFails, BusyInv, Fits
    <2> QED
      BY <2>2, <2>3, <2>4
  <1>3. ASSUME NEW i \in Items, Lapse(i) PROVE IInv'
    <2>1. \A j \in Items : claim'[j] = IF j = i THEN None ELSE claim[j]
      BY <1>3 DEF Lapse, Free, TypeOK
    <2>2. i \in arrived
      BY <1>3 DEF Lapse, ClaimedInv
    <2>3. TypeOK'
      BY <1>3, <1>a, <2>2 DEF Lapse, Free, TypeOK, MaybeReviewer
    <2>4. BusyInv'
      BY <1>3, PollsUndisturbed DEF Lapse
    <2>5. UnitInv' /\ ClaimedInv'
      BY <1>3, <2>1 DEF Lapse, UnitInv, Fits, ClaimedInv
    <2>6. OpeningInv'
      BY <1>3, <2>1 DEF Lapse, Free, TypeOK, OpeningInv, NoRequest
    <2> QED
      BY <2>3, <2>4, <2>5, <2>6
  <1>4. ASSUME UnitsLapse \/ \E r \in Reviewers : WriteUnits(r) PROVE IInv'
    <2>1. known' \subseteq Reviewers /\ requests' \in 0..MaxRequests /\ UNCHANGED Rest
      BY <1>4, <1>a DEF UnitsLapse, WriteUnits, TypeOK
    <2>2. TypeOK'
      BY <2>1 DEF Rest, TypeOK
    <2>3. BusyInv'
      BY <2>1, PollsUndisturbed DEF Rest
    <2>4. OpeningInv' /\ ClaimedInv' /\ UnitInv'
      BY <2>1 DEF Rest, OpeningInv, ClaimedInv, UnitInv, Fits
    <2> QED
      BY <2>2, <2>3, <2>4
  <1>5. ASSUME NEW r \in Reviewers, UnmarkAuto(r) PROVE IInv'
    <2>1. opening[r] # NoRequest /\ opening[r].item \in Items
      BY <1>5 DEF UnmarkAuto, NoRequest, OpeningInv, TypeOK
    <2>2. opening' = [opening EXCEPT ![r] = [item |-> opening[r].item, step |-> "remove"]]
      <3>1. opening[r] \in [item : Items, step : {"unmark", "remove", "file"}] /\ r \in DOMAIN opening
        BY <2>1 DEF TypeOK
      <3>2. [opening[r] EXCEPT !.step = "remove"] = [item |-> opening[r].item, step |-> "remove"]
        BY <3>1
      <3>3. opening' = [opening EXCEPT ![r] = [opening[r] EXCEPT !.step = "remove"]]
        BY <1>5, <3>1 DEF UnmarkAuto
      <3> QED
        BY <3>2, <3>3
    <2>3. TypeOK'
      BY <1>5, <2>1, <2>2 DEF UnmarkAuto, TypeOK
    <2>4. BusyInv'
      BY <1>5, PollsUndisturbed DEF UnmarkAuto
    <2>5. UnitInv' /\ ClaimedInv'
      BY <1>5 DEF UnmarkAuto, UnitInv, Fits, ClaimedInv
    <2>6. OpeningInv'
      BY <1>5, <2>1, <2>2 DEF UnmarkAuto, TypeOK, OpeningInv
    <2> QED
      BY <2>3, <2>4, <2>5, <2>6
  <1>6. ASSUME NEW r \in Reviewers, RemovePending(r) PROVE IInv'
    <2>1. TypeOK'
      BY <1>6 DEF RemovePending, TypeOK, MaybeReviewer
    <2>2. BusyInv'
      BY <1>6, PollsUndisturbed DEF RemovePending
    <2>3. UnitInv' /\ ClaimedInv' /\ OpeningInv'
      BY <1>6 DEF RemovePending, TypeOK, UnitInv, Fits, ClaimedInv, OpeningInv
    <2> QED
      BY <2>1, <2>2, <2>3
  <1>7. ASSUME NEW r \in Reviewers, NEW i \in Items, Claim(r, i) \/ Decide(r, i) PROVE IInv'
    <2>1. /\ claim' = [claim EXCEPT ![i] = r] /\ i \in arrived /\ requests' \in 0..MaxRequests
          /\ UNCHANGED <<known, arrived, record, pending, auto, pinned, givenUp, unread, worker, faults>>
          /\ loose \subseteq loose' /\ loose' \subseteq loose \union {i}
      BY <1>7, <1>a DEF Claim, Decide, Asks, TypeOK
    <2>2. PICK s \in {"unmark", "file"} : opening' = [opening EXCEPT ![r] = [item |-> i, step |-> s]]
      BY <1>7 DEF Claim, Decide
    <2>3. \A j \in Items : claim'[j] = IF j = i THEN r ELSE claim[j]
      BY <2>1 DEF TypeOK
    <2>4. TypeOK'
      BY <2>1, <2>2 DEF TypeOK, MaybeReviewer
    <2>5. BusyInv'
      BY <2>1, PollsUndisturbed
    <2>6. ClaimedInv' /\ OpeningInv'
      BY <2>1, <2>2, <2>3 DEF ClaimedInv, TypeOK, OpeningInv
    <2>7. Fits(i, r)'
      <3>1. CASE Claim(r, i)
        BY <2>1, <3>1 DEF Claim, Allows, UnitInv, Fits
      <3>2. CASE Decide(r, i)
        BY <3>2 DEF Decide, Fits
      <3> QED
        BY <1>7, <3>1, <3>2
    <2>8. UnitInv'
      BY <2>1, <2>3, <2>7 DEF UnitInv, Fits
    <2> QED
      BY <2>4, <2>5, <2>6, <2>8
  <1>8. ASSUME NEW r \in Reviewers, FileDecision(r) PROVE IInv'
    <2> DEFINE i == opening[r].item
    <2>1. opening[r] # NoRequest /\ i \in Items /\ i \in arrived
      BY <1>8 DEF FileDecision, NoRequest, OpeningInv, TypeOK
    <2>2. \A j \in Items : claim'[j] = claim[j] \/ (claim'[j] = None /\ j = i)
      BY <1>8 DEF FileDecision, Free, TypeOK
    <2>3. /\ givenUp' = givenUp \union {i} /\ record' = record \ {i} /\ loose' = loose \union {i}
          /\ auto' = auto \ {i} /\ pending' = pending \ {i}
          /\ opening' = [opening EXCEPT ![r] = NoRequest]
          /\ UNCHANGED <<known, arrived, unread, worker, requests, faults>>
      BY <1>8 DEF FileDecision, Free
    <2>4. claim' \in [Items -> MaybeReviewer] /\ pinned' \in [Items -> MaybeReviewer]
      BY <1>8 DEF FileDecision, Free, TypeOK, MaybeReviewer
    <2> HIDE DEF i
    <2>5. TypeOK'
      BY <2>1, <2>3, <2>4 DEF TypeOK
    <2>6. BusyInv'
      BY <2>3, PollsUndisturbed
    <2>7. UnitInv' /\ ClaimedInv'
      BY <2>2, <2>3 DEF UnitInv, Fits, ClaimedInv
    <2>8. OpeningInv'
      BY <2>2, <2>3 DEF TypeOK, OpeningInv, NoRequest
    <2> QED
      BY <2>5, <2>6, <2>7, <2>8
  <1>9. ASSUME NEW r \in Reviewers, MakerDecided(r) PROVE IInv'
    <2>1. TypeOK'
      BY <1>9 DEF MakerDecided, TypeOK
    <2>2. BusyInv'
      BY <1>9, PollsUndisturbed DEF MakerDecided
    <2>3. UnitInv' /\ ClaimedInv' /\ OpeningInv'
      BY <1>9 DEF MakerDecided, TypeOK, UnitInv, Fits, ClaimedInv, OpeningInv
    <2> QED
      BY <2>1, <2>2, <2>3
  <1>10. ASSUME NEW r \in Reviewers, NEW i \in Items, Unclaim(r, i) PROVE IInv'
    <2>1. \A j \in Items : claim'[j] = IF j = i THEN None ELSE claim[j]
      BY <1>10 DEF Unclaim, Free, TypeOK
    <2>2. i \in arrived
      BY <1>10 DEF Unclaim, ClaimedInv
    <2>3. TypeOK'
      BY <1>10, <1>a, <2>2 DEF Unclaim, Asks, Free, TypeOK, MaybeReviewer
    <2>4. BusyInv'
      BY <1>10, PollsUndisturbed DEF Unclaim, Asks
    <2>5. UnitInv' /\ ClaimedInv'
      BY <1>10, <2>1 DEF Unclaim, Asks, UnitInv, Fits, ClaimedInv
    <2>6. OpeningInv'
      BY <1>10, <2>1 DEF Unclaim, Asks, Free, TypeOK, OpeningInv, NoRequest
    <2> QED
      BY <2>3, <2>4, <2>5, <2>6
  <1>11. ASSUME NEW r \in Reviewers, NEW i \in Items, ForceAssign(r, i) PROVE IInv'
    <2>1. \A j \in Items : claim'[j] = IF j = i THEN r ELSE claim[j]
      BY <1>11 DEF ForceAssign, TypeOK
    <2>2. TypeOK'
      BY <1>11, <1>a DEF ForceAssign, TypeOK, MaybeReviewer
    <2>3. BusyInv'
      BY <1>11, PollsUndisturbed DEF ForceAssign
    <2>4. ClaimedInv' /\ OpeningInv'
      BY <1>11, <2>1 DEF ForceAssign, TypeOK, ClaimedInv, OpeningInv, NoRequest
    <2>5. Fits(i, r)'
      BY <1>11 DEF ForceAssign, Allows, UnitInv, Fits
    <2>6. UnitInv'
      BY <1>11, <2>1, <2>5 DEF ForceAssign, UnitInv, Fits
    <2> QED
      BY <2>2, <2>3, <2>4, <2>6
  <1> QED
    BY <1>1, <1>2, <1>3, <1>4, <1>5, <1>6, <1>7, <1>8, <1>9, <1>10, <1>11 DEF Staff

LEMMA StepInv == IInv /\ [Next]_vars => IInv'
  <1> SUFFICES ASSUME IInv, [Next]_vars PROVE IInv'
    OBVIOUS
  <1>1. CASE UNCHANGED vars
    BY <1>1 DEF vars, IInv, TypeOK, BusyInv, OpeningInv, ClaimedInv, UnitInv, Fits
  <1>2. CASE Next
    BY <1>2, PollsKeepInv, OthersKeepInv DEF Next
  <1> QED
    BY <1>1, <1>2

LEMMA AlwaysInv == Spec => []IInv
  BY InitInv, StepInv, PTL DEF Spec

\* The allocation state keeps its shape, and a pass's books never show a negative load,
\* whatever the other polls do (rebalance).
THEOREM AllocationTypeCorrect == Spec => []TypeOK
  BY AlwaysInv, PTL DEF IInv

\* However polls, rebalancing, claims, decisions and admin assignments interleave, and
\* whatever units are missing from Redis when, who holds an item outside their processing
\* unit is a reviewer whose units a giver did not find, or holds an item that had lost its
\* record or that /decide had taken (auto_assign, rebalance, claim, admin_assign_review).
THEOREM OutsideOnlyUnread == Spec => []OutsideUnitOnlyUnread
  <1>1. IInv => OutsideUnitOnlyUnread
    BY DEF IInv, UnitInv, Fits, OutsideUnitOnlyUnread
  <1> QED
    BY <1>1, AlwaysInv, PTL

(***************************************************************************)
(* What is dropped is dropped by a call that failed.                       *)
(***************************************************************************)
\* A claim is only ever given up into givenUp.
LEMMA GivenUpIsReleased ==
  ASSUME IInv, Next, NEW i \in Items, i \notin givenUp', claim'[i] = None
  PROVE  i \notin givenUp /\ claim[i] = None
  <1> USE AllocationAssumption DEF IInv
  <1>1. ASSUME NEW w \in Workers, Assigns(w) \/ Rebalances(w) \/ PollFails(w) PROVE givenUp \subseteq givenUp'
    BY <1>1 DEF Assigns, StartPoll, Pop, CheckHolder, Take, TakeFails, NobodyEligible, MarkAuto, Retry, Finish,
                AssignNow, Rebalances, StartRebalance, ListAuto, CheckDonor, Transfer, EndRebalance, PollFails, desk
  <1>2. givenUp \subseteq givenUp'
    <2>1. CASE Staff
      BY <2>1 DEF Staff, Free, UnmarkAuto, RemovePending, Claim, Decide, FileDecision, MakerDecided, Unclaim, ForceAssign
    <2>2. CASE UnitsLapse \/ \E r \in Reviewers : WriteUnits(r)
      BY <2>2 DEF UnitsLapse, WriteUnits, Rest
    <2>3. CASE \E j \in Items : Defer(j) \/ DeferFails(j) \/ Lapse(j)
      BY <2>3 DEF Defer, DeferFails, Lapse, Free
    <2> QED
      BY <1>1, <2>1, <2>2, <2>3 DEF Next
  <1>3. SUFFICES ASSUME claim[i] # None PROVE FALSE
    BY <1>2
  <1>4. ASSUME NEW w \in Workers, Assigns(w) \/ Rebalances(w) \/ PollFails(w) PROVE FALSE
    <2>1. CASE Take(w)
      <3>1. worker[w].item \in Items
        BY <2>1 DEF Take, BusyInv, TypeOK
      <3> QED
        BY <2>1, <3>1, <1>3 DEF Take, TypeOK
    <2>2. CASE Transfer(w)
      <3>1. worker[w].move \in Moves
        BY <2>2 DEF Transfer, BusyInv
      <3> QED
        BY <2>2, <3>1, <1>3 DEF Transfer, TypeOK, Moves
    <2>3. CASE ~Take(w) /\ ~Transfer(w)
      BY <1>3, <1>4, <2>3
         DEF Assigns, StartPoll, Pop, CheckHolder, TakeFails, NobodyEligible, MarkAuto, Retry, Finish,
             AssignNow, Rebalances, StartRebalance, ListAuto, CheckDonor, EndRebalance, PollFails
    <2> QED
      BY <2>1, <2>2, <2>3
  <1>5. ASSUME NEW j \in Items, Defer(j) \/ DeferFails(j) \/ Lapse(j) PROVE FALSE
    BY <1>3, <1>5 DEF Defer, DeferFails, Lapse, Free, TypeOK
  <1>6. ASSUME UnitsLapse \/ \E r \in Reviewers : WriteUnits(r) PROVE FALSE
    BY <1>3, <1>6 DEF UnitsLapse, WriteUnits, Rest
  <1>7. ASSUME NEW r \in Reviewers, NEW j \in Items, Claim(r, j) \/ Decide(r, j) \/ ForceAssign(r, j) PROVE FALSE
    BY <1>3, <1>7 DEF Claim, Decide, ForceAssign, TypeOK
  <1>8. ASSUME NEW r \in Reviewers, UnmarkAuto(r) \/ RemovePending(r) \/ MakerDecided(r) PROVE FALSE
    BY <1>3, <1>8 DEF UnmarkAuto, RemovePending, MakerDecided
  <1>9. ASSUME NEW r \in Reviewers, FileDecision(r) \/ \E j \in Items : Unclaim(r, j) PROVE FALSE
    BY <1>3, <1>9 DEF FileDecision, Unclaim, Free, TypeOK
  <1> QED
    BY <1>4, <1>5, <1>6, <1>7, <1>8, <1>9 DEF Next, Staff

\* What a poll holds it keeps, until it puts it back or the item has a holder.
LEMMA PollsDropNothing ==
  ASSUME IInv, NEW w \in Workers, Assigns(w) \/ Rebalances(w) \/ PollFails(w),
         NEW i \in arrived, i \notin givenUp', claim[i] = None, claim'[i] = None, i \in pending \/ InHands(i)
  PROVE  i \in pending' \/ InHands(i)'
  <1> USE AllocationAssumption DEF IInv, Holds
  <1> DEFINE p == worker[w]
  <1>0. worker \in [Workers -> PollState] /\ p \in PollState
    BY DEF TypeOK
  <1>b. p.step \in {"popping", "assigning", "taking", "marking", "retrying"} \/ p.due = {}
    BY DEF BusyInv
  \* It is enough that this poll keeps, or puts back, what it held, and takes what it removes.
  <1>2. ASSUME \A v \in Workers : v # w => worker'[v] = worker[v],
               i \in pending => i \in pending' \/ Holds(worker'[w], i),
               Holds(p, i) => i \in pending' \/ Holds(worker'[w], i)
        PROVE  i \in pending' \/ InHands(i)'
    <2>1. CASE i \in pending
      BY <1>2, <2>1 DEF InHands
    <2>2. CASE InHands(i)
      <3>1. PICK v \in Workers : Holds(worker[v], i)
        BY <2>2 DEF InHands
      <3> QED
        BY <1>2, <3>1 DEF InHands
    <2> QED
      BY <2>1, <2>2
  <1>1. CASE PollFails(w)
    <2>1. ~Holds(p, i) /\ pending' = pending /\ \A v \in Workers : v # w => worker'[v] = worker[v]
      BY <1>0, <1>1 DEF PollFails, TypeOK
    <2> QED
      BY <1>2, <2>1
  <1>3. CASE StartPoll(w)
    <2>1. ~Holds(p, i) /\ pending' = pending
      BY <1>3, <1>b DEF StartPoll
    <2>2. \A v \in Workers : v # w => worker'[v] = worker[v]
      BY <1>0, <1>3 DEF StartPoll
    <2> QED
      BY <1>2, <2>1, <2>2
  <1>4. CASE Pop(w)
    BY <1>0, <1>2, <1>4 DEF Pop, PollState
  <1>5. CASE CheckHolder(w)
    <2>1. PICK j \in p.due :
            worker' = [worker EXCEPT ![w].due = @ \ {j},
                                     ![w].item = IF claim[j] # None /\ worker[w].poll THEN None ELSE j,
                                     ![w].step = IF claim[j] = None THEN "taking"
                                                 ELSE IF worker[w].poll THEN "assigning" ELSE "retrying",
                                     ![w].known = known]
      BY <1>5 DEF CheckHolder
    <2> DEFINE q == worker'[w]
    <2>2. /\ q.due = p.due \ {j} /\ (claim[j] = None => q.item = j /\ q.step = "taking")
          /\ \A v \in Workers : v # w => worker'[v] = worker[v]
      BY <1>0, <2>1 DEF PollState
    <2>3. p.step = "assigning" /\ pending' = pending
      BY <1>5 DEF CheckHolder
    <2> HIDE DEF q
    <2> QED
      BY <1>2, <2>2, <2>3 DEF q
  <1>6. CASE Take(w)
    <2>1. p.step = "taking" /\ claim'[p.item] # None
      <3>1. p.item \in Items /\ p.step = "taking"
        BY <1>6 DEF Take, BusyInv, TypeOK
      <3> QED
        BY <1>6, <3>1 DEF Take, TypeOK
    <2> QED
      BY <1>0, <1>2, <1>6, <2>1 DEF Take, PollState
  <1>7. CASE TakeFails(w)
    <2>1. p.item # i
      BY <1>7 DEF TakeFails
    <2> QED
      BY <1>0, <1>2, <1>7, <2>1 DEF TakeFails, PollState
  <1>8. CASE NobodyEligible(w)
    BY <1>0, <1>2, <1>8 DEF NobodyEligible, PollState
  <1>9. CASE MarkAuto(w)
    BY <1>0, <1>2, <1>9 DEF MarkAuto, PollState
  <1>10. CASE Retry(w)
    BY <1>0, <1>2, <1>10 DEF Retry, PollState
  <1>11. CASE Finish(w) \/ StartRebalance(w) \/ EndRebalance(w)
    <2>1. ~Holds(p, i) /\ pending' = pending /\ \A v \in Workers : v # w => worker'[v] = worker[v]
      BY <1>0, <1>b, <1>11 DEF Finish, StartRebalance, EndRebalance, Rebalanced
    <2> QED
      BY <1>2, <2>1
  <1>12. CASE \E j \in Items : AssignNow(w, j)
    <2>1. ~Holds(p, i) /\ pending' = pending /\ \A v \in Workers : v # w => worker'[v] = worker[v]
      BY <1>0, <1>b, <1>12 DEF AssignNow
    <2> QED
      BY <1>2, <2>1
  <1>13. CASE ListAuto(w) \/ CheckDonor(w) \/ Transfer(w)
    <2>1. ~Holds(p, i) /\ pending' = pending /\ \A v \in Workers : v # w => worker'[v] = worker[v]
      BY <1>0, <1>b, <1>13 DEF ListAuto, CheckDonor, Transfer
    <2> QED
      BY <1>2, <2>1
  <1> QED
    BY <1>1, <1>3, <1>4, <1>5, <1>6, <1>7, <1>8, <1>9, <1>10, <1>11, <1>12, <1>13 DEF Assigns, Rebalances

LEMMA OthersDropNothing ==
  ASSUME IInv, \/ \E j \in Items : Defer(j) \/ DeferFails(j) \/ Lapse(j)
               \/ \E r \in Reviewers : WriteUnits(r)
               \/ UnitsLapse
               \/ Staff,
         NEW i \in arrived, i \notin givenUp', claim[i] = None, claim'[i] = None, i \in pending \/ InHands(i)
  PROVE  i \in pending' \/ InHands(i)'
  <1> USE AllocationAssumption DEF IInv
  <1>0. i \in Items
    BY DEF TypeOK
  <1>1. worker' = worker => (InHands(i) => InHands(i)')
    BY DEF InHands
  <1> HIDE DEF InHands
  <1>2. CASE \E j \in Items : Defer(j) \/ DeferFails(j) \/ Lapse(j)
    BY <1>1, <1>2 DEF Defer, DeferFails, Lapse, Free
  <1>3. ASSUME NEW r \in Reviewers, RemovePending(r) PROVE i \in pending' \/ InHands(i)'
    <2>1. opening[r] # NoRequest
      BY <1>3 DEF RemovePending, NoRequest
    <2>2. opening[r].item # i
      BY <1>3, <2>1 DEF RemovePending, OpeningInv
    <2> QED
      BY <1>1, <1>3, <2>2 DEF RemovePending
  <1>4. ASSUME NEW r \in Reviewers, NEW j \in Items, ForceAssign(r, j) PROVE i \in pending' \/ InHands(i)'
    <2>1. i # j
      BY <1>0, <1>4 DEF ForceAssign, TypeOK
    <2> QED
      BY <1>1, <1>4, <2>1 DEF ForceAssign
  <1>5. ASSUME NEW r \in Reviewers, FileDecision(r) PROVE i \in pending' \/ InHands(i)'
    <2>1. opening[r].item # i
      BY <1>5 DEF FileDecision, Free
    <2> QED
      BY <1>1, <1>5, <2>1 DEF FileDecision
  <1>6. ASSUME NEW r \in Reviewers, UnmarkAuto(r) \/ MakerDecided(r)
        PROVE  i \in pending' \/ InHands(i)'
    BY <1>1, <1>6 DEF UnmarkAuto, MakerDecided
  <1>7. ASSUME NEW r \in Reviewers, NEW j \in Items, Claim(r, j) \/ Decide(r, j) \/ Unclaim(r, j)
        PROVE  i \in pending' \/ InHands(i)'
    BY <1>1, <1>7 DEF Claim, Decide, Unclaim, Asks, Free
  <1>8. CASE UnitsLapse \/ \E r \in Reviewers : WriteUnits(r)
    BY <1>1, <1>8 DEF UnitsLapse, WriteUnits, Rest
  <1> QED
    BY <1>2, <1>3, <1>4, <1>5, <1>6, <1>7, <1>8 DEF Staff

\* An item arrives into the queue, into a poll's hands, or is given up at once.
LEMMA OnlyTheConsumerOpens ==
  ASSUME IInv, Next, arrived' # arrived
  PROVE  \E j \in Items : Defer(j) \/ DeferFails(j) \/ \E w \in Workers : AssignNow(w, j)
  <1>1. ~Staff
    BY DEF Staff, UnmarkAuto, RemovePending, Claim, Decide, FileDecision, MakerDecided, Unclaim, ForceAssign, Asks
  <1>2. ~UnitsLapse /\ \A r \in Reviewers : ~WriteUnits(r)
    BY DEF UnitsLapse, WriteUnits, Rest
  <1>3. ASSUME NEW w \in Workers, Assigns(w) PROVE \E j \in Items : AssignNow(w, j)
    BY <1>3 DEF Assigns, StartPoll, Pop, CheckHolder, Take, TakeFails, NobodyEligible, MarkAuto, Retry, Finish
  <1>4. ASSUME NEW w \in Workers PROVE ~Rebalances(w) /\ ~PollFails(w)
    BY DEF Rebalances, StartRebalance, ListAuto, CheckDonor, Transfer, EndRebalance, PollFails
  <1>5. \A j \in Items : ~Lapse(j)
    BY DEF Lapse
  <1> QED
    BY <1>1, <1>2, <1>3, <1>4, <1>5 DEF Next

LEMMA DropStep ==
  ASSUME IInv, NeverDropped, [Next]_vars
  PROVE  NeverDropped'
  <1>1. CASE UNCHANGED vars
    BY <1>1 DEF vars, NeverDropped, InHands, Holds
  <1>2. CASE Next
    <2> SUFFICES ASSUME NEW i \in arrived', i \notin givenUp', claim'[i] = None
                 PROVE  i \in pending' \/ InHands(i)'
      BY DEF NeverDropped
    <2>1. i \in Items
      BY <1>2, StepInv DEF IInv, TypeOK
    <2>2. i \notin givenUp /\ claim[i] = None
      BY <1>2, <2>1, GivenUpIsReleased
    <2>3. CASE i \in arrived
      <3>1. i \in pending \/ InHands(i)
        BY <2>2, <2>3 DEF NeverDropped
      <3> QED
        BY <1>2, <2>2, <2>3, <3>1, PollsDropNothing, OthersDropNothing DEF Next
    <2>4. CASE i \notin arrived
      <3>1. PICK j \in Items : Defer(j) \/ DeferFails(j) \/ \E w \in Workers : AssignNow(w, j)
        BY <1>2, <2>4, OnlyTheConsumerOpens
      <3>2. j = i
        BY <2>4, <3>1 DEF Defer, DeferFails, AssignNow, Arrives
      <3>3. CASE Defer(i)
        BY <3>3 DEF Defer
      <3>4. ~DeferFails(i)
        BY DEF DeferFails
      <3>5. ASSUME NEW w \in Workers, AssignNow(w, i) PROVE InHands(i)'
        BY <3>5 DEF AssignNow, InHands, Holds, IInv, TypeOK, Idle
      <3> QED
        BY <3>1, <3>2, <3>3, <3>4, <3>5
    <2> QED
      BY <2>3, <2>4
  <1> QED
    BY <1>1, <1>2

\* However polls, requests, lapsing claims and failing calls interleave, an item that never
\* had a holder is queued or in a poll's hands, unless the consumer could not queue it or a
\* poll that failed had popped it: the two calls whose failure is logged and forgotten
\* (human_review_consumer.py:250, cts_inward.py:858).
THEOREM NothingIsDropped ==
  Spec => []NeverDropped
  <1>1. Init => NeverDropped
    BY DEF Init, NeverDropped
  <1>2. IInv /\ NeverDropped /\ [Next]_vars => NeverDropped'
    BY DropStep
  <1> QED
    BY <1>1, <1>2, AlwaysInv, PTL DEF Spec

(***************************************************************************)
(* When an item that was opened stays where it is.  A poll has an item in  *)
(* work while it assigns it and marks it as unopened, and while it is on   *)
(* the list of a rebalancing pass or in a move.                            *)
(***************************************************************************)
AtWork(k, i) == \/ k.item = i /\ k.step \in {"taking", "marking"}
                \/ k.held[i] # None
                \/ k.move.item = i

InWork(i) == \E w \in Workers : AtWork(worker[w], i)

\* Nobody opens an item, and no admin gives one away, that a poll has in work.
Apart     == \A r \in Reviewers : opening[r].step \in {"unmark", "remove"} => ~InWork(opening[r].item)
GivenFree == \A i \in Items : pinned'[i] \notin {pinned[i], None} => ~InWork(i)

\* An opened item is held by who opened it, is not marked as unopened, and no poll has
\* it in work; nor is it marked between the two calls that make it opened.
OpenedInv ==
  \A i \in Items :
    /\ pinned[i] # None => claim[i] = pinned[i] /\ i \notin auto /\ ~InWork(i)
    /\ \A r \in Reviewers : opening[r].item = i /\ opening[r].step = "remove" => i \notin auto

LEMMA OpenedInit == Init => OpenedInv
  BY AllocationAssumption DEF Init, OpenedInv, NoRequest

\* What a poll's step may do to an item: take it in work when it is free or marked, and
\* change its claim or mark it only while it has it in work.
LEMMA PollTouches ==
  ASSUME IInv, NEW w \in Workers, Assigns(w) \/ Rebalances(w) \/ PollFails(w), NEW i \in Items
  PROVE  /\ pinned' = pinned /\ opening' = opening
         /\ \A v \in Workers : v # w => worker'[v] = worker[v]
         /\ AtWork(worker'[w], i) => AtWork(worker[w], i) \/ claim[i] = None \/ i \in auto
         /\ claim'[i] # claim[i] => AtWork(worker[w], i)
         /\ i \in auto' => i \in auto \/ AtWork(worker[w], i)
  <1> DEFINE p == worker[w]
             Kept == UNCHANGED <<claim, auto, pinned, opening>>
  <1>0. p \in PollState /\ worker \in [Workers -> PollState] /\ claim \in [Items -> MaybeReviewer]
    BY DEF IInv, TypeOK
  <1>i. ~AtWork(Idle, i)
    BY AllocationAssumption DEF AtWork, Idle, NoMove
  \* Whatever happens to this poll alone.
  <1>1. ASSUME NEW k, worker' = [worker EXCEPT ![w] = k], UNCHANGED <<pinned, opening>>,
               AtWork(k, i) => AtWork(p, i) \/ claim[i] = None \/ i \in auto,
               claim'[i] # claim[i] => AtWork(p, i),
               i \in auto' => i \in auto \/ AtWork(p, i)
        PROVE  /\ pinned' = pinned /\ opening' = opening
               /\ \A v \in Workers : v # w => worker'[v] = worker[v]
               /\ AtWork(worker'[w], i) => AtWork(p, i) \/ claim[i] = None \/ i \in auto
               /\ claim'[i] # claim[i] => AtWork(p, i)
               /\ i \in auto' => i \in auto \/ AtWork(p, i)
    <2>1. worker'[w] = k /\ \A v \in Workers : v # w => worker'[v] = worker[v]
      BY <1>0, <1>1
    <2> QED
      BY <1>1, <2>1
  <1>2. CASE \/ StartPoll(w) \/ Finish(w) \/ StartRebalance(w) \/ EndRebalance(w) \/ PollFails(w)
             \/ \E j \in Items : AssignNow(w, j)
    <2> DEFINE Rests(k) == k.held = Idle.held /\ k.move = Idle.move /\ k.item = None
               Ends(k)  == worker' = [worker EXCEPT ![w] = k]
    <2>a. Kept
      BY <1>2 DEF StartPoll, Finish, StartRebalance, EndRebalance, PollFails, AssignNow, desk
    <2>b. ASSUME StartPoll(w) PROVE \E k : Ends(k) /\ Rests(k)
      <3>1. PICK due : Ends([Idle EXCEPT !.step = IF due = {} THEN "assigning" ELSE "popping",
                                         !.poll = TRUE, !.due = due])
        BY <2>b DEF StartPoll
      <3> DEFINE k == [Idle EXCEPT !.step = IF due = {} THEN "assigning" ELSE "popping",
                                   !.poll = TRUE, !.due = due]
      <3>2. Rests(k)
        BY DEF Idle
      <3>3. Ends(k)
        BY <3>1
      <3> HIDE DEF k
      <3> QED
        BY <3>2, <3>3
    <2>c. ASSUME Finish(w) \/ EndRebalance(w) PROVE \E k : Ends(k) /\ Rests(k)
      <3>1. Rests(Idle) /\ Ends(Idle)
        BY <2>c DEF Finish, EndRebalance, Idle
      <3> HIDE DEF Rests, Ends
      <3> QED
        BY <3>1
    <2>d. ASSUME StartRebalance(w) PROVE \E k : Ends(k) /\ Rests(k)
      <3>1. PICK active :
              Ends([Idle EXCEPT !.step = "listing", !.poll = TRUE, !.active = active, !.known = known,
                                !.loads = [r \in Reviewers |-> LoadOf(r)]])
        BY <2>d DEF StartRebalance
      <3> DEFINE k == [Idle EXCEPT !.step = "listing", !.poll = TRUE, !.active = active, !.known = known,
                                   !.loads = [r \in Reviewers |-> LoadOf(r)]]
      <3>2. Rests(k)
        BY DEF Idle
      <3>3. Ends(k)
        BY <3>1
      <3> HIDE DEF k
      <3> QED
        BY <3>2, <3>3
    <2>e. ASSUME PollFails(w) PROVE \E k : Ends(k) /\ Rests(k)
      <3> DEFINE k == IF p.step \in {"listing", "moving", "writing"} THEN Idle
                      ELSE [Idle EXCEPT !.step = "assigning", !.poll = p.poll]
      <3>2. Rests(k)
        BY DEF Idle
      <3>3. Ends(k)
        BY <2>e DEF PollFails
      <3> HIDE DEF k
      <3> QED
        BY <3>2, <3>3
    <2>f. ASSUME \E j \in Items : AssignNow(w, j) PROVE \E k : Ends(k) /\ Rests(k)
      <3>1. PICK j \in Items : Ends([Idle EXCEPT !.step = "assigning", !.due = {j}])
        BY <2>f DEF AssignNow
      <3> DEFINE k == [Idle EXCEPT !.step = "assigning", !.due = {j}]
      <3>2. Rests(k)
        BY DEF Idle
      <3>3. Ends(k)
        BY <3>1
      <3> HIDE DEF k
      <3> QED
        BY <3>2, <3>3
    <2> HIDE DEF Rests, Ends
    <2>1. Kept /\ \E k : Ends(k) /\ Rests(k)
      BY <1>2, <2>a, <2>b, <2>c, <2>d, <2>e, <2>f
    <2>2. PICK k : Ends(k) /\ Rests(k)
      BY <2>1
    <2>3. ~AtWork(k, i)
      BY <2>2, AllocationAssumption DEF Rests, AtWork, Idle, NoMove
    <2> QED
      BY <1>1, <2>1, <2>2, <2>3 DEF Ends
  <1>3. CASE CheckHolder(w)
    <2>1. PICK j \in p.due :
            worker' = [worker EXCEPT ![w].due = @ \ {j},
                                     ![w].item = IF claim[j] # None /\ worker[w].poll THEN None ELSE j,
                                     ![w].step = IF claim[j] = None THEN "taking"
                                                 ELSE IF worker[w].poll THEN "assigning" ELSE "retrying",
                                     ![w].known = known]
      BY <1>3 DEF CheckHolder
    <2> DEFINE k == [p EXCEPT !.due = @ \ {j},
                              !.item = IF claim[j] # None /\ p.poll THEN None ELSE j,
                              !.step = IF claim[j] = None THEN "taking"
                                       ELSE IF p.poll THEN "assigning" ELSE "retrying",
                              !.known = known]
    <2>2. worker' = [worker EXCEPT ![w] = k]
      BY <1>0, <2>1
    <2>3. /\ k.held = p.held /\ k.move = p.move
          /\ k.step = "marking" => FALSE
          /\ k.step = "taking" => k.item = j /\ claim[j] = None
      BY <1>0 DEF PollState
    <2> HIDE DEF k
    <2>4. AtWork(k, i) => AtWork(p, i) \/ claim[i] = None
      BY <2>3 DEF AtWork
    <2>5. Kept
      BY <1>3 DEF CheckHolder, desk
    <2> QED
      BY <1>1, <2>2, <2>4, <2>5
  <1>4. CASE Pop(w) \/ TakeFails(w) \/ NobodyEligible(w) \/ Retry(w)
    <2>1. Kept
      BY <1>4 DEF Pop, TakeFails, NobodyEligible, Retry, desk
    <2> DEFINE Turns(k) == /\ worker' = [worker EXCEPT ![w] = k]
                           /\ k.held = p.held /\ k.move = p.move /\ k.step \in {"assigning", "retrying"}
    <2>a. ASSUME Pop(w) PROVE \E k : Turns(k)
      <3> DEFINE k == [p EXCEPT !.step = "assigning"]
      <3>1. Turns(k)
        BY <1>0, <2>a DEF Pop, PollState
      <3> HIDE DEF k, Turns
      <3> QED
        BY <3>1
    <2>b. ASSUME TakeFails(w) PROVE \E k : Turns(k)
      <3> DEFINE k == [p EXCEPT !.item = IF p.poll THEN None ELSE @,
                                !.step = IF p.poll THEN "assigning" ELSE "retrying"]
      <3>1. Turns(k)
        BY <1>0, <2>b DEF TakeFails, PollState
      <3> HIDE DEF k, Turns
      <3> QED
        BY <3>1
    <2>c. ASSUME NobodyEligible(w) PROVE \E k : Turns(k)
      <3> DEFINE k == [p EXCEPT !.step = "retrying"]
      <3>1. Turns(k)
        BY <1>0, <2>c DEF NobodyEligible, PollState
      <3> HIDE DEF k, Turns
      <3> QED
        BY <3>1
    <2>d. ASSUME Retry(w) PROVE \E k : Turns(k)
      <3> DEFINE k == [p EXCEPT !.step = "assigning", !.item = None]
      <3>1. Turns(k)
        BY <1>0, <2>d DEF Retry, PollState
      <3> HIDE DEF k, Turns
      <3> QED
        BY <3>1
    <2>2. PICK k : Turns(k)
      BY <1>4, <2>a, <2>b, <2>c, <2>d
    <2>3. AtWork(k, i) => AtWork(p, i)
      BY <2>2 DEF AtWork
    <2> QED
      BY <1>1, <2>1, <2>2, <2>3
  <1>5. CASE Take(w)
    <2> DEFINE k == [p EXCEPT !.step = "marking"]
    <2>1. /\ p.step = "taking" /\ worker' = [worker EXCEPT ![w] = k]
          /\ UNCHANGED <<auto, pinned, opening>>
          /\ \E r : claim' = [claim EXCEPT ![p.item] = r]
      BY <1>0, <1>5 DEF Take, desk
    <2>2. k.held = p.held /\ k.move = p.move /\ k.item = p.item
      BY <1>0 DEF PollState
    <2>3. AtWork(k, i) => AtWork(p, i)
      BY <2>1, <2>2 DEF AtWork
    <2>4. claim'[i] # claim[i] => AtWork(p, i)
      BY <1>0, <2>1 DEF AtWork
    <2> QED
      BY <1>1, <2>1, <2>3, <2>4
  <1>6. CASE MarkAuto(w)
    <2> DEFINE k == [p EXCEPT !.step = "assigning", !.item = None]
    <2>1. /\ p.step = "marking" /\ worker' = [worker EXCEPT ![w] = k]
          /\ UNCHANGED <<claim, pinned, opening>> /\ auto' = auto \union {p.item}
      BY <1>0, <1>6 DEF MarkAuto, desk
    <2>2. k.held = p.held /\ k.move = p.move /\ k.step = "assigning"
      BY <1>0 DEF PollState
    <2>3. AtWork(k, i) => AtWork(p, i)
      BY <2>2 DEF AtWork
    <2>4. i \in auto' => i \in auto \/ AtWork(p, i)
      BY <2>1 DEF AtWork
    <2> QED
      BY <1>1, <2>1, <2>3, <2>4
  <1>7. CASE ListAuto(w)
    <2> DEFINE held == [j \in Items |-> IF j \in auto /\ claim[j] \in p.active THEN claim[j] ELSE None]
               k == [p EXCEPT !.step = "moving", !.held = held]
    <2>1. /\ worker' = [worker EXCEPT ![w] = k] /\ UNCHANGED <<claim, pinned, opening>>
          /\ auto' \subseteq auto
      BY <1>0, <1>7 DEF ListAuto, desk
    <2>2. k.held = held /\ k.move = p.move /\ k.step = "moving"
      BY <1>0 DEF PollState
    <2>3. held[i] # None => i \in auto
      OBVIOUS
    <2> HIDE DEF held
    <2>4. AtWork(k, i) => AtWork(p, i) \/ i \in auto
      BY <2>2, <2>3 DEF AtWork
    <2> QED
      BY <1>1, <2>1, <2>4
  <1>8. CASE CheckDonor(w)
    <2>1. Kept
      BY <1>8 DEF CheckDonor, desk
    <2>2. PICK m \in Best(p) :
            worker' = IF claim[m.item] = m.from
                      THEN [worker EXCEPT ![w].step = "writing", ![w].move = m]
                      ELSE [worker EXCEPT ![w].tried = @ \union {m}]
      BY <1>8 DEF CheckDonor
    <2>3. m.item \in Items /\ p.held[m.item] # None
      <3>1. m \in [item : Items, from : p.active, to : p.active] /\ p.held[m.item] = m.from
        BY DEF Best, Candidates
      <3>2. p.active \subseteq Reviewers
        BY <1>0 DEF PollState
      <3> QED
        BY <3>1, <3>2, AllocationAssumption
    <2>4. CASE claim[m.item] = m.from
      <3> DEFINE k == [p EXCEPT !.step = "writing", !.move = m]
      <3>1. worker' = [worker EXCEPT ![w] = k]
        BY <1>0, <2>2, <2>4
      <3>2. k.held = p.held /\ k.move = m /\ k.step = "writing"
        BY <1>0 DEF PollState
      <3>3. AtWork(k, i) => AtWork(p, i)
        BY <2>3, <3>2 DEF AtWork
      <3> QED
        BY <1>1, <2>1, <3>1, <3>3
    <2>5. CASE claim[m.item] # m.from
      <3> DEFINE k == [p EXCEPT !.tried = @ \union {m}]
      <3>1. worker' = [worker EXCEPT ![w] = k]
        BY <1>0, <2>2, <2>5
      <3>2. k.held = p.held /\ k.move = p.move /\ k.step = p.step /\ k.item = p.item
        BY <1>0 DEF PollState
      <3>3. AtWork(k, i) => AtWork(p, i)
        BY <3>2 DEF AtWork
      <3> QED
        BY <1>1, <2>1, <3>1, <3>3
    <2> QED
      BY <2>4, <2>5
  <1>9. CASE Transfer(w)
    <2> DEFINE m == p.move
    <2>1. CASE claim[m.item] # None
      <3>1. /\ worker' = [worker EXCEPT ![w] = Moved(p)] /\ UNCHANGED <<auto, pinned, opening>>
            /\ claim' = [claim EXCEPT ![m.item] = m.to]
        BY <1>0, <1>9, <2>1 DEF Transfer, desk
      <3>2. /\ Moved(p).step = "moving" /\ Moved(p).move = NoMove
            /\ Moved(p).held = [p.held EXCEPT ![m.item] = None]
        BY <1>0 DEF Moved, PollState
      <3>3. AtWork(Moved(p), i) => AtWork(p, i)
        <4>1. p.held \in [Items -> MaybeReviewer]
          BY <1>0 DEF PollState
        <4>2. Moved(p).held[i] # None => p.held[i] # None
          BY <3>2, <4>1
        <4> QED
          BY <3>2, <4>2, AllocationAssumption DEF AtWork, NoMove
      <3>4. claim'[i] # claim[i] => AtWork(p, i)
        BY <1>0, <3>1 DEF AtWork
      <3> QED
        BY <1>1, <3>1, <3>3, <3>4
    <2>2. CASE claim[m.item] = None
      <3> DEFINE k == [p EXCEPT !.step = "moving", !.move = NoMove, !.tried = @ \union {m}]
      <3>1. Kept /\ worker' = [worker EXCEPT ![w] = k]
        BY <1>0, <1>9, <2>2 DEF Transfer, desk
      <3>2. k.step = "moving" /\ k.move = NoMove /\ k.held = p.held
        BY <1>0 DEF PollState
      <3>3. AtWork(k, i) => AtWork(p, i)
        BY <3>2, AllocationAssumption DEF AtWork, NoMove
      <3> QED
        BY <1>1, <3>1, <3>3
    <2> QED
      BY <2>1, <2>2
  <1> QED
    BY <1>2, <1>3, <1>4, <1>5, <1>6, <1>7, <1>8, <1>9 DEF Assigns, Rebalances

LEMMA PollsLeaveOpened ==
  ASSUME IInv, OpenedInv, Apart, NEW w \in Workers, Assigns(w) \/ Rebalances(w) \/ PollFails(w)
  PROVE  OpenedInv'
  <1> SUFFICES ASSUME NEW i \in Items
               PROVE  /\ pinned'[i] # None => claim'[i] = pinned'[i] /\ i \notin auto' /\ ~InWork(i)'
                      /\ \A r \in Reviewers : opening'[r].item = i /\ opening'[r].step = "remove" => i \notin auto'
    BY DEF OpenedInv
  <1>1. /\ pinned' = pinned /\ opening' = opening
        /\ \A v \in Workers : v # w => worker'[v] = worker[v]
        /\ AtWork(worker'[w], i) => AtWork(worker[w], i) \/ claim[i] = None \/ i \in auto
        /\ claim'[i] # claim[i] => AtWork(worker[w], i)
        /\ i \in auto' => i \in auto \/ AtWork(worker[w], i)
    BY PollTouches
  <1>2. ASSUME pinned'[i] # None PROVE claim'[i] = pinned'[i] /\ i \notin auto' /\ ~InWork(i)'
    <2>1. claim[i] = pinned[i] /\ claim[i] # None /\ i \notin auto /\ \A v \in Workers : ~AtWork(worker[v], i)
      BY <1>1, <1>2 DEF OpenedInv, InWork
    <2>2. \A v \in Workers : ~AtWork(worker'[v], i)
      BY <1>1, <2>1
    <2> QED
      BY <1>1, <2>1, <2>2 DEF InWork
  <1>3. ASSUME NEW r \in Reviewers, opening'[r].item = i, opening'[r].step = "remove" PROVE i \notin auto'
    <2>1. opening[r] # NoRequest /\ i \notin auto
      BY <1>1, <1>3 DEF OpenedInv, NoRequest
    <2>2. ~AtWork(worker[w], i)
      BY <1>1, <1>3, <2>1 DEF Apart, InWork
    <2> QED
      BY <1>1, <2>1, <2>2
  <1> QED
    BY <1>2, <1>3

LEMMA StaffLeavesOpened ==
  ASSUME IInv, OpenedInv, Apart, GivenFree,
         \/ Staff
         \/ \E j \in Items : Defer(j) \/ DeferFails(j) \/ Lapse(j)
         \/ UnitsLapse \/ \E r \in Reviewers : WriteUnits(r)
  PROVE  OpenedInv'
  <1>1. worker' = worker
    BY DEF Staff, UnmarkAuto, RemovePending, Claim, Decide, FileDecision, MakerDecided, Unclaim, ForceAssign, Asks,
           Defer, DeferFails, Lapse, UnitsLapse, WriteUnits, Rest
  <1>2. \A i \in Items : InWork(i)' = InWork(i)
    BY <1>1 DEF InWork
  <1>t. /\ claim \in [Items -> MaybeReviewer] /\ pinned \in [Items -> MaybeReviewer]
        /\ opening \in [Reviewers -> [item : Items, step : {"unmark", "remove", "file"}] \union {NoRequest}]
    BY DEF IInv, TypeOK
  <1> HIDE DEF InWork
  <1>3. ASSUME NEW r \in Reviewers, NEW j \in Items, Claim(r, j) \/ Decide(r, j) PROVE OpenedInv'
    <2>1. UNCHANGED <<auto, pinned>> /\ claim' = [claim EXCEPT ![j] = r] /\ claim[j] \in {None, r}
      BY <1>3 DEF Claim, Decide
    <2>2. PICK s \in {"unmark", "file"} : opening' = [opening EXCEPT ![r] = [item |-> j, step |-> s]]
      BY <1>3 DEF Claim, Decide
    <2>3. opening'[r].step # "remove" /\ \A q \in Reviewers : q # r => opening'[q] = opening[q]
      BY <1>t, <2>2
    <2>4. \A i \in Items : pinned[i] # None => claim'[i] = claim[i]
      BY <1>t, <2>1 DEF OpenedInv
    <2> QED
      BY <1>2, <2>1, <2>3, <2>4 DEF OpenedInv
  <1>4. ASSUME NEW r \in Reviewers, UnmarkAuto(r) PROVE OpenedInv'
    <2>1. /\ UNCHANGED <<claim, pinned>> /\ auto' = auto \ {opening[r].item}
          /\ opening' = [opening EXCEPT ![r].step = "remove"]
      BY <1>4 DEF UnmarkAuto
    <2>2. /\ \A q \in Reviewers : q # r => opening'[q] = opening[q]
          /\ opening'[r].item = opening[r].item
      <3>1. opening[r] \in [item : Items, step : {"unmark", "remove", "file"}]
        BY <1>4, <1>t DEF UnmarkAuto, NoRequest
      <3> QED
        BY <1>t, <2>1, <3>1
    <2> QED
      BY <1>2, <2>1, <2>2 DEF OpenedInv
  <1>5. ASSUME NEW r \in Reviewers, RemovePending(r) PROVE OpenedInv'
    <2> DEFINE j == opening[r].item
    <2>1. /\ UNCHANGED <<claim, auto>> /\ opening' = [opening EXCEPT ![r] = NoRequest]
          /\ opening[r].step = "remove"
          /\ pinned' = IF claim[j] = r THEN [pinned EXCEPT ![j] = r] ELSE pinned
      BY <1>5 DEF RemovePending
    <2>2. opening[r] # NoRequest /\ j \in Items
      <3>1. opening[r] # NoRequest
        BY <2>1 DEF NoRequest
      <3> QED
        BY <1>t, <3>1
    <2>3. j \notin auto /\ ~InWork(j)
      BY <2>1, <2>2 DEF OpenedInv, Apart
    <2>4. \A q \in Reviewers : opening'[q] \in {opening[q], NoRequest}
      BY <1>t, <2>1
    <2>5. \A i \in Items : pinned'[i] # pinned[i] => i = j /\ pinned'[i] = claim[i]
      BY <1>t, <2>1, <2>2
    <2> QED
      BY <1>2, <2>1, <2>3, <2>4, <2>5 DEF OpenedInv, NoRequest
  <1>6. ASSUME NEW j \in Items, Free(j), auto' \subseteq auto,
               \A q \in Reviewers : opening'[q] \in {opening[q], NoRequest}
        PROVE  OpenedInv'
    <2>1. claim' = [claim EXCEPT ![j] = None] /\ pinned' = [pinned EXCEPT ![j] = None]
      BY <1>6 DEF Free
    <2>2. pinned'[j] = None /\ \A i \in Items : i # j => pinned'[i] = pinned[i] /\ claim'[i] = claim[i]
      BY <1>t, <2>1
    <2> QED
      BY <1>2, <1>6, <2>1, <2>2 DEF OpenedInv, NoRequest
  <1>7. ASSUME NEW r \in Reviewers, NEW j \in Items, ForceAssign(r, j) PROVE OpenedInv'
    <2>1. /\ opening' = opening /\ claim' = [claim EXCEPT ![j] = r]
          /\ pinned' = [pinned EXCEPT ![j] = r] /\ auto' = auto \ {j}
      BY <1>7 DEF ForceAssign
    <2>2. /\ pinned'[j] = r /\ claim'[j] = r
          /\ \A i \in Items : i # j => pinned'[i] = pinned[i] /\ claim'[i] = claim[i]
      BY <1>t, <2>1
    <2>3. ~InWork(j)
      <3>1. r # None
        BY AllocationAssumption
      <3>2. CASE pinned[j] = r
        BY <3>1, <3>2 DEF OpenedInv
      <3>3. CASE pinned[j] # r
        BY <2>2, <3>1, <3>3 DEF GivenFree
      <3> QED
        BY <3>2, <3>3
    <2> QED
      BY <1>2, <2>1, <2>2, <2>3 DEF OpenedInv
  <1>8. ASSUME UNCHANGED <<claim, pinned>>, auto' \subseteq auto,
               \A q \in Reviewers : opening'[q] \in {opening[q], NoRequest}
        PROVE  OpenedInv'
    BY <1>2, <1>8 DEF OpenedInv, NoRequest
  <1>9. CASE \/ \E j \in Items : Defer(j) \/ DeferFails(j)
             \/ UnitsLapse \/ \E r \in Reviewers : WriteUnits(r)
    <2>1. UNCHANGED <<claim, auto, pinned, opening>>
      BY <1>9 DEF Defer, DeferFails, UnitsLapse, WriteUnits, Rest
    <2> QED
      BY <1>8, <2>1
  <1>10. ASSUME NEW j \in Items, Lapse(j) PROVE OpenedInv'
    BY <1>6, <1>10 DEF Lapse
  <1>11. ASSUME NEW r \in Reviewers, NEW j \in Items, Unclaim(r, j) PROVE OpenedInv'
    BY <1>6, <1>11 DEF Unclaim
  <1>12. ASSUME NEW r \in Reviewers, FileDecision(r) PROVE OpenedInv'
    <2>1. opening' = [opening EXCEPT ![r] = NoRequest] /\ auto' \subseteq auto
      BY <1>12 DEF FileDecision
    <2>2. \A q \in Reviewers : opening'[q] \in {opening[q], NoRequest}
      BY <1>t, <2>1
    <2>3. opening[r].item \in Items
      BY <1>12, <1>t DEF FileDecision, NoRequest
    <2>4. Free(opening[r].item) \/ UNCHANGED <<claim, pinned>>
      BY <1>12 DEF FileDecision
    <2> QED
      BY <1>6, <1>8, <2>1, <2>2, <2>3, <2>4
  <1>13. ASSUME NEW r \in Reviewers, MakerDecided(r) PROVE OpenedInv'
    <2>1. /\ opening' = [opening EXCEPT ![r] = NoRequest] /\ UNCHANGED <<claim, pinned, auto>>
      BY <1>13 DEF MakerDecided
    <2>2. \A q \in Reviewers : opening'[q] \in {opening[q], NoRequest}
      BY <1>t, <2>1
    <2> QED
      BY <1>8, <2>1, <2>2
  <1> QED
    BY <1>3, <1>4, <1>5, <1>7, <1>9, <1>10, <1>11, <1>12, <1>13 DEF Staff

LEMMA OwnPollOnly ==
  ASSUME worker \in [Workers -> PollState], NEW w \in Workers, Assigns(w) \/ Rebalances(w) \/ PollFails(w)
  PROVE  \A v \in Workers : v # w => worker'[v] = worker[v]
  <1>1. CASE StartPoll(w) \/ Pop(w) \/ CheckHolder(w) \/ Take(w)
    BY <1>1 DEF StartPoll, Pop, CheckHolder, Take
  <1>2. CASE TakeFails(w) \/ NobodyEligible(w) \/ MarkAuto(w) \/ Retry(w) \/ Finish(w)
    BY <1>2 DEF TakeFails, NobodyEligible, MarkAuto, Retry, Finish
  <1>3. CASE (\E i \in Items : AssignNow(w, i)) \/ StartRebalance(w) \/ ListAuto(w) \/ CheckDonor(w)
    BY <1>3 DEF AssignNow, StartRebalance, ListAuto, CheckDonor
  <1>4. CASE Transfer(w) \/ EndRebalance(w) \/ PollFails(w)
    BY <1>4 DEF Transfer, EndRebalance, PollFails
  <1> QED
    BY <1>1, <1>2, <1>3, <1>4 DEF Assigns, Rebalances

LEMMA OnlyDonorWrites ==
  ASSUME worker \in [Workers -> PollState], NEW w \in Workers, Assigns(w) \/ Rebalances(w) \/ PollFails(w),
         worker[w].step = "moving", worker'[w].step = "writing"
  PROVE  CheckDonor(w)
  <1>t. worker[w] \in PollState
    OBVIOUS
  <1>1. CASE Transfer(w)
    <2>1. worker[w].step = "writing"
      BY <1>1 DEF Transfer
    <2> QED
      BY <2>1
  <1>2. CASE PollFails(w)
    <2>1. worker'[w].step \in {"idle", "assigning"}
      BY <1>2, <1>t DEF PollFails, Idle
    <2> QED
      BY <2>1
  <1>3. CASE EndRebalance(w)
    <2>1. worker'[w].step = "idle"
      BY <1>3, <1>t DEF EndRebalance, Idle
    <2> QED
      BY <2>1
  <1>4. CASE Assigns(w)
    <2>1. ~(StartPoll(w) \/ \E i \in Items : AssignNow(w, i))
      BY DEF StartPoll, AssignNow
    <2> QED
      BY <1>4, <2>1 DEF Assigns, Pop, CheckHolder, Take, TakeFails, NobodyEligible, MarkAuto, Retry, Finish
  <1>5. ~StartRebalance(w) /\ ~ListAuto(w)
    BY DEF StartRebalance, ListAuto
  <1> QED
    BY <1>1, <1>2, <1>3, <1>4, <1>5 DEF Rebalances

\* "Never moving an item the reviewer has opened", nor one an admin has given them
\* (rebalance, transfer): true as long as nobody opens or gives away an item that a poll
\* is just assigning, or that stands on the list a rebalancing pass read; so the age of
\* that list and the late mark_auto are the only ways in which it fails.
THEOREM OpenedStaysWhenApart ==
  Spec /\ []Apart /\ [][GivenFree]_vars => OpenedStays
  <1>1. Init => OpenedInv
    BY OpenedInit
  <1>2. IInv /\ OpenedInv /\ Apart /\ [Next]_vars /\ [GivenFree]_vars => OpenedInv'
    <2>1. CASE UNCHANGED vars
      <3>1. UNCHANGED vars => (OpenedInv => OpenedInv')
        BY DEF vars, OpenedInv, InWork
      <3> QED
        BY <2>1, <3>1
    <2>2. CASE ~UNCHANGED vars
      BY <2>2, PollsLeaveOpened, StaffLeavesOpened DEF Next
    <2> QED
      BY <2>1, <2>2
  <1>3. ASSUME IInv, OpenedInv, [Next]_vars
        PROVE  [\A w \in Workers : worker[w].step = "moving" /\ worker'[w].step = "writing" =>
                  LET m == worker'[w].move IN pinned[m.item] # m.from]_vars
    <2> SUFFICES ASSUME Next, NEW w \in Workers, worker[w].step = "moving", worker'[w].step = "writing"
                 PROVE  pinned[worker'[w].move.item] # worker'[w].move.from
      BY <1>3
    <2> USE <1>3
    <2>t. worker \in [Workers -> PollState]
      BY DEF IInv, TypeOK
    <2>1. CheckDonor(w)
      <3>1. worker[w] # worker'[w]
        OBVIOUS
      <3>2. /\ ~(\E i \in Items : Defer(i) \/ DeferFails(i) \/ Lapse(i)) /\ ~Staff
            /\ ~UnitsLapse /\ ~\E r \in Reviewers : WriteUnits(r)
        BY <3>1 DEF Defer, DeferFails, Lapse, UnitsLapse, WriteUnits, Rest, Staff, UnmarkAuto, RemovePending,
                    Claim, Decide, FileDecision, MakerDecided, Unclaim, ForceAssign, Asks
      <3>3. PICK v \in Workers : Assigns(v) \/ Rebalances(v) \/ PollFails(v)
        BY <3>2 DEF Next
      <3>4. v = w
        BY <2>t, <3>1, <3>3, OwnPollOnly
      <3> QED
        BY <2>t, <3>3, <3>4, OnlyDonorWrites
    <2>2. PICK m \in Best(worker[w]) :
            worker' = IF claim[m.item] = m.from
                      THEN [worker EXCEPT ![w].step = "writing", ![w].move = m]
                      ELSE [worker EXCEPT ![w].tried = @ \union {m}]
      BY <2>1 DEF CheckDonor
    <2>3. worker'[w].move = m
      BY <2>t, <2>2 DEF PollState
    <2>4. /\ m \in [item : Items, from : worker[w].active, to : worker[w].active]
          /\ worker[w].held[m.item] = m.from
      BY DEF Best, Candidates
    <2>5. m.item \in Items /\ m.from # None
      BY <2>t, <2>4, AllocationAssumption DEF PollState
    <2>6. InWork(m.item)
      BY <2>4, <2>5 DEF InWork, AtWork
    <2>7. pinned[m.item] = None
      BY <2>5, <2>6 DEF OpenedInv
    <2> QED
      BY <2>3, <2>5, <2>7
  <1> QED
    BY <1>1, <1>2, <1>3, AlwaysInv, PTL DEF Spec, OpenedStays
=============================================================================
