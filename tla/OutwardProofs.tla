--------------------------- MODULE OutwardProofs ---------------------------
(***************************************************************************)
(* What the outward maker-checker promises for any number of reviewers,    *)
(* requests and API processes: as long as the configuration can be read, a *)
(* decision comes into effect once and has two people behind it.           *)
(***************************************************************************)
EXTENDS OutwardStage, OutwardLots, FiniteSetTheorems, TLAPS

(***************************************************************************)
(* The inductive invariant.                                                *)
(***************************************************************************)
Filing  == {p \in Processes : At(p, "file")}
Settled == IF stage.status = "FINAL" THEN 1 ELSE 0

\* The row is blank or has a maker and what the maker decided.
RowInv ==
  /\ stage.status = "none" <=> stage = NoRow
  /\ stage.status # "none" => stage.maker \in Staff /\ stage.action \in Actions
  /\ filed.times = 0 => filed = Unfiled

\* Who is at work on the row: its future maker, a checker who is not the maker, or a
\* sweep that has the maker's decision.
MayCheck(p) ==
  /\ stage.status # "none" /\ request[p].who # stage.maker
  /\ request[p].who = System => request[p].action = stage.action

RequestInv ==
  \A p \in Processes :
    /\ ~At(p, "idle") => request[p].who \in Anyone /\ request[p].action \in Actions
    /\ At(p, "stage") => request[p].who \in Staff
    /\ At(p, "claim") \/ At(p, "final") => MayCheck(p)
    /\ At(p, "file") /\ trouble = 0 =>
         MayCheck(p) /\ stage.status = "FINAL" /\ request[p].who = stage.checker

\* Every decision that was put into effect, or is about to be, made the row final or
\* came of a read of the configuration that failed.
CountInv == filed.times + Cardinality(Filing) <= trouble + Settled

IInv == TypeOK /\ RowInv /\ RequestInv /\ CountInv /\ FiledByChecker

Requests == [step : Steps, who : Anyone \cup {None}, action : Actions \cup {None}]

LEMMA FilingIsFinite == IsFiniteSet(Filing) /\ Cardinality(Filing) \in Nat
  <1>1. Filing \subseteq Handlers \cup Timers
    BY DEF Filing, Processes
  <1>2. IsFiniteSet(Filing)
    BY <1>1, ProcessAssumption, FS_Subset
  <1> QED
    BY <1>2, FS_CardinalityType

\* How a step of one process changes the number of those about to file.
LEMMA FilingCount ==
  ASSUME request \in [Processes -> Requests], NEW p \in Processes, NEW r \in Requests,
         request' = [request EXCEPT ![p] = r]
  PROVE  /\ request' \in [Processes -> Requests]
         /\ request'[p] = r /\ \A q \in Processes : q # p => request'[q] = request[q]
         /\ Cardinality(Filing') = Cardinality(Filing)
              + (IF r.step = "file" THEN 1 ELSE 0) - (IF At(p, "file") THEN 1 ELSE 0)
  <1>1. request' \in [Processes -> Requests]
    OBVIOUS
  <1>2. request'[p] = r /\ \A q \in Processes : q # p => request'[q] = request[q]
    OBVIOUS
  <1>3. IsFiniteSet(Filing) /\ Cardinality(Filing) \in Nat
    BY FilingIsFinite
  <1>4. CASE r.step = "file" /\ ~At(p, "file")
    <2>1. Filing' = Filing \cup {p} /\ p \notin Filing
      BY <1>2, <1>4 DEF Filing, At
    <2>2. Cardinality(Filing') = Cardinality(Filing) + 1
      BY <1>3, <2>1, FS_AddElement
    <2> QED
      BY <1>1, <1>2, <1>3, <1>4, <2>2
  <1>5. CASE r.step # "file" /\ At(p, "file")
    <2>1. Filing' = Filing \ {p} /\ p \in Filing
      BY <1>2, <1>5 DEF Filing, At
    <2>2. Cardinality(Filing') = Cardinality(Filing) - 1
      BY <1>3, <2>1, FS_RemoveElement
    <2> QED
      BY <1>1, <1>2, <1>3, <1>5, <2>2
  <1>6. CASE r.step = "file" <=> At(p, "file")
    <2>1. Filing' = Filing
      BY <1>2, <1>6 DEF Filing, At
    <2>2. Cardinality(Filing') = Cardinality(Filing)
      BY <2>1
    <2> HIDE DEF Filing
    <2> QED
      BY <1>1, <1>2, <1>3, <1>6, <2>2
  <1> QED
    BY <1>4, <1>5, <1>6 DEF At

LEMMA InitInv == Init => IInv
  <1> SUFFICES ASSUME Init PROVE IInv
    OBVIOUS
  <1>1. TypeOK
    <2>1. 0 \in 0..(1 + MaxTrouble) /\ 0 \in 0..MaxTrouble /\ 0 \in 0..MaxFaults
      BY BoundsAssumption
    <2>2. request \in [Processes -> [step : Steps, who : Anyone \cup {None}, action : Actions \cup {None}]]
      BY DEF Init, Idle, Steps
    <2> QED
      BY <2>1, <2>2 DEF Init, TypeOK, NoRow, Unfiled
  <1>2. RowInv /\ RequestInv /\ FiledByChecker
    BY DEF Init, RowInv, RequestInv, FiledByChecker, NoRow, Unfiled, Idle, At
  <1>3. Filing = {}
    BY DEF Init, Filing, At, Idle
  <1>4. Cardinality(Filing) = 0 /\ filed.times = 0 /\ trouble = 0 /\ Settled = 0
    BY <1>3, FS_EmptySet DEF Init, Unfiled, Settled, NoRow
  <1>5. CountInv
    BY <1>4 DEF CountInv
  <1> QED
    BY <1>1, <1>2, <1>5 DEF IInv

(***************************************************************************)
(* Steps.                                                                  *)
(***************************************************************************)
\* A step that leaves the row and what was filed alone: one process goes from what it
\* does to r, which the row allows.
LEMMA MoveKeeps ==
  ASSUME IInv, NEW p \in Processes, NEW r \in Requests, request' = [request EXCEPT ![p] = r],
         UNCHANGED <<stage, filed>>,
         trouble' \in 0..MaxTrouble, trouble' = trouble \/ trouble' = trouble + 1,
         overdue' \in BOOLEAN, claim' \in Anyone \cup {None}, faults' \in 0..MaxFaults,
         r.step # "idle" => r.who \in Anyone /\ r.action \in Actions,
         r.step = "stage" => r.who \in Staff,
         r.step \in {"claim", "final"} =>
           /\ stage.status # "none" /\ r.who # stage.maker
           /\ r.who = System => r.action = stage.action,
         r.step = "file" => trouble' = trouble + 1
  PROVE  IInv'
  <1>1. request \in [Processes -> Requests] /\ trouble \in Nat /\ filed.times \in Nat
    BY BoundsAssumption DEF IInv, TypeOK, Requests
  <1>2. /\ request' \in [Processes -> Requests]
        /\ request'[p] = r /\ \A q \in Processes : q # p => request'[q] = request[q]
        /\ Cardinality(Filing') = Cardinality(Filing)
              + (IF r.step = "file" THEN 1 ELSE 0) - (IF At(p, "file") THEN 1 ELSE 0)
    BY <1>1, FilingCount
  <1>3. TypeOK'
    BY <1>2 DEF IInv, TypeOK, Requests
  <1>4. RowInv'
    BY DEF IInv, RowInv
  <1>5. RequestInv'
    <2>1. ASSUME NEW q \in Processes, q # p
          PROVE  /\ ~At(q, "idle")' => request'[q].who \in Anyone /\ request'[q].action \in Actions
                 /\ At(q, "stage")' => request'[q].who \in Staff
                 /\ (At(q, "claim") \/ At(q, "final"))' => MayCheck(q)'
                 /\ At(q, "file")' /\ trouble' = 0 =>
                      MayCheck(q)' /\ stage'.status = "FINAL" /\ request'[q].who = stage'.checker
      <3>1. request'[q] = request[q] /\ (trouble' = 0 => trouble = 0)
        BY <1>1, <1>2, <2>1
      <3> QED
        BY <3>1 DEF IInv, RequestInv, At, MayCheck
    <2>2. /\ ~At(p, "idle")' => request'[p].who \in Anyone /\ request'[p].action \in Actions
          /\ At(p, "stage")' => request'[p].who \in Staff
          /\ (At(p, "claim") \/ At(p, "final"))' => MayCheck(p)'
          /\ ~(At(p, "file")' /\ trouble' = 0)
      BY <1>1, <1>2 DEF At, MayCheck
    <2> QED
      BY <2>1, <2>2 DEF RequestInv
  <1>6. CountInv'
    <2>1. Settled' = Settled /\ Settled \in Nat /\ Cardinality(Filing) \in Nat
      BY FilingIsFinite DEF Settled
    <2>2. filed.times + Cardinality(Filing) <= trouble + Settled
      BY DEF IInv, CountInv
    <2>3. filed.times + Cardinality(Filing') <= trouble' + Settled'
      <3>1. CASE r.step = "file"
        BY <1>1, <1>2, <2>1, <2>2, <3>1
      <3>2. CASE r.step # "file"
        BY <1>1, <1>2, <2>1, <2>2, <3>2
      <3> QED
        BY <3>1, <3>2
    <2> QED
      BY <2>3 DEF CountInv
  <1>7. FiledByChecker'
    BY <1>1 DEF IInv, FiledByChecker
  <1> QED
    BY <1>3, <1>4, <1>5, <1>6, <1>7 DEF IInv

\* Time, and the claim in Redis, touch no request.
LEMMA TimeKeeps ==
  ASSUME IInv, Age \/ Lapse \/ UNCHANGED vars
  PROVE  IInv'
  <1>1. UNCHANGED <<stage, filed, request, trouble, faults>>
    BY DEF Age, Lapse, vars
  <1>2. overdue' \in BOOLEAN /\ claim' \in Anyone \cup {None}
    BY DEF Age, Lapse, vars, IInv, TypeOK
  <1>3. TypeOK'
    BY <1>1, <1>2 DEF IInv, TypeOK
  <1>4. Filing' = Filing /\ Settled' = Settled
    BY <1>1 DEF Filing, Settled, At
  <1>5. CountInv'
    <2> HIDE DEF Filing, Settled
    <2> QED
      BY <1>1, <1>4 DEF IInv, CountInv
  <1>6. RowInv' /\ RequestInv' /\ FiledByChecker'
    BY <1>1 DEF IInv, RowInv, RequestInv, FiledByChecker, At, MayCheck
  <1> QED
    BY <1>3, <1>5, <1>6 DEF IInv

LEMMA StartsKeep ==
  ASSUME IInv, NEW p \in Processes, NEW w \in Staff, NEW a \in Actions,
         BeginDecide(p, w, a) \/ BeginValidate(p, w, a) \/ BeginSweep(p)
  PROVE  IInv'
  <1> USE DEF Begin, Requests, Steps, Anyone
  <1>t. /\ trouble \in 0..MaxTrouble /\ faults \in 0..MaxFaults /\ overdue \in BOOLEAN
        /\ claim \in Anyone \cup {None}
    BY DEF IInv, TypeOK
  <1>1. CASE BeginDecide(p, w, a)
    <2>1. UNCHANGED <<stage, filed, overdue, faults>> /\ claim' \in Anyone \cup {None}
      BY <1>1 DEF BeginDecide
    <2>2. CASE request' = [request EXCEPT ![p] = [step |-> "stage", who |-> w, action |-> a]]
               /\ trouble' = trouble
      <3> DEFINE r == [step |-> "stage", who |-> w, action |-> a]
      <3>1. r \in Requests /\ r.step = "stage" /\ r.who = w /\ r.action = a
        OBVIOUS
      <3> HIDE DEF r
      <3> QED
        BY <1>t, <2>1, <2>2, <3>1, MoveKeeps DEF r
    <2>3. CASE request' = [request EXCEPT ![p] = [step |-> "file", who |-> w, action |-> a]]
               /\ ConfigFails
      <3> DEFINE r == [step |-> "file", who |-> w, action |-> a]
      <3>1. r \in Requests /\ r.step = "file" /\ r.who = w /\ r.action = a
        OBVIOUS
      <3>2. trouble' \in 0..MaxTrouble /\ trouble' = trouble + 1
        BY <1>t, <2>3, BoundsAssumption DEF ConfigFails
      <3> HIDE DEF r
      <3> QED
        BY <1>t, <2>1, <2>3, <3>1, <3>2, MoveKeeps DEF r
    <2> QED
      BY <1>1, <2>2, <2>3 DEF BeginDecide
  <1>2. CASE BeginValidate(p, w, a)
    <2> DEFINE r == [step |-> "claim", who |-> w, action |-> a]
    <2>1. r \in Requests /\ r.step = "claim" /\ r.who = w /\ r.action = a
      OBVIOUS
    <2>2. stage.status # "none" /\ w # stage.maker /\ w # System
      BY <1>2, StaffAssumption DEF BeginValidate
    <2>3. request' = [request EXCEPT ![p] = r] /\ UNCHANGED <<stage, filed, overdue, claim, trouble, faults>>
      BY <1>2 DEF BeginValidate
    <2> HIDE DEF r
    <2> QED
      BY <1>t, <2>1, <2>2, <2>3, MoveKeeps
  <1>3. CASE BeginSweep(p)
    <2> DEFINE r == [step |-> "final", who |-> System, action |-> stage.action]
    <2>1. stage.status # "none" /\ stage.maker # System /\ stage.action \in Actions
      BY <1>3, StaffAssumption DEF BeginSweep, IInv, RowInv
    <2>2. r \in Requests /\ r.step = "final" /\ r.who = System /\ r.action = stage.action
      BY <2>1
    <2>3. request' = [request EXCEPT ![p] = r] /\ UNCHANGED <<stage, filed, overdue, claim, trouble, faults>>
      BY <1>3 DEF BeginSweep
    <2> HIDE DEF r
    <2> QED
      BY <1>t, <2>1, <2>2, <2>3, MoveKeeps
  <1> QED
    BY <1>1, <1>2, <1>3

\* What a process is at, as a value of its own.
LEMMA NextSteps ==
  ASSUME IInv, NEW p \in Processes, NEW step \in Steps
  PROVE  /\ request \in [Processes -> Requests] /\ Idle \in Requests /\ Idle.step = "idle"
         /\ [request[p] EXCEPT !.step = step] \in Requests
         /\ [request[p] EXCEPT !.step = step].step = step
         /\ [request[p] EXCEPT !.step = step].who = request[p].who
         /\ [request[p] EXCEPT !.step = step].action = request[p].action
         /\ Then(p, step) => request' = [request EXCEPT ![p] = [request[p] EXCEPT !.step = step]]
  BY DEF IInv, TypeOK, Requests, Idle, Steps, Then

LEMMA QuietStepsKeep ==
  ASSUME IInv, NEW p \in Processes, Claim(p) \/ Release(p) \/ Crash(p)
  PROVE  IInv'
  <1>t. /\ trouble \in 0..MaxTrouble /\ faults \in 0..MaxFaults /\ overdue \in BOOLEAN
        /\ claim \in Anyone \cup {None} /\ request \in [Processes -> Requests]
    BY DEF IInv, TypeOK, Requests
  <1>i. Idle \in Requests /\ Idle.step = "idle"
    BY DEF Idle, Requests, Steps
  <1>1. CASE Claim(p)
    <2>1. UNCHANGED <<stage, overdue, filed, trouble, faults>> /\ At(p, "claim")
      BY <1>1 DEF Claim
    <2>2. CASE claim' = request[p].who /\ Then(p, "final")
      <3> DEFINE r == [request[p] EXCEPT !.step = "final"]
      <3>1. r \in Requests /\ r.step = "final" /\ r.who = request[p].who /\ r.action = request[p].action
            /\ request' = [request EXCEPT ![p] = r]
        BY <2>2, NextSteps DEF Steps
      <3>2. /\ request[p].who \in Anyone /\ request[p].action \in Actions
            /\ stage.status # "none" /\ request[p].who # stage.maker
            /\ request[p].who = System => request[p].action = stage.action
        BY <2>1 DEF IInv, RequestInv, MayCheck, At
      <3> HIDE DEF r
      <3> QED
        BY <1>t, <2>1, <2>2, <3>1, <3>2, MoveKeeps
    <2>3. CASE Ends(p) /\ UNCHANGED claim
      BY <1>t, <1>i, <2>1, <2>3, MoveKeeps DEF Ends
    <2> QED
      BY <1>1, <2>2, <2>3 DEF Claim
  <1>2. CASE Release(p)
    <2>1. UNCHANGED <<stage, overdue, filed, trouble, faults>> /\ request' = [request EXCEPT ![p] = Idle]
      BY <1>2 DEF Release, Ends
    <2>2. claim' \in Anyone \cup {None}
      BY <1>t, <1>2 DEF Release
    <2> QED
      BY <1>t, <1>i, <2>1, <2>2, MoveKeeps
  <1>3. CASE Crash(p)
    <2>1. UNCHANGED <<stage, overdue, claim, filed, trouble>> /\ request' = [request EXCEPT ![p] = Idle]
      BY <1>3 DEF Crash, Ends
    <2>2. faults' \in 0..MaxFaults
      BY <1>t, <1>3, BoundsAssumption DEF Crash
    <2> QED
      BY <1>t, <1>i, <2>1, <2>2, MoveKeeps
  <1> QED
    BY <1>1, <1>2, <1>3

\* Before there is a row nobody checks and nothing is filed unless the configuration failed.
LEMMA StageKeeps ==
  ASSUME IInv, NEW p \in Processes, Stage(p)
  PROVE  IInv'
  <1>1. /\ request \in [Processes -> Requests] /\ At(p, "stage")
        /\ UNCHANGED <<overdue, claim, filed, trouble, faults>>
        /\ trouble \in 0..MaxTrouble /\ faults \in 0..MaxFaults /\ overdue \in BOOLEAN
        /\ claim \in Anyone \cup {None}
    BY DEF Stage, IInv, TypeOK, Requests
  <1>2. CASE stage = NoRow
    <2> DEFINE r == [request[p] EXCEPT !.step = "release"]
    <2>1. /\ r \in Requests /\ r.step = "release" /\ r.who = request[p].who
          /\ r.action = request[p].action /\ request' = [request EXCEPT ![p] = r]
      BY <1>2, NextSteps DEF Steps, Stage
    <2> HIDE DEF r
    <2>2. stage' = [status |-> "MAKER_DECIDED", maker |-> request[p].who,
                    action |-> request[p].action, checker |-> None]
      BY <1>2 DEF Stage
    <2>3. request[p].who \in Staff /\ request[p].action \in Actions
      BY <1>1 DEF IInv, RequestInv, At
    <2>4. /\ request' \in [Processes -> Requests] /\ request'[p] = r
          /\ \A q \in Processes : q # p => request'[q] = request[q]
          /\ Cardinality(Filing') = Cardinality(Filing)
      <3>1. ~At(p, "file")
        BY <1>1 DEF At
      <3>2. Cardinality(Filing) \in Nat
        BY FilingIsFinite
      <3>3. /\ request' \in [Processes -> Requests] /\ request'[p] = r
            /\ \A q \in Processes : q # p => request'[q] = request[q]
            /\ Cardinality(Filing') = Cardinality(Filing)
                 + (IF r.step = "file" THEN 1 ELSE 0) - (IF At(p, "file") THEN 1 ELSE 0)
        BY <1>1, <2>1, FilingCount
      <3>4. r.step # "file"
        BY <2>1
      <3> HIDE DEF Filing
      <3>5. Cardinality(Filing') = Cardinality(Filing)
        BY <3>1, <3>2, <3>3, <3>4
      <3> QED
        BY <3>3, <3>5
    <2>5. TypeOK'
      BY <1>1, <2>2, <2>3, <2>4 DEF IInv, TypeOK, Requests, Anyone
    <2>6. RowInv'
      BY <1>1, <2>2, <2>3 DEF IInv, RowInv, NoRow
    <2>7. RequestInv'
      <3>1. ASSUME NEW q \in Processes
            PROVE  /\ ~At(q, "claim") /\ ~At(q, "final") /\ (trouble = 0 => ~At(q, "file"))
        BY <1>2 DEF IInv, RequestInv, MayCheck, NoRow
      <3>2. ASSUME NEW q \in Processes
            PROVE  /\ ~At(q, "idle")' => request'[q].who \in Anyone /\ request'[q].action \in Actions
                   /\ At(q, "stage")' => request'[q].who \in Staff
                   /\ ~At(q, "claim")' /\ ~At(q, "final")' /\ (trouble' = 0 => ~At(q, "file")')
        <4>1. CASE q = p
          BY <2>1, <2>3, <2>4, <4>1 DEF At, Anyone
        <4>2. CASE q # p
          BY <1>1, <2>4, <3>1, <4>2 DEF At, IInv, RequestInv
        <4> QED
          BY <4>1, <4>2
      <3> QED
        BY <3>2 DEF RequestInv
    <2>8. CountInv'
      <3>1. Settled' = 0 /\ Settled = 0
        BY <1>2, <2>2 DEF Settled, NoRow
      <3> HIDE DEF Filing, Settled
      <3> QED
        BY <1>1, <2>4, <3>1 DEF IInv, CountInv
    <2>9. FiledByChecker'
      BY <1>1, <1>2 DEF IInv, FiledByChecker, NoRow
    <2> QED
      BY <2>5, <2>6, <2>7, <2>8, <2>9 DEF IInv
  <1>3. CASE stage # NoRow
    <2>1. request' = [request EXCEPT ![p] = Idle] /\ UNCHANGED stage
      BY <1>3 DEF Stage, Ends
    <2>2. Idle \in Requests /\ Idle.step = "idle"
      BY DEF Idle, Requests, Steps
    <2> QED
      BY <1>1, <2>1, <2>2, MoveKeeps
  <1> QED
    BY <1>2, <1>3

\* The one who makes the row final is the only one who may file it, and files it as
\* somebody who is not its maker.
LEMMA FinalKeeps ==
  ASSUME IInv, NEW p \in Processes, Final(p)
  PROVE  IInv'
  <1>1. /\ request \in [Processes -> Requests] /\ At(p, "final")
        /\ UNCHANGED <<overdue, claim, filed, trouble, faults>>
        /\ trouble \in 0..MaxTrouble /\ faults \in 0..MaxFaults /\ overdue \in BOOLEAN
        /\ claim \in Anyone \cup {None}
    BY DEF Final, IInv, TypeOK, Requests
  <1>2. CASE stage.status = "MAKER_DECIDED"
    <2> DEFINE r == [request[p] EXCEPT !.step = "file"]
    <2>1. /\ r \in Requests /\ r.step = "file" /\ r.who = request[p].who
          /\ r.action = request[p].action /\ request' = [request EXCEPT ![p] = r]
      BY <1>2, NextSteps DEF Steps, Final
    <2> HIDE DEF r
    <2>2. /\ stage'.status = "FINAL" /\ stage'.checker = request[p].who
          /\ stage'.maker = stage.maker /\ stage'.action = stage.action
          /\ stage' \in [status : {"none", "MAKER_DECIDED", "FINAL"}, maker : Staff \cup {None},
                         action : Actions \cup {None}, checker : Anyone \cup {None}]
      <3>1. stage \in [status : {"none", "MAKER_DECIDED", "FINAL"}, maker : Staff \cup {None},
                       action : Actions \cup {None}, checker : Anyone \cup {None}]
        BY DEF IInv, TypeOK
      <3>2. request[p].who \in Anyone \cup {None}
        BY <1>1 DEF Requests
      <3>3. stage' = [stage EXCEPT !.status = "FINAL", !.checker = request[p].who]
        BY <1>2 DEF Final
      <3> QED
        BY <3>1, <3>2, <3>3
    <2>3. /\ request[p].who \in Anyone /\ request[p].action \in Actions
          /\ request[p].who # stage.maker
          /\ request[p].who = System => request[p].action = stage.action
      BY <1>1 DEF IInv, RequestInv, MayCheck, At
    <2>4. /\ request' \in [Processes -> Requests] /\ request'[p] = r
          /\ \A q \in Processes : q # p => request'[q] = request[q]
          /\ Cardinality(Filing') = Cardinality(Filing) + 1
      <3>1. ~At(p, "file")
        BY <1>1 DEF At
      <3>2. Cardinality(Filing) \in Nat
        BY FilingIsFinite
      <3>3. /\ request' \in [Processes -> Requests] /\ request'[p] = r
            /\ \A q \in Processes : q # p => request'[q] = request[q]
            /\ Cardinality(Filing') = Cardinality(Filing)
                 + (IF r.step = "file" THEN 1 ELSE 0) - (IF At(p, "file") THEN 1 ELSE 0)
        BY <1>1, <2>1, FilingCount
      <3>4. r.step = "file"
        BY <2>1
      <3> HIDE DEF Filing
      <3>5. Cardinality(Filing') = Cardinality(Filing) + 1
        BY <3>1, <3>2, <3>3, <3>4
      <3> QED
        BY <3>3, <3>5
    <2>5. TypeOK'
      BY <1>1, <2>2, <2>4 DEF IInv, TypeOK, Requests
    <2>6. RowInv'
      BY <1>1, <1>2, <2>2 DEF IInv, RowInv, NoRow
    <2>7. RequestInv'
      <3>1. ASSUME NEW q \in Processes, trouble = 0 PROVE ~At(q, "file")
        BY <1>2, <3>1 DEF IInv, RequestInv
      <3>2. ASSUME NEW q \in Processes
            PROVE  /\ ~At(q, "idle")' => request'[q].who \in Anyone /\ request'[q].action \in Actions
                   /\ At(q, "stage")' => request'[q].who \in Staff
                   /\ (At(q, "claim") \/ At(q, "final"))' => MayCheck(q)'
                   /\ At(q, "file")' /\ trouble' = 0 =>
                        MayCheck(q)' /\ stage'.status = "FINAL" /\ request'[q].who = stage'.checker
        <4>1. CASE q = p
          BY <2>1, <2>2, <2>3, <2>4, <4>1 DEF At, MayCheck
        <4>2. CASE q # p
          <5>1. request'[q] = request[q]
            BY <2>4, <4>2
          <5> QED
            BY <1>1, <2>2, <3>1, <5>1 DEF At, MayCheck, IInv, RequestInv
        <4> QED
          BY <4>1, <4>2
      <3> QED
        BY <3>2 DEF RequestInv
    <2>8. CountInv'
      <3>1. Settled' = 1 /\ Settled = 0
        BY <1>2, <2>2 DEF Settled
      <3>2. Cardinality(Filing) \in Nat /\ filed.times \in Nat /\ trouble \in Nat
        BY FilingIsFinite, BoundsAssumption DEF IInv, TypeOK
      <3>3. filed.times + Cardinality(Filing) <= trouble + 0
        BY <3>1 DEF IInv, CountInv
      <3> HIDE DEF Filing, Settled
      <3>4. filed.times + Cardinality(Filing') <= trouble + 1
        BY <2>4, <3>2, <3>3
      <3> QED
        BY <1>1, <3>1, <3>4 DEF CountInv
    <2>9. FiledByChecker'
      BY <1>1, <1>2 DEF IInv, FiledByChecker
    <2> QED
      BY <2>5, <2>6, <2>7, <2>8, <2>9 DEF IInv
  <1>3. CASE stage.status # "MAKER_DECIDED"
    <2>1. request' = [request EXCEPT ![p] = Idle] /\ UNCHANGED stage
      BY <1>3 DEF Final, Ends
    <2>2. Idle \in Requests /\ Idle.step = "idle"
      BY DEF Idle, Requests, Steps
    <2> QED
      BY <1>1, <2>1, <2>2, MoveKeeps
  <1> QED
    BY <1>2, <1>3

\* While the configuration could be read, the first to file finds nothing filed.
LEMMA FirstToFile ==
  ASSUME IInv, NEW p \in Processes, At(p, "file"), trouble = 0
  PROVE  filed = Unfiled
  <1>1. Cardinality(Filing) \in Nat /\ Cardinality(Filing) >= 1
    <2>1. p \in Filing
      BY DEF Filing
    <2>2. IsFiniteSet(Filing) /\ Cardinality(Filing) \in Nat
      BY FilingIsFinite
    <2>3. Cardinality(Filing) # 0
      BY <2>1, <2>2, FS_EmptySet
    <2> HIDE DEF Filing
    <2> QED
      BY <2>2, <2>3
  <1>2. filed.times \in Nat /\ Settled \in {0, 1}
    BY BoundsAssumption DEF IInv, TypeOK, Settled
  <1>3. filed.times + Cardinality(Filing) <= 0 + Settled
    BY DEF IInv, CountInv
  <1> HIDE DEF Filing, Settled
  <1>4. filed.times = 0
    BY <1>1, <1>2, <1>3
  <1> QED
    BY <1>4 DEF IInv, RowInv

LEMMA FileKeeps ==
  ASSUME IInv, NEW p \in Processes, File(p)
  PROVE  IInv'
  <1> DEFINE r == [request[p] EXCEPT !.step = "release"]
  <1>1. /\ r \in Requests /\ r.step = "release" /\ r.who = request[p].who
        /\ r.action = request[p].action /\ request' = [request EXCEPT ![p] = r]
    BY NextSteps DEF Steps, File
  <1> HIDE DEF r
  <1>2. /\ request \in [Processes -> Requests] /\ At(p, "file")
        /\ UNCHANGED <<stage, overdue, claim, trouble>>
        /\ trouble \in 0..MaxTrouble /\ faults \in 0..MaxFaults /\ overdue \in BOOLEAN
        /\ claim \in Anyone \cup {None}
    BY DEF File, IInv, TypeOK, Requests
  <1>3. request[p].who \in Anyone /\ request[p].action \in Actions
    BY <1>2 DEF IInv, RequestInv, At
  <1>4. CASE faults < MaxFaults /\ faults' = faults + 1 /\ UNCHANGED filed
    <2>1. faults' \in 0..MaxFaults
      BY <1>2, <1>4, BoundsAssumption
    <2> QED
      BY <1>1, <1>2, <1>3, <1>4, <2>1, MoveKeeps
  <1>5. CASE filed' = [times |-> filed.times + 1, by |-> request[p].who, action |-> request[p].action]
             /\ UNCHANGED faults
    <2>1. /\ request' \in [Processes -> Requests] /\ request'[p] = r
          /\ \A q \in Processes : q # p => request'[q] = request[q]
          /\ Cardinality(Filing') = Cardinality(Filing) - 1
      <3>1. Cardinality(Filing) \in Nat
        BY FilingIsFinite
      <3>2. /\ request' \in [Processes -> Requests] /\ request'[p] = r
            /\ \A q \in Processes : q # p => request'[q] = request[q]
            /\ Cardinality(Filing') = Cardinality(Filing)
                 + (IF r.step = "file" THEN 1 ELSE 0) - (IF At(p, "file") THEN 1 ELSE 0)
        BY <1>1, <1>2, FilingCount
      <3>3. r.step # "file"
        BY <1>1
      <3> HIDE DEF Filing
      <3>4. Cardinality(Filing') = Cardinality(Filing) - 1
        BY <1>2, <3>1, <3>2, <3>3
      <3> QED
        BY <3>2, <3>4
    <2>2. /\ Cardinality(Filing) \in Nat /\ Cardinality(Filing') \in Nat
          /\ filed.times \in Nat /\ trouble \in Nat /\ Settled \in {0, 1} /\ Settled' = Settled
      <3>1. IsFiniteSet(Filing')
        <4>1. Filing' \subseteq Handlers \cup Timers
          BY DEF Filing, Processes
        <4> QED
          BY <4>1, ProcessAssumption, FS_Subset
      <3>2. Cardinality(Filing') \in Nat
        BY <3>1, FS_CardinalityType
      <3> QED
        BY <1>2, <3>2, FilingIsFinite, BoundsAssumption DEF IInv, TypeOK, Settled
    <2>3. CountInv'
      <3>1. filed.times + Cardinality(Filing) <= trouble + Settled
        BY DEF IInv, CountInv
      <3>2. filed'.times = filed.times + 1
        BY <1>5
      <3> HIDE DEF Filing, Settled
      <3>3. filed'.times + Cardinality(Filing') <= trouble + Settled
        BY <2>1, <2>2, <3>1, <3>2
      <3> QED
        BY <1>2, <2>2, <3>3 DEF CountInv
    <2>4. filed' \in [times : 0..(1 + MaxTrouble), by : Anyone \cup {None}, action : Actions \cup {None}]
      <3>1. filed'.times = filed.times + 1
        BY <1>5
      <3>2. filed'.times + Cardinality(Filing') <= trouble + Settled
        BY <1>2, <2>2, <2>3 DEF CountInv
      <3> HIDE DEF Filing, Settled
      <3>3. filed'.times \in 0..(1 + MaxTrouble)
        BY <1>2, <2>2, <3>1, <3>2, BoundsAssumption
      <3> QED
        BY <1>3, <1>5, <3>3
    <2>5. TypeOK'
      BY <1>2, <1>5, <2>1, <2>4 DEF IInv, TypeOK, Requests
    <2>6. RowInv'
      <3>1. filed'.times # 0
        BY <1>5, <2>2
      <3> QED
        BY <1>2, <3>1 DEF IInv, RowInv
    <2>7. RequestInv'
      <3>1. ASSUME NEW q \in Processes
            PROVE  /\ ~At(q, "idle")' => request'[q].who \in Anyone /\ request'[q].action \in Actions
                   /\ At(q, "stage")' => request'[q].who \in Staff
                   /\ (At(q, "claim") \/ At(q, "final"))' => MayCheck(q)'
                   /\ At(q, "file")' /\ trouble' = 0 =>
                        MayCheck(q)' /\ stage'.status = "FINAL" /\ request'[q].who = stage'.checker
        <4>1. CASE q = p
          BY <1>1, <1>3, <2>1, <4>1 DEF At
        <4>2. CASE q # p
          <5>1. request'[q] = request[q]
            BY <2>1, <4>2
          <5> QED
            BY <1>2, <5>1 DEF At, MayCheck, IInv, RequestInv
        <4> QED
          BY <4>1, <4>2
      <3> QED
        BY <3>1 DEF RequestInv
    <2>8. FiledByChecker'
      <3>1. CASE trouble = 0
        BY <1>2, <1>5, <3>1 DEF IInv, RequestInv, MayCheck, FiledByChecker
      <3>2. CASE trouble # 0
        BY <1>2, <3>2 DEF FiledByChecker
      <3> QED
        BY <3>1, <3>2
    <2> QED
      BY <2>3, <2>5, <2>6, <2>7, <2>8 DEF IInv
  <1> QED
    BY <1>4, <1>5 DEF File

LEMMA StepInv == IInv /\ [Next]_vars => IInv'
  <1> SUFFICES ASSUME IInv, [Next]_vars PROVE IInv'
    OBVIOUS
  <1>1. ASSUME NEW p \in Processes, NEW w \in Staff, NEW a \in Actions,
               BeginDecide(p, w, a) \/ BeginValidate(p, w, a)
        PROVE  IInv'
    BY <1>1, StartsKeep
  <1>2. ASSUME NEW p \in Processes, BeginSweep(p) PROVE IInv'
    <2>1. stage.maker \in Staff /\ stage.action \in Actions
      BY <1>2 DEF BeginSweep, IInv, RowInv
    <2> QED
      BY <1>2, <2>1, StartsKeep
  <1>3. ASSUME NEW p \in Processes, Proceed(p) \/ Crash(p) PROVE IInv'
    BY <1>3, QuietStepsKeep, StageKeeps, FinalKeeps, FileKeeps DEF Proceed
  <1>4. CASE Age \/ Lapse \/ UNCHANGED vars
    BY <1>4, TimeKeeps
  <1> QED
    BY <1>1, <1>2, <1>3, <1>4 DEF Next

LEMMA AlwaysInv == Spec => []IInv
  BY InitInv, StepInv, PTL DEF Spec

(***************************************************************************)
(* The theorems.                                                           *)
(***************************************************************************)
\* The shape of the row, the claim and the requests, and the number of decisions that
\* can come into effect at all (cts_outward_data.py).
THEOREM TypeCorrect == Spec => []TypeOK
  <1>1. IInv => TypeOK
    BY DEF IInv
  <1> QED
    BY <1>1, AlwaysInv, PTL

\* However many checkers and sweeps race, one decision comes into effect.
THEOREM OneFiling == Spec => []FiledOnce
  <1>1. IInv => FiledOnce
    <2> SUFFICES ASSUME IInv, trouble = 0 PROVE filed.times <= 1
      BY DEF FiledOnce
    <2>1. filed.times \in Nat /\ Settled \in {0, 1} /\ Cardinality(Filing) \in Nat
      BY BoundsAssumption, FilingIsFinite DEF IInv, TypeOK, Settled
    <2>2. filed.times + Cardinality(Filing) <= 0 + Settled
      BY DEF IInv, CountInv
    <2> HIDE DEF Filing, Settled
    <2> QED
      BY <2>1, <2>2
  <1> QED
    BY <1>1, AlwaysInv, PTL

\* Who files made the row final and is not its maker.
THEOREM CheckersFile == Spec => []FiledByChecker
  <1>1. IInv => FiledByChecker
    BY DEF IInv
  <1> QED
    BY <1>1, AlwaysInv, PTL

\* Both: one decision, and two people behind it.
THEOREM OneFilingByTwo == Spec => []FiledByTwo
  <1>1. FiledOnce /\ FiledByChecker => FiledByTwo
    BY DEF FiledByTwo
  <1> QED
    BY <1>1, OneFiling, CheckersFile, PTL

\* The requests, sweeps, claims and failures of OutwardStage implement the bank's promise.
THEOREM PromiseKept == Spec => TwoPeople
  <1> DEFINE word == [by |-> stage.maker, action |-> stage.action]
             on   == trouble = 0
  <1>1. Init => Promise!Nothing /\ on = TRUE
    BY DEF Init, Promise!Nothing, Promise!NoWord, Promise!Unfiled, NoRow, Unfiled
  <1>2. IInv /\ [Next]_vars => [Promise!Next]_<<word, filed, on>>
    <2> SUFFICES ASSUME IInv, [Next]_vars, ~UNCHANGED <<word, filed, on>> PROVE Promise!Next
      OBVIOUS
    <2>0. trouble \in Nat
      BY BoundsAssumption DEF IInv, TypeOK
    <2>1. ASSUME NEW p \in Processes, Stage(p) PROVE Promise!Next
      <3>1. stage = NoRow /\ UNCHANGED <<filed, trouble>> /\ At(p, "stage")
            /\ stage' = [status |-> "MAKER_DECIDED", maker |-> request[p].who,
                         action |-> request[p].action, checker |-> None]
        BY <2>1 DEF Stage
      <3>2. request[p].who \in Staff /\ request[p].action \in Actions
        BY <3>1 DEF IInv, RequestInv, At
      <3>3. Promise!Speak(request[p].who, request[p].action)
        BY <3>1 DEF Promise!Speak, Promise!NoWord, NoRow
      <3> QED
        BY <3>2, <3>3 DEF Promise!Next
    <2>2. ASSUME NEW p \in Processes, File(p) PROVE Promise!Next
      <3>1. /\ filed' = [times |-> filed.times + 1, by |-> request[p].who, action |-> request[p].action]
            /\ UNCHANGED <<stage, trouble>> /\ At(p, "file")
        BY <2>2 DEF File
      <3>2. request[p].who \in Staff \cup {System} /\ request[p].action \in Actions
        BY <3>1 DEF IInv, RequestInv, At, Anyone
      <3>3. CASE trouble = 0
        <4>1. filed = Unfiled
          BY <3>1, <3>3, FirstToFile
        <4>2. /\ stage.status # "none" /\ request[p].who # stage.maker
              /\ request[p].who = System => request[p].action = stage.action
          BY <3>1, <3>3 DEF IInv, RequestInv, MayCheck
        <4>3. stage.maker \in Staff /\ None \notin Staff
          BY <4>2, StaffAssumption DEF IInv, RowInv
        <4>4. Promise!Settle(request[p].who, request[p].action)
          BY <3>1, <4>1, <4>2, <4>3 DEF Promise!Settle, Promise!NoWord, Promise!Unfiled, Unfiled
        <4> QED
          BY <3>2, <4>4 DEF Promise!Next
      <3>4. CASE trouble # 0
        <4>1. Promise!Unasked(request[p].who, request[p].action)
          BY <3>1, <3>4 DEF Promise!Unasked
        <4> QED
          BY <3>2, <4>1 DEF Promise!Next
      <3> QED
        BY <3>3, <3>4
    <2>3. ASSUME NEW p \in Processes, NEW w \in Staff, NEW a \in Actions, BeginDecide(p, w, a)
          PROVE  Promise!Next
      <3>1. UNCHANGED <<stage, filed>> /\ (trouble' = trouble \/ trouble' = trouble + 1)
        BY <2>3 DEF BeginDecide, ConfigFails
      <3>2. Promise!SwitchOff
        BY <2>0, <3>1 DEF Promise!SwitchOff
      <3> QED
        BY <3>2 DEF Promise!Next
    <2>4. ASSUME NEW p \in Processes, Final(p) PROVE FALSE
      BY <2>4 DEF Final, IInv, TypeOK
    <2>5. ASSUME NEW p \in Processes, NEW w \in Staff, NEW a \in Actions,
                 Claim(p) \/ Release(p) \/ BeginSweep(p) \/ Crash(p) \/ BeginValidate(p, w, a)
          PROVE  FALSE
      BY <2>5 DEF Claim, Release, BeginSweep, Crash, BeginValidate
    <2>6. ASSUME Age \/ Lapse \/ UNCHANGED vars PROVE FALSE
      BY <2>6 DEF Age, Lapse, vars
    <2>7. ASSUME NEW p \in Processes, Claim(p) \/ Release(p) \/ BeginSweep(p) \/ Crash(p) PROVE FALSE
      BY <2>7 DEF Claim, Release, BeginSweep, Crash
    <2> QED
      BY <2>1, <2>2, <2>3, <2>4, <2>5, <2>6, <2>7 DEF Next, Proceed
  <1> QED
    BY <1>1, <1>2, AlwaysInv, PTL DEF Spec, TwoPeople, Promise!Spec, Promise!vars

(***************************************************************************)
(* From here on the lots of a branch and the sessions that file them.  The *)
(* invariant has the order of the seal (OrderInv) at its heart: as long as *)
(* nobody is late, a lot that a session has picked gets no more cheques,   *)
(* so that its file is the cheques it has for good (PresentedInv) and what *)
(* is marked is what was filed (MarkedInv).                                *)
(***************************************************************************)

\* A lot that takes no more cheques.
ClosedLot(l) == lots[l].status \notin {"none", "OPEN"}

Submitting(l) == submissions[l].step # "idle"
AllFiled(l)   == \A i \in Cheques : rows[i].lot = l => rows[i].filed

\* A filing belongs to one session, which waits for it and for no other.
ChildInv ==
  /\ \A l \in Lots : submissions[l].step # "confirm" => ~submissions[l].ref
  /\ \A l \in Lots : Submitting(l) =>
       /\ submissions[l].by \in Sessions
       /\ sessions[submissions[l].by].step = "file"
       /\ l \in sessions[submissions[l].by].todo
  /\ \A k, l \in Lots :
       Submitting(k) /\ Submitting(l) /\ submissions[k].by = submissions[l].by => k = l

\* What a session has picked, has still to do and has filed.
SoundSession(s) ==
  /\ s.filed \subseteq s.picked
  /\ s.step = "pick" => s.outcome = "none" /\ s.filed = {}
  /\ s.step \in {"file", "mark", "rows", "end"} => s.picked # {}
  /\ s.step = "file" => s.todo \subseteq s.picked
  /\ s.step = "rows" => s.todo \subseteq s.filed

SessionInv == \A t \in Sessions : SoundSession(sessions[t])

\* A cheque is in one lot that exists; whoever looks for a lot has none yet.
JoinInv ==
  /\ \A l \in Lots : lots[l].status = "OPEN" => lots[l].count < Capacity
  /\ \A i \in Cheques : adding[i].found =>
       /\ rows[i].lot = 0 /\ adding[i].count < Capacity
       /\ adding[i].lot # 0 => lots[adding[i].lot].status # "none"
  /\ \A i \in Cheques : rows[i].lot # 0 => lots[rows[i].lot].status # "none"
  /\ \A l \in Lots : lots[l].status = "none" => lots[l].count = 0

\* While everybody waits for the seal, only closed lots are endorsed, picked and filed.
OrderInv ==
  /\ \A l \in endorsing : ClosedLot(l)
  /\ \A t \in Sessions : \A l \in sessions[t].picked : ClosedLot(l)
  /\ \A l \in Lots : ngch[l] # {} => ClosedLot(l)

\* So a file and what the clearing house has of a lot are the lot's cheques.
PresentedInv ==
  /\ \A l \in Lots : submissions[l].step \in {"submit", "confirm"} => submissions[l].file = ChequesOf(l)
  /\ \A l \in Lots : ngch[l] = {} \/ ngch[l] = ChequesOf(l)
  /\ \A l \in Lots : submissions[l].step = "confirm" /\ submissions[l].ref => ngch[l] = ChequesOf(l)
  /\ \A t \in Sessions : \A l \in sessions[t].filed : ngch[l] = ChequesOf(l)
  /\ \A i \in Cheques : rows[i].filed => rows[i].lot \in Lots /\ i \in ngch[rows[i].lot]

\* And a session that says so has marked them all.
MarkedAll(s) ==
  /\ s.step = "rows" => \A l \in s.filed \ s.todo : AllFiled(l)
  /\ s.step = "end" => \A l \in s.filed : AllFiled(l)
  /\ s.outcome = "SUBMITTED" => \A l \in s.picked : AllFiled(l)

MarkedInv == \A t \in Sessions : MarkedAll(sessions[t])

FilingInv == late = 0 => OrderInv /\ PresentedInv /\ MarkedInv

LotsInv == LotsTypeOK /\ ChildInv /\ SessionInv /\ JoinInv /\ FilingInv /\ CountsCheques

Statuses == {"none", "OPEN", "SEALED", "ENDORSED", "ENDORSEMENT_FAILED", "SUBMITTED"}
LotRecords == [status : Statuses, count : 0..Capacity]

LEMMA LotsInitInv == LotsInit => LotsInv
  <1> SUFFICES ASSUME LotsInit PROVE LotsInv
    OBVIOUS
  <1> USE LotsAssumption, LotBoundsAssumption
  <1>1. LotsTypeOK
    BY DEF LotsInit, LotsTypeOK, NotMade, NoRead, NotRun, NoFile, Lots
  <1>2. ChildInv
    BY DEF LotsInit, ChildInv, Submitting, NoFile
  <1>3. SessionInv
    BY DEF LotsInit, SessionInv, SoundSession, NotRun
  <1>4. JoinInv
    BY DEF LotsInit, JoinInv, NotMade, NoRead
  <1>5. FilingInv
    BY DEF LotsInit, FilingInv, OrderInv, PresentedInv, MarkedInv, MarkedAll,
       NotRun, NoFile, ClosedLot, AllFiled
  <1>6. CountsCheques
    <2> SUFFICES ASSUME NEW l \in Lots PROVE Cardinality(ChequesOf(l)) = 0
      BY DEF LotsInit, CountsCheques, NotMade
    <2>1. ChequesOf(l) = {}
      BY DEF LotsInit, ChequesOf, Lots
    <2> QED
      BY <2>1, FS_EmptySet
  <1> QED
    BY <1>1, <1>2, <1>3, <1>4, <1>5, <1>6 DEF LotsInv

(***************************************************************************)
(* A cheque joins a lot.                                                   *)
(***************************************************************************)
\* What lots may look like after a cheque has found its way: the lot of the cheque is
\* open or was just made, and no other lot is reopened.
Joined(i, l) ==
  /\ lots' \in [Lots -> LotRecords]
  /\ rows' = [rows EXCEPT ![i].lot = l]
  /\ \A k \in Lots : lots'[k].status = "OPEN" => lots'[k].count < Capacity
  /\ \A k \in Lots : lots'[k].status = "none" => lots[k].status = "none" /\ lots'[k].count = 0
  /\ lots'[l].status # "none"
  /\ late' \in 0..MaxLate
  /\ late' = 0 =>
       /\ late = 0
       /\ ~ClosedLot(l)
       /\ \A k \in Lots : ClosedLot(k) => lots'[k].status \notin {"none", "OPEN"}
       /\ lots'[l] = [status |-> "OPEN", count |-> lots[l].count + 1]
       /\ \A k \in Lots \ {l} :
            \/ lots'[k] = lots[k]
            \/ lots[k].status = "OPEN" /\ lots'[k].status # "OPEN"
               /\ lots'[k].count = lots[k].count + 1 /\ lots'[k].count = Capacity

LEMMA SealsOne ==
  ASSUME NEW ls \in [Lots -> LotRecords], NEW l \in Lots, NEW n \in 0..(Capacity - 1), Full(n),
         \A k \in Lots : ls[k].status = "OPEN" => ls[k].count < Capacity
  PROVE  /\ SealsFull(l, n, ls) \in [Lots -> LotRecords]
         /\ \A k \in Lots \ {l} : SealsFull(l, n, ls)[k] = ls[k]
         /\ SealsFull(l, n, ls)[l] = [status |-> "SEALED", count |-> Capacity]
         /\ n + 1 = Capacity
  BY LotsAssumption DEF SealsFull, Full, LotRecords, Statuses

LEMMA JoinsLot == ASSUME LotsInv, NEW i \in Cheques, Persists(i) PROVE \E l \in Lots : Joined(i, l)
  <1> USE LotsAssumption, LotBoundsAssumption
  <1> DEFINE f == adding[i].lot
             n == adding[i].count
  <1>1. /\ lots \in [Lots -> LotRecords] /\ late \in 0..MaxLate
        /\ rows \in [Cheques -> [lot : Lots \cup {0}, filed : BOOLEAN]]
        /\ f \in Lots \cup {0} /\ n \in 0..(Capacity - 1)
        /\ \A k \in Lots : lots[k].status = "OPEN" => lots[k].count < Capacity
        /\ \A k \in Lots : lots[k].status = "none" => lots[k].count = 0
    <2>1. adding[i] \in [found : BOOLEAN, lot : Lots \cup {0}, count : 0..Capacity]
      BY DEF LotsInv, LotsTypeOK
    <2>2. n < Capacity
      BY DEF LotsInv, JoinInv, Persists
    <2> QED
      BY <2>1, <2>2 DEF LotsInv, LotsTypeOK, JoinInv, LotRecords, Statuses
  <1>2. late' \in 0..MaxLate /\ (late' = 0 => late = 0)
    BY <1>1 DEF Persists, InTime, IsLate
  <1>3. late' = 0 /\ f # 0 => lots[f] = [status |-> "OPEN", count |-> n]
    BY <1>1 DEF Persists, InTime, IsLate
  \* The lots before the cheque is counted: as they were, or with lots sealed as full.
  <1> DEFINE Before(ls) ==
        /\ ls \in [Lots -> LotRecords]
        /\ \A k \in Lots : ls[k].status = "OPEN" => ls[k].count < Capacity
        /\ \A k \in Lots : ls[k].status = "none" => lots[k] = ls[k]
        /\ late' = 0 => \A k \in Lots :
             \/ ls[k] = lots[k]
             \/ lots[k].status = "OPEN" /\ ls[k].status = "SEALED"
                /\ ls[k].count = lots[k].count + 1 /\ ls[k].count = Capacity
  <1>4. Before(lots)
    BY <1>1
  <1>5. ASSUME NEW ls, Before(ls), OpensLot(i, ls) PROVE \E l \in Lots : Joined(i, l)
    <2>1. PICK l \in Lots : /\ Made(ls) = 1..(l - 1)
                            /\ Joins(i, l, [ls EXCEPT ![l] = [status |-> "OPEN", count |-> 1]])
      BY <1>5 DEF OpensLot
    <2>2. ls[l].status = "none" /\ lots[l] = ls[l] /\ lots[l].count = 0
      <3>1. l \notin Made(ls)
        BY <2>1 DEF Lots
      <3> QED
        BY <3>1, <1>1, <1>5 DEF Made
    <2>3. /\ lots' = [ls EXCEPT ![l] = [status |-> "OPEN", count |-> 1]]
          /\ rows' = [rows EXCEPT ![i].lot = l]
      BY <2>1 DEF Joins
    <2>4. lots' \in [Lots -> LotRecords]
      BY <1>5, <2>3 DEF LotRecords, Statuses
    <2>5. \A k \in Lots \ {l} : lots'[k] = ls[k]
      BY <1>5, <2>3
    <2>6. lots'[l] = [status |-> "OPEN", count |-> 1]
      BY <1>5, <2>3
    <2>7. ~ClosedLot(l)
      BY <2>2 DEF ClosedLot
    <2>8. \A k \in Lots : lots'[k].status = "OPEN" => lots'[k].count < Capacity
      BY <1>5, <2>5, <2>6
    <2>9. \A k \in Lots : lots'[k].status = "none" => lots[k].status = "none" /\ lots'[k].count = 0
      BY <1>1, <1>5, <2>5, <2>6
    <2>10. ASSUME late' = 0, NEW k \in Lots \ {l}
           PROVE  \/ lots'[k] = lots[k]
                  \/ lots[k].status = "OPEN" /\ lots'[k].status # "OPEN"
                     /\ lots'[k].count = lots[k].count + 1 /\ lots'[k].count = Capacity
      BY <1>5, <2>5, <2>10
    <2>11. ASSUME late' = 0, NEW k \in Lots, ClosedLot(k) PROVE lots'[k].status \notin {"none", "OPEN"}
      BY <2>7, <2>10, <2>11 DEF ClosedLot
    <2>12. lots'[l] = [status |-> "OPEN", count |-> lots[l].count + 1]
      BY <2>2, <2>6
    <2>13. Joined(i, l)
      <3>1. lots'[l].status # "none"
        BY <2>6
      <3> QED
        BY <1>2, <2>3, <2>4, <2>7, <2>8, <2>9, <2>10, <2>11, <2>12, <3>1 DEF Joined
    <2> QED
      BY <2>13
  <1>6. ASSUME NEW ls, Before(ls), NEW l \in Lots, NEW m \in 0..(Capacity - 1), CountsOne(i, l, m, ls),
               ls[l].status # "none", late' = 0 => ls[l] = [status |-> "OPEN", count |-> m]
        PROVE  \E k \in Lots : Joined(i, k)
    <2>1. /\ m + 1 < Capacity
          /\ lots' = [ls EXCEPT ![l].count = m + 1]
          /\ rows' = [rows EXCEPT ![i].lot = l]
      BY <1>6 DEF CountsOne, Full, Joins
    <2>2. lots' \in [Lots -> LotRecords]
      BY <1>6, <2>1 DEF LotRecords, Statuses
    <2>3. \A k \in Lots \ {l} : lots'[k] = ls[k]
      BY <1>6, <2>1
    <2>4. lots'[l].status = ls[l].status /\ lots'[l].count = m + 1
      BY <1>6, <2>1 DEF LotRecords
    <2>5. \A k \in Lots : lots'[k].status = "OPEN" => lots'[k].count < Capacity
      BY <1>6, <2>1, <2>3, <2>4
    <2>6. \A k \in Lots : lots'[k].status = "none" => lots[k].status = "none" /\ lots'[k].count = 0
      BY <1>1, <1>6, <2>3, <2>4
    <2>7. ASSUME late' = 0 PROVE lots'[l] = [status |-> "OPEN", count |-> lots[l].count + 1] /\ ~ClosedLot(l)
      <3>1. lots[l] = ls[l]
        BY <1>6, <2>7
      <3> QED
        BY <1>6, <2>1, <2>7, <3>1 DEF ClosedLot, LotRecords
    <2>8. ASSUME late' = 0, NEW k \in Lots \ {l}
          PROVE  \/ lots'[k] = lots[k]
                 \/ lots[k].status = "OPEN" /\ lots'[k].status # "OPEN"
                    /\ lots'[k].count = lots[k].count + 1 /\ lots'[k].count = Capacity
      BY <1>6, <2>3, <2>8
    <2>9. ASSUME late' = 0, NEW k \in Lots, ClosedLot(k) PROVE lots'[k].status \notin {"none", "OPEN"}
      BY <2>7, <2>8, <2>9 DEF ClosedLot
    <2> QED
      BY <1>2, <1>6, <2>1, <2>2, <2>4, <2>5, <2>6, <2>7, <2>8, <2>9 DEF Joined
  <1>7. ASSUME NEW ls, Before(ls), NEW l \in Lots, NEW m \in 0..(Capacity - 1), Full(m),
               late' = 0 => ls[l] = [status |-> "OPEN", count |-> m]
        PROVE  Before(SealsFull(l, m, ls))
    <2> DEFINE sealed == SealsFull(l, m, ls)
    <2>1. /\ sealed \in [Lots -> LotRecords] /\ m + 1 = Capacity
          /\ \A k \in Lots \ {l} : sealed[k] = ls[k]
          /\ sealed[l] = [status |-> "SEALED", count |-> Capacity]
      BY <1>7, SealsOne
    <2> HIDE DEF sealed
    <2>2. ASSUME late' = 0 PROVE ls[l] = lots[l] /\ lots[l].status = "OPEN" /\ lots[l].count + 1 = Capacity
      BY <1>7, <2>1, <2>2
    <2>3. ASSUME late' = 0, NEW k \in Lots
          PROVE  \/ sealed[k] = lots[k]
                 \/ lots[k].status = "OPEN" /\ sealed[k].status = "SEALED"
                    /\ sealed[k].count = lots[k].count + 1 /\ sealed[k].count = Capacity
      BY <1>7, <2>1, <2>2, <2>3
    <2>4. \A k \in Lots : sealed[k].status = "OPEN" => sealed[k].count < Capacity
      BY <1>7, <2>1
    <2>5. \A k \in Lots : sealed[k].status = "none" => lots[k] = sealed[k]
      BY <1>7, <2>1
    <2> QED
      BY <2>1, <2>3, <2>4, <2>5 DEF sealed
  <1>8. CASE f = 0
    BY <1>4, <1>5, <1>8 DEF Persists
  <1>9. CASE f # 0
    <2>1. f \in Lots /\ JoinsFound(i, f, n)
      BY <1>1, <1>9 DEF Persists
    <2> HIDE DEF Before
    <2>2. CASE CountsOne(i, f, n, lots)
      <3>1. lots[f].status # "none"
        BY <1>9 DEF LotsInv, JoinInv, Persists
      <3> QED
        BY <1>1, <1>3, <1>4, <1>6, <1>9, <2>1, <2>2, <3>1
    <2>3. CASE Full(n)
      <3> DEFINE sealed == SealsFull(f, n, lots)
      <3>1. Before(sealed)
        BY <1>1, <1>3, <1>4, <1>7, <1>9, <2>1, <2>3
      <3>2. ASSUME NEW o \in OpenLots(sealed)
            PROVE  o \in Lots /\ sealed[o] = [status |-> "OPEN", count |-> sealed[o].count]
                   /\ sealed[o].count \in 0..(Capacity - 1)
        BY <3>1, <3>2 DEF OpenLots, Before, LotRecords
      <3>3. CASE OpensLot(i, sealed)
        BY <1>5, <3>1, <3>3
      <3>4. ASSUME NEW o \in OpenLots(sealed), CountsOne(i, o, sealed[o].count, sealed)
            PROVE  \E l \in Lots : Joined(i, l)
        <4> HIDE DEF sealed
        <4>1. o \in Lots /\ sealed[o] = [status |-> "OPEN", count |-> sealed[o].count]
              /\ sealed[o].count \in 0..(Capacity - 1)
          BY <3>2, <3>4
        <4>2. sealed[o].status # "none"
          BY <4>1
        <4> DEFINE m == sealed[o].count
        <4>3. m \in 0..(Capacity - 1) /\ CountsOne(i, o, m, sealed)
              /\ sealed[o] = [status |-> "OPEN", count |-> m]
          BY <3>4, <4>1
        <4> HIDE DEF m
        <4> QED
          BY <1>6, <3>1, <4>1, <4>2, <4>3
      <3>5. ASSUME NEW o \in OpenLots(sealed), Full(sealed[o].count),
                   OpensLot(i, SealsFull(o, sealed[o].count, sealed))
            PROVE  \E l \in Lots : Joined(i, l)
        <4>1. Before(SealsFull(o, sealed[o].count, sealed))
          BY <1>7, <3>1, <3>2, <3>5
        <4> QED
          BY <1>5, <3>5, <4>1
      <3> QED
        BY <2>1, <2>3, <3>3, <3>4, <3>5 DEF JoinsFound, CountsOne
    <2> QED
      BY <2>1, <2>2, <2>3 DEF JoinsFound
  <1> QED
    BY <1>8, <1>9

InLot(r, k) == {j \in Cheques : r[j].lot = k}

LEMMA Counting ==
  ASSUME NEW r1, NEW r2, NEW i \in Cheques, NEW l \in Lots,
         r1[i].lot = 0, r2[i].lot = l, \A j \in Cheques \ {i} : r2[j] = r1[j]
  PROVE  /\ \A k \in Lots \ {l} : InLot(r2, k) = InLot(r1, k)
         /\ Cardinality(InLot(r1, l)) \in Nat /\ Cardinality(InLot(r2, l)) = Cardinality(InLot(r1, l)) + 1
  <1>2. \A k \in Lots : k # 0
    BY LotsAssumption DEF Lots
  <1>3. \A k \in Lots \ {l} : InLot(r2, k) = InLot(r1, k)
    BY <1>2 DEF InLot
  <1>4. InLot(r2, l) = InLot(r1, l) \cup {i} /\ i \notin InLot(r1, l)
    BY <1>2 DEF InLot
  <1>5. IsFiniteSet(InLot(r1, l))
    <2>1. InLot(r1, l) \subseteq Cheques
      BY DEF InLot
    <2> QED
      BY <2>1, ChequesAssumption, FS_Subset
  <1>6. Cardinality(InLot(r1, l)) \in Nat /\ Cardinality(InLot(r2, l)) = Cardinality(InLot(r1, l)) + 1
    BY <1>4, <1>5, FS_CardinalityType, FS_AddElement
  <1> QED
    BY <1>3, <1>6

LEMMA PersistsStep == ASSUME LotsInv, NEW i \in Cheques, Persists(i) PROVE LotsInv'
  <1> USE LotsAssumption, LotBoundsAssumption
  <1>1. PICK l \in Lots : Joined(i, l)
    BY JoinsLot
  <1>2. /\ adding' = [adding EXCEPT ![i] = NoRead] /\ adding[i].found
        /\ UNCHANGED <<sealing, endorsing, orders, sessions, submissions, ngch, lotFaults>>
    BY DEF Persists, staffVars, filingVars
  <1>3. /\ rows \in [Cheques -> [lot : Lots \cup {0}, filed : BOOLEAN]] /\ rows[i].lot = 0
        /\ rows' = [rows EXCEPT ![i].lot = l]
    BY <1>1, <1>2 DEF LotsInv, LotsTypeOK, JoinInv, Joined
  <1>4. /\ rows' \in [Cheques -> [lot : Lots \cup {0}, filed : BOOLEAN]]
        /\ \A j \in Cheques : rows'[j].filed = rows[j].filed
        /\ \A j \in Cheques \ {i} : rows'[j] = rows[j]
        /\ rows'[i].lot = l
        /\ \A k \in Lots \ {l} : ChequesOf(k)' = ChequesOf(k)
        /\ Cardinality(ChequesOf(l)) \in Nat /\ Cardinality(ChequesOf(l)') = Cardinality(ChequesOf(l)) + 1
    <2>1. /\ rows' \in [Cheques -> [lot : Lots \cup {0}, filed : BOOLEAN]]
          /\ \A j \in Cheques : rows'[j].filed = rows[j].filed
          /\ \A j \in Cheques \ {i} : rows'[j] = rows[j]
          /\ rows'[i].lot = l
      BY <1>3
    <2>3. /\ \A k \in Lots \ {l} : InLot(rows', k) = InLot(rows, k)
          /\ Cardinality(InLot(rows, l)) \in Nat
          /\ Cardinality(InLot(rows', l)) = Cardinality(InLot(rows, l)) + 1
      <3>1. rows[i].lot = 0
        BY <1>3
      <3> QED
        BY <2>1, <3>1, Counting
    <2>2. \A k : ChequesOf(k) = InLot(rows, k) /\ ChequesOf(k)' = InLot(rows', k)
      BY DEF ChequesOf, InLot
    <2> QED
      BY <2>1, <2>2, <2>3
  <1>5. LotsTypeOK'
    <2>1. NoRead \in [found : BOOLEAN, lot : Lots \cup {0}, count : 0..Capacity]
      BY DEF NoRead
    <2> QED
      BY <1>1, <1>2, <1>4, <2>1 DEF LotsInv, LotsTypeOK, Joined, LotRecords, Statuses
  <1>6. ChildInv' /\ SessionInv'
    BY <1>2 DEF LotsInv, ChildInv, SessionInv, Submitting
  <1>7. JoinInv'
    <2>1. \A k \in Lots : lots'[k].status = "OPEN" => lots'[k].count < Capacity
      BY <1>1 DEF Joined
    <2>2. \A k \in Lots : lots'[k].status = "none" => lots[k].status = "none" /\ lots'[k].count = 0
      BY <1>1 DEF Joined
    <2>3. ASSUME NEW j \in Cheques, adding'[j].found
          PROVE  /\ rows'[j].lot = 0 /\ adding'[j].count < Capacity
                 /\ adding'[j].lot # 0 => lots'[adding'[j].lot].status # "none"
      <3>1. adding \in [Cheques -> [found : BOOLEAN, lot : Lots \cup {0}, count : 0..Capacity]]
        BY DEF LotsInv, LotsTypeOK
      <3>2. j # i /\ adding'[j] = adding[j]
        BY <1>2, <2>3, <3>1 DEF NoRead
      <3>3. /\ rows[j].lot = 0 /\ adding[j].count < Capacity
            /\ adding[j].lot # 0 => lots[adding[j].lot].status # "none"
        BY <2>3, <3>2 DEF LotsInv, JoinInv
      <3>4. adding[j].lot \in Lots \cup {0}
        BY <3>1
      <3> QED
        BY <1>4, <2>2, <3>2, <3>3, <3>4
    <2>4. ASSUME NEW j \in Cheques, rows'[j].lot # 0 PROVE lots'[rows'[j].lot].status # "none"
      <3>1. CASE j = i
        BY <1>1, <1>4, <3>1 DEF Joined
      <3>2. CASE j # i
        BY <1>3, <1>4, <2>2, <2>4, <3>2 DEF LotsInv, JoinInv
      <3> QED
        BY <3>1, <3>2
    <2> QED
      BY <2>1, <2>2, <2>3, <2>4 DEF JoinInv
  <1>8. FilingInv'
    <2> SUFFICES ASSUME late' = 0 PROVE (OrderInv /\ PresentedInv /\ MarkedInv)'
      BY DEF FilingInv
    <2>1. late = 0 /\ ~ClosedLot(l) /\ \A k \in Lots : ClosedLot(k) => ClosedLot(k)'
      BY <1>1 DEF Joined, ClosedLot
    <2>2. OrderInv /\ PresentedInv /\ MarkedInv
      BY <2>1 DEF LotsInv, FilingInv
    <2>3. OrderInv'
      <3>1. endorsing \subseteq Lots /\ \A t \in Sessions : sessions[t].picked \subseteq Lots
        BY DEF LotsInv, LotsTypeOK
      <3> QED
        BY <1>2, <2>1, <2>2, <3>1 DEF OrderInv
    <2>4. \A k \in Lots : ClosedLot(k) => k # l /\ ChequesOf(k)' = ChequesOf(k)
      BY <1>4, <2>1
    <2>5. ~rows[i].filed
      <3>1. 0 \notin Lots
        BY DEF Lots
      <3> QED
        BY <1>3, <2>2, <3>1 DEF PresentedInv
    <2>6. \A t \in Sessions : sessions[t].picked \subseteq Lots /\ sessions[t].filed \subseteq Lots
      BY DEF LotsInv, LotsTypeOK
    <2>7. \A k \in Lots : Submitting(k) => ClosedLot(k)
      BY <2>2 DEF LotsInv, ChildInv, SessionInv, SoundSession, OrderInv
    <2>8. \A t \in Sessions : \A k \in sessions[t].picked : k \in Lots /\ ClosedLot(k)
      BY <2>2, <2>6 DEF OrderInv
    <2>9. \A t \in Sessions : \A k \in sessions[t].filed : k \in Lots /\ ClosedLot(k)
      BY <2>8 DEF LotsInv, SessionInv, SoundSession
    <2>10. PresentedInv'
      <3>1. \A k \in Lots : submissions[k].step \in {"submit", "confirm"} => Submitting(k)
        BY DEF Submitting
      <3>2. \A k \in Lots : submissions'[k].step \in {"submit", "confirm"} => submissions'[k].file = ChequesOf(k)'
        BY <1>2, <2>2, <2>4, <2>7, <3>1 DEF PresentedInv
      <3>3. \A k \in Lots : ngch'[k] = {} \/ ngch'[k] = ChequesOf(k)'
        BY <1>2, <2>2, <2>4 DEF PresentedInv, OrderInv
      <3>4. \A k \in Lots : submissions'[k].step = "confirm" /\ submissions'[k].ref => ngch'[k] = ChequesOf(k)'
        BY <1>2, <2>2, <2>4, <2>7, <3>1 DEF PresentedInv
      <3>5. \A t \in Sessions : \A k \in sessions'[t].filed : ngch'[k] = ChequesOf(k)'
        BY <1>2, <2>2, <2>4, <2>9 DEF PresentedInv
      <3>6. \A j \in Cheques : rows'[j].filed => rows'[j].lot \in Lots /\ j \in ngch'[rows'[j].lot]
        BY <1>2, <1>4, <2>2, <2>5 DEF PresentedInv
      <3> QED
        BY <3>2, <3>3, <3>4, <3>5, <3>6 DEF PresentedInv
    <2>11. \A k \in Lots : ClosedLot(k) /\ AllFiled(k) => AllFiled(k)'
      BY <1>4, <2>1 DEF AllFiled
    <2>12. MarkedInv'
      BY <1>2, <2>2, <2>8, <2>9, <2>11 DEF MarkedInv, MarkedAll
    <2> QED
      BY <2>3, <2>10, <2>12
  <1>9. CountsCheques'
    <2> SUFFICES ASSUME late' = 0, NEW k \in Lots
                 PROVE  /\ Cardinality(ChequesOf(k)') < Capacity
                        /\ \/ lots'[k].count = Cardinality(ChequesOf(k)')
                           \/ /\ lots'[k].status # "OPEN" /\ lots'[k].count = Capacity
                              /\ Cardinality(ChequesOf(k)') = Capacity - 1
      BY DEF CountsCheques, ChequesOf
    <2> DEFINE n == Cardinality(ChequesOf(k))
    <2>1. /\ late = 0 /\ ~ClosedLot(l)
          /\ lots'[l] = [status |-> "OPEN", count |-> lots[l].count + 1]
          /\ \A m \in Lots \ {l} :
               \/ lots'[m] = lots[m]
               \/ lots[m].status = "OPEN" /\ lots'[m].status # "OPEN"
                  /\ lots'[m].count = lots[m].count + 1 /\ lots'[m].count = Capacity
          /\ lots'[l].count < Capacity
      BY <1>1 DEF Joined
    <2>2. /\ n < Capacity /\ (lots[k].status = "OPEN" => lots[k].count < Capacity)
          /\ lots[k].status = "none" => lots[k].count = 0
          /\ \/ lots[k].count = n
             \/ lots[k].status # "OPEN" /\ lots[k].count = Capacity /\ n = Capacity - 1
      BY <2>1 DEF LotsInv, CountsCheques, JoinInv
    <2>3. CASE k = l
      <3>1. lots[l].count = Cardinality(ChequesOf(l))
        BY <2>1, <2>2, <2>3 DEF ClosedLot
      <3>2. lots'[k].status = "OPEN" /\ lots'[k].count = Cardinality(ChequesOf(l)) + 1
        BY <2>1, <2>3, <3>1
      <3>3. Cardinality(ChequesOf(k)') = Cardinality(ChequesOf(l)) + 1
        BY <1>4, <2>3
      <3> QED
        BY <2>1, <2>3, <3>2, <3>3
    <2>4. CASE k # l
      <3>1. ChequesOf(k)' = ChequesOf(k)
        BY <1>4, <2>4
      <3>2. Cardinality(ChequesOf(k)') = n
        BY <3>1
      <3>3. lots[k].count \in Nat
        BY DEF LotsInv, LotsTypeOK
      <3> HIDE DEF n
      <3> QED
        BY <2>1, <2>2, <2>4, <3>2, <3>3
    <2> QED
      BY <2>3, <2>4
  <1> QED
    BY <1>5, <1>6, <1>7, <1>8, <1>9 DEF LotsInv

(***************************************************************************)
(* Steps that leave cheques and filings alone.                             *)
(***************************************************************************)
SessionRecords == [step : {"new", "pick", "file", "mark", "rows", "end", "done", "failed"},
                   picked : SUBSET Lots, todo : SUBSET Lots, filed : SUBSET Lots,
                   outcome : {"none", "EMPTY_SESSION", "SUBMITTED", "EXCEPTION"}]

\* Lots only close, with the count they have.
OnlyClose ==
  /\ lots' \in [Lots -> LotRecords]
  /\ \A k \in Lots : /\ lots'[k].count = lots[k].count
                     /\ lots'[k] = lots[k] \/ lots'[k].status \notin {"none", "OPEN"}

\* A session without a filing under way goes from one sound state to another.
GoesSoundly(t) ==
  /\ SoundSession(sessions'[t])
  /\ \A l \in Lots : Submitting(l) => submissions[l].by # t
  /\ late' = 0 => /\ \A l \in sessions'[t].picked : ClosedLot(l)'
                  /\ \A l \in sessions'[t].filed : ngch[l] = ChequesOf(l)
                  /\ MarkedAll(sessions'[t])

LEMMA RowsKept ==
  ASSUME LotsInv, UNCHANGED <<rows, adding, submissions, ngch>>, OnlyClose,
         sealing' \subseteq Lots, endorsing' \subseteq Lots, orders' \in 0..MaxOrders,
         late' \in 0..MaxLate, late' = 0 => late = 0, lotFaults' \in 0..MaxLotFaults,
         late' = 0 => \A k \in endorsing' : ClosedLot(k)',
         sessions' \in [Sessions -> SessionRecords],
         \A t \in Sessions : sessions'[t] = sessions[t] \/ GoesSoundly(t)
  PROVE  LotsInv'
  <1>1. LotsTypeOK'
    BY DEF LotsInv, LotsTypeOK, OnlyClose, LotRecords, Statuses, SessionRecords
  <1>2. ChildInv'
    <2>1. ASSUME NEW l \in Lots, Submitting(l)'
          PROVE  /\ submissions'[l].by \in Sessions
                 /\ sessions'[submissions'[l].by] = sessions[submissions[l].by]
                 /\ Submitting(l) /\ submissions'[l] = submissions[l]
      BY <2>1 DEF LotsInv, ChildInv, GoesSoundly, Submitting
    <2> QED
      BY <2>1 DEF LotsInv, ChildInv
  <1>3. SessionInv'
    BY DEF LotsInv, SessionInv, GoesSoundly
  <1>4. \A k \in Lots : lots'[k].status \in {"none", "OPEN"} => lots'[k] = lots[k]
    BY DEF OnlyClose
  <1>5. JoinInv'
    <2>1. \A i \in Cheques : adding[i].lot \in Lots \cup {0} /\ rows[i].lot \in Lots \cup {0}
      BY DEF LotsInv, LotsTypeOK
    <2> QED
      BY <1>4, <2>1 DEF LotsInv, JoinInv
  <1>6. FilingInv'
    <2> SUFFICES ASSUME late' = 0 PROVE (OrderInv /\ PresentedInv /\ MarkedInv)'
      BY DEF FilingInv
    <2>1. OrderInv /\ PresentedInv /\ MarkedInv
      BY DEF LotsInv, FilingInv
    <2>2. \A k \in Lots : ClosedLot(k) => ClosedLot(k)'
      BY <1>4 DEF ClosedLot
    <2>3. \A t \in Sessions : sessions[t].picked \subseteq Lots
      BY DEF LotsInv, LotsTypeOK
    <2>4. OrderInv'
      BY <2>1, <2>2, <2>3 DEF OrderInv, GoesSoundly
    <2>5. \A k : ChequesOf(k)' = ChequesOf(k) /\ AllFiled(k)' = AllFiled(k)
      BY DEF ChequesOf, AllFiled
    <2>6. PresentedInv'
      <3>1. \A t \in Sessions : \A l \in sessions'[t].filed : ngch'[l] = ChequesOf(l)'
        BY <2>1, <2>5 DEF PresentedInv, GoesSoundly
      <3> QED
        BY <2>1, <2>5, <3>1 DEF PresentedInv
    <2>7. MarkedInv'
      <3>1. ASSUME NEW t \in Sessions PROVE MarkedAll(sessions'[t])
        BY <2>1 DEF MarkedInv, GoesSoundly
      <3> QED
        BY <2>5, <3>1 DEF MarkedInv, MarkedAll
    <2> QED
      BY <2>4, <2>6, <2>7
  <1>7. CountsCheques'
    <2> SUFFICES ASSUME late' = 0, NEW k \in Lots
                 PROVE  /\ Cardinality(ChequesOf(k)') < Capacity
                        /\ \/ lots'[k].count = Cardinality(ChequesOf(k)')
                           \/ /\ lots'[k].status # "OPEN" /\ lots'[k].count = Capacity
                              /\ Cardinality(ChequesOf(k)') = Capacity - 1
      BY DEF CountsCheques, ChequesOf
    <2>1. ChequesOf(k)' = ChequesOf(k)
      BY DEF ChequesOf
    <2>2. /\ Cardinality(ChequesOf(k)) < Capacity
          /\ \/ lots[k].count = Cardinality(ChequesOf(k))
             \/ /\ lots[k].status # "OPEN" /\ lots[k].count = Capacity
                /\ Cardinality(ChequesOf(k)) = Capacity - 1
      <3>1. late = 0
        OBVIOUS
      <3> QED
        BY <3>1 DEF LotsInv, CountsCheques
    <2> QED
      BY <1>4, <2>1, <2>2 DEF OnlyClose
  <1> QED
    BY <1>1, <1>2, <1>3, <1>5, <1>6, <1>7 DEF LotsInv

LEMMA StaffStep ==
  ASSUME LotsInv, NEW l \in Lots, FindsUnsealed(l) \/ Seals(l) \/ endorse_batch(l) \/ update_lot_status(l)
  PROVE  LotsInv'
  <1> USE LotsAssumption, LotBoundsAssumption
  <1>1. /\ lots \in [Lots -> LotRecords] /\ sealing \subseteq Lots /\ endorsing \subseteq Lots
        /\ orders \in 0..MaxOrders /\ late \in 0..MaxLate /\ lotFaults \in 0..MaxLotFaults
        /\ sessions \in [Sessions -> SessionRecords]
    BY DEF LotsInv, LotsTypeOK, LotRecords, Statuses, SessionRecords
  <1>2. UNCHANGED <<rows, adding, sessions, submissions, ngch>>
    BY DEF FindsUnsealed, Seals, endorse_batch, update_lot_status, filingVars, staffVars
  <1>3. /\ sealing' \subseteq Lots /\ endorsing' \subseteq Lots /\ orders' \in 0..MaxOrders
        /\ late' \in 0..MaxLate /\ (late' = 0 => late = 0) /\ lotFaults' \in 0..MaxLotFaults
    BY <1>1 DEF FindsUnsealed, Seals, endorse_batch, update_lot_status, Ordered, IsLate, LotFault
  <1>4. OnlyClose
    BY <1>1 DEF FindsUnsealed, Seals, endorse_batch, update_lot_status, OnlyClose, LotRecords, Statuses
  <1>5. ASSUME late' = 0, NEW k \in endorsing' PROVE ClosedLot(k)'
    <2>1. late = 0 /\ \A m \in endorsing : m \in Lots /\ ClosedLot(m)
      BY <1>1, <1>3, <1>5 DEF LotsInv, FilingInv, OrderInv
    <2>2. \A m \in Lots : ClosedLot(m) => ClosedLot(m)'
      BY <1>4 DEF OnlyClose, ClosedLot
    <2>3. CASE k \in endorsing
      BY <2>1, <2>2, <2>3
    <2>4. CASE k \notin endorsing
      <3>1. endorse_batch(l) /\ k = l
        BY <1>5, <2>4 DEF FindsUnsealed, Seals, endorse_batch, update_lot_status
      <3>2. lots[l].status # "none" /\ lots[l].status # "OPEN"
        BY <1>1, <1>5, <3>1 DEF endorse_batch, IsLate
      <3> QED
        BY <2>2, <3>1, <3>2 DEF ClosedLot
    <2> QED
      BY <2>3, <2>4
  <1> QED
    BY <1>1, <1>2, <1>3, <1>4, <1>5, RowsKept

(***************************************************************************)
(* The steps of a session between its filings.                             *)
(***************************************************************************)
SessionMoves(t) ==
  \/ submit_clearing_session(t) \/ seal_all_lots(t) \/ FilesAll(t) \/ MarksLots(t) \/ MarksAll(t)
  \/ update_session_status(t) \/ SessionFails(t)

\* Only a session that waits for filings has one.
LEMMA NoChild ==
  ASSUME LotsInv, NEW t \in Sessions, sessions[t].step # "file" \/ sessions[t].todo = {},
         NEW l \in Lots, Submitting(l)
  PROVE  submissions[l].by # t
  BY DEF LotsInv, ChildInv

LEMMA SessionStep == ASSUME LotsInv, NEW t \in Sessions, SessionMoves(t) PROVE LotsInv'
  <1> USE LotsAssumption, LotBoundsAssumption
  <1>1. /\ lots \in [Lots -> LotRecords] /\ sealing \subseteq Lots /\ endorsing \subseteq Lots
        /\ orders \in 0..MaxOrders /\ late \in 0..MaxLate /\ lotFaults \in 0..MaxLotFaults
        /\ sessions \in [Sessions -> SessionRecords]
    BY DEF LotsInv, LotsTypeOK, LotRecords, Statuses, SessionRecords
  <1>2. UNCHANGED <<rows, adding, sealing, endorsing, orders, submissions, ngch, late>>
    BY DEF SessionMoves, submit_clearing_session, seal_all_lots, FilesAll, MarksLots, MarksAll,
           update_session_status, SessionFails, staffVars
  <1>3. lotFaults' \in 0..MaxLotFaults
    BY <1>1 DEF SessionMoves, submit_clearing_session, seal_all_lots, FilesAll, MarksLots, MarksAll,
           update_session_status, SessionFails, LotFault
  <1>4. OnlyClose
    <2>1. CASE MarksLots(t)
      <3>1. lots' = [l \in Lots |-> IF l \in sessions[t].filed
                                      THEN [lots[l] EXCEPT !.status = "SUBMITTED"] ELSE lots[l]]
        BY <2>1 DEF MarksLots
      <3>2. ASSUME NEW k \in Lots
            PROVE  /\ lots'[k] \in LotRecords /\ lots'[k].count = lots[k].count
                   /\ lots'[k] = lots[k] \/ lots'[k].status \notin {"none", "OPEN"}
        <4>1. lots[k] \in LotRecords
          BY <1>1
        <4>2. CASE k \in sessions[t].filed
          <5>1. lots'[k] = [lots[k] EXCEPT !.status = "SUBMITTED"]
            BY <3>1, <4>2
          <5> QED
            BY <4>1, <5>1 DEF LotRecords, Statuses
        <4>3. CASE k \notin sessions[t].filed
          BY <3>1, <4>1, <4>3
        <4> QED
          BY <4>2, <4>3
      <3> QED
        BY <3>1, <3>2 DEF OnlyClose
    <2>2. CASE ~MarksLots(t)
      <3>1. lots' = lots
        BY <2>2 DEF SessionMoves, submit_clearing_session, seal_all_lots, FilesAll, MarksAll,
                    update_session_status, SessionFails
      <3> QED
        BY <1>1, <3>1 DEF OnlyClose
    <2> QED
      BY <2>1, <2>2
  <1>5. /\ SoundSession(sessions[t]) /\ sessions[t] \in SessionRecords
        /\ late = 0 => /\ \A l \in sessions[t].picked : l \in Lots /\ ClosedLot(l)
                       /\ \A l \in sessions[t].filed : ngch[l] = ChequesOf(l)
                       /\ MarkedAll(sessions[t])
    BY <1>1 DEF LotsInv, SessionInv, FilingInv, OrderInv, PresentedInv, MarkedInv, SessionRecords
  <1>6. \A k \in Lots : ClosedLot(k) => ClosedLot(k)'
    BY <1>4 DEF OnlyClose, ClosedLot
  \* What the session is in the end.
  <1>7. ASSUME NEW r \in SessionRecords, sessions' = [sessions EXCEPT ![t] = r], SoundSession(r),
               sessions[t].step # "file" \/ sessions[t].todo = {},
               late = 0 => /\ \A l \in r.picked : ClosedLot(l)
                           /\ \A l \in r.filed : ngch[l] = ChequesOf(l)
                           /\ MarkedAll(r)
        PROVE  LotsInv'
    <2>1. sessions' \in [Sessions -> SessionRecords] /\ sessions'[t] = r
          /\ \A u \in Sessions \ {t} : sessions'[u] = sessions[u]
      BY <1>1, <1>7
    <2>2. GoesSoundly(t)
      <3>1. r.picked \subseteq Lots
        BY DEF SessionRecords
      <3> QED
        BY <1>2, <1>6, <1>7, <2>1, <3>1, NoChild DEF GoesSoundly
    <2>3. \A u \in Sessions : sessions'[u] = sessions[u] \/ GoesSoundly(u)
      BY <2>1, <2>2
    <2>4. late' = 0 => \A k \in endorsing' : ClosedLot(k)'
      BY <1>1, <1>2, <1>6 DEF LotsInv, FilingInv, OrderInv
    <2> QED
      BY <1>1, <1>2, <1>3, <1>4, <2>1, <2>3, <2>4, RowsKept
  <1>8. CASE submit_clearing_session(t)
    <2> DEFINE r == [NotRun EXCEPT !.step = "pick"]
    <2>1. /\ r = [step |-> "pick", picked |-> {}, todo |-> {}, filed |-> {}, outcome |-> "none"]
          /\ sessions' = [sessions EXCEPT ![t] = r] /\ sessions[t].step # "file"
      BY <1>8 DEF submit_clearing_session, NotRun
    <2> HIDE DEF r
    <2> QED
      BY <1>7, <2>1 DEF SessionRecords, SoundSession, MarkedAll
  <1>9. CASE seal_all_lots(t)
    <2> DEFINE r == IF Endorsed = {} THEN [sessions[t] EXCEPT !.step = "done", !.outcome = "EMPTY_SESSION"]
                    ELSE [sessions[t] EXCEPT !.step = "file", !.picked = Endorsed, !.todo = Endorsed]
    <2>1. sessions' = [sessions EXCEPT ![t] = r] /\ sessions[t].step = "pick" /\ sessions[t].outcome = "none"
      BY <1>1, <1>5, <1>9 DEF seal_all_lots, SoundSession
    <2>2. Endorsed \subseteq Lots /\ \A l \in Endorsed : ClosedLot(l)
      BY DEF Endorsed, ClosedLot
    <2> DEFINE x == sessions[t]
    <2>3. CASE Endorsed = {}
      <3>1. r = [step |-> "done", picked |-> x.picked, todo |-> x.todo, filed |-> x.filed,
                 outcome |-> "EMPTY_SESSION"]
        BY <1>5, <2>3 DEF SessionRecords
      <3> HIDE DEF r
      <3>2. r \in SessionRecords /\ SoundSession(r) /\ (late = 0 => MarkedAll(r))
        BY <1>5, <3>1 DEF SessionRecords, SoundSession, MarkedAll
      <3> QED
        BY <1>5, <1>7, <2>1, <3>1, <3>2
    <2>4. CASE Endorsed # {}
      <3>1. r = [step |-> "file", picked |-> Endorsed, todo |-> Endorsed, filed |-> x.filed, outcome |-> x.outcome]
        BY <1>5, <2>4 DEF SessionRecords
      <3> HIDE DEF r
      <3>2. sessions[t].filed = {}
        BY <1>5, <2>1 DEF SoundSession
      <3>3. r \in SessionRecords /\ SoundSession(r) /\ (late = 0 => MarkedAll(r))
        BY <1>5, <2>1, <2>2, <2>4, <3>1, <3>2 DEF SessionRecords, SoundSession, MarkedAll
      <3> QED
        BY <1>5, <1>7, <2>1, <2>2, <3>1, <3>3
    <2> QED
      BY <2>3, <2>4
  <1>10. ASSUME NEW step \in {"mark", "end", "failed"}, Step(t, step),
                sessions[t].step # "file" \/ sessions[t].todo = {},
                step = "failed" \/ (step = "mark" /\ sessions[t].step = "file")
                \/ (step = "end" /\ sessions[t].step = "file" /\ sessions[t].filed = {})
                \/ (step = "end" /\ sessions[t].step = "rows" /\ sessions[t].todo = {})
         PROVE  LotsInv'
    <2> DEFINE r == [sessions[t] EXCEPT !.step = step]
               x == sessions[t]
    <2>1. sessions' = [sessions EXCEPT ![t] = r]
          /\ r = [step |-> step, picked |-> x.picked, todo |-> x.todo, filed |-> x.filed, outcome |-> x.outcome]
      BY <1>1, <1>5, <1>10 DEF Step, SessionRecords
    <2> HIDE DEF r
    <2>2. r \in SessionRecords /\ SoundSession(r)
      BY <1>5, <1>10, <2>1 DEF SessionRecords, SoundSession
    <2>3. late = 0 => MarkedAll(r)
      BY <1>5, <1>10, <2>1 DEF MarkedAll
    <2> QED
      BY <1>5, <1>7, <1>10, <2>1, <2>2, <2>3
  <1>11. CASE FilesAll(t)
    BY <1>10, <1>11 DEF FilesAll
  <1>12. CASE MarksAll(t)
    BY <1>10, <1>12 DEF MarksAll
  <1>13. CASE SessionFails(t)
    BY <1>10, <1>13 DEF SessionFails
  <1>14. CASE MarksLots(t)
    <2> DEFINE r == [sessions[t] EXCEPT !.step = "rows", !.todo = sessions[t].filed]
    <2>1. /\ r \in SessionRecords
          /\ r.step = "rows" /\ r.picked = sessions[t].picked /\ r.todo = sessions[t].filed
          /\ r.filed = sessions[t].filed /\ r.outcome = sessions[t].outcome
      BY <1>5 DEF SessionRecords
    <2>2. sessions[t].step = "mark" /\ sessions' = [sessions EXCEPT ![t] = r]
      BY <1>1, <1>14 DEF MarksLots
    <2> HIDE DEF r
    <2>3. SoundSession(r) /\ (late = 0 => MarkedAll(r))
      BY <1>5, <2>1, <2>2 DEF SoundSession, MarkedAll
    <2> QED
      BY <1>5, <1>7, <2>1, <2>2, <2>3
  <1>15. CASE update_session_status(t)
    <2> DEFINE o == IF sessions[t].filed = sessions[t].picked THEN "SUBMITTED" ELSE "EXCEPTION"
               r == [sessions[t] EXCEPT !.step = "done", !.outcome = o]
    <2>1. sessions[t].step = "end" /\ sessions' = [sessions EXCEPT ![t] = r]
      BY <1>1, <1>15 DEF update_session_status
    <2>2. /\ o \in {"SUBMITTED", "EXCEPTION"}
          /\ o = "SUBMITTED" => sessions[t].filed = sessions[t].picked
      OBVIOUS
    <2> HIDE DEF o
    <2>3. /\ r \in SessionRecords
          /\ r.step = "done" /\ r.picked = sessions[t].picked /\ r.todo = sessions[t].todo
          /\ r.filed = sessions[t].filed /\ r.outcome = o
      BY <1>5, <2>2 DEF SessionRecords
    <2> HIDE DEF r
    <2>4. SoundSession(r) /\ (late = 0 => MarkedAll(r))
      BY <1>5, <2>1, <2>2, <2>3 DEF SoundSession, MarkedAll
    <2> QED
      BY <1>5, <1>7, <2>1, <2>3, <2>4
  <1> QED
    BY <1>8, <1>9, <1>11, <1>12, <1>13, <1>14, <1>15 DEF SessionMoves

(***************************************************************************)
(* The steps of a filing.                                                  *)
(***************************************************************************)
SubmissionRecords == [step : {"idle", "build", "submit", "confirm"}, by : Sessions \cup {"none"},
                      file : SUBSET Cheques, ref : BOOLEAN]

LEMMA Shapes ==
  ASSUME LotsInv
  PROVE  /\ lots \in [Lots -> LotRecords] /\ sealing \subseteq Lots /\ endorsing \subseteq Lots
         /\ rows \in [Cheques -> [lot : Lots \cup {0}, filed : BOOLEAN]]
         /\ adding \in [Cheques -> [found : BOOLEAN, lot : Lots \cup {0}, count : 0..Capacity]]
         /\ orders \in 0..MaxOrders /\ late \in 0..MaxLate /\ lotFaults \in 0..MaxLotFaults
         /\ sessions \in [Sessions -> SessionRecords]
         /\ submissions \in [Lots -> SubmissionRecords]
         /\ ngch \in [Lots -> SUBSET Cheques]
  <1> USE DEF LotsInv, LotsTypeOK
  <1>1. lots \in [Lots -> LotRecords] /\ sessions \in [Sessions -> SessionRecords]
    BY DEF LotRecords, Statuses, SessionRecords
  <1>2. submissions \in [Lots -> SubmissionRecords] /\ ngch \in [Lots -> SUBSET Cheques]
    BY DEF SubmissionRecords
  <1>3. /\ sealing \subseteq Lots /\ endorsing \subseteq Lots
        /\ rows \in [Cheques -> [lot : Lots \cup {0}, filed : BOOLEAN]]
        /\ adding \in [Cheques -> [found : BOOLEAN, lot : Lots \cup {0}, count : 0..Capacity]]
        /\ orders \in 0..MaxOrders /\ late \in 0..MaxLate /\ lotFaults \in 0..MaxLotFaults
    OBVIOUS
  <1> QED
    BY <1>1, <1>2, <1>3

\* What a filing must keep: it touches neither lots nor cheques.
LEMMA FilingKeeps ==
  ASSUME LotsInv, UNCHANGED <<lots, rows, adding, sealing, endorsing, orders, late>>,
         lotFaults' \in 0..MaxLotFaults, sessions' \in [Sessions -> SessionRecords],
         submissions' \in [Lots -> SubmissionRecords], ngch' \in [Lots -> SUBSET Cheques],
         ChildInv', SessionInv', late = 0 => (OrderInv /\ PresentedInv /\ MarkedInv)'
  PROVE  LotsInv'
  <1>1. LotsTypeOK'
    BY DEF LotsInv, LotsTypeOK, SessionRecords, SubmissionRecords
  <1>2. JoinInv'
    BY DEF LotsInv, JoinInv
  <1>3. CountsCheques'
    BY DEF LotsInv, CountsCheques, ChequesOf
  <1> QED
    BY <1>1, <1>2, <1>3 DEF LotsInv, FilingInv

\* A lot that is being filed was picked by its session, so it is closed.
LEMMA FiledIsClosed ==
  ASSUME LotsInv, NEW l \in Lots, Submitting(l)
  PROVE  /\ submissions[l].by \in Sessions /\ sessions[submissions[l].by].step = "file"
         /\ l \in sessions[submissions[l].by].todo /\ l \in sessions[submissions[l].by].picked
         /\ late = 0 => ClosedLot(l)
  BY DEF LotsInv, ChildInv, SessionInv, SoundSession, FilingInv, OrderInv

LEMMA StartsStep ==
  ASSUME LotsInv, NEW t \in Sessions, NEW l \in Lots, StartsChild(t, l)
  PROVE  LotsInv'
  <1>0. /\ UNCHANGED <<lots, rows, adding, sealing, endorsing, orders, ngch, late, lotFaults>>
        /\ sessions[t].step = "file" /\ l \in sessions[t].todo
        /\ \A k \in Lots : Submitting(k) => submissions[k].by # t
    BY DEF StartsChild, staffVars, ChildOf, Submitting
  <1>1. CASE submissions[l].step = "idle"
    <2> DEFINE s == [NoFile EXCEPT !.step = "build", !.by = t]
    <2>1. s \in SubmissionRecords /\ s.step = "build" /\ s.by = t /\ ~s.ref
      BY DEF NoFile, SubmissionRecords
    <2>2. submissions' = [submissions EXCEPT ![l] = s] /\ sessions' = sessions
      BY <1>1 DEF StartsChild
    <2> HIDE DEF s
    <2>3. /\ submissions' \in [Lots -> SubmissionRecords] /\ submissions'[l] = s
          /\ \A k \in Lots \ {l} : submissions'[k] = submissions[k]
      BY <2>1, <2>2, Shapes DEF SubmissionRecords
    <2>4. ChildInv'
      BY <1>0, <2>1, <2>2, <2>3 DEF LotsInv, ChildInv, Submitting
    <2>5. SessionInv'
      BY <2>2 DEF LotsInv, SessionInv
    <2>6. ASSUME late = 0 PROVE (OrderInv /\ PresentedInv /\ MarkedInv)'
      <3>1. OrderInv /\ PresentedInv /\ MarkedInv
        BY <2>6 DEF LotsInv, FilingInv
      <3>2. \A k \in Lots : submissions'[k].step \in {"submit", "confirm"} => submissions'[k] = submissions[k]
        BY <2>1, <2>3
      <3>3. \A k : ChequesOf(k)' = ChequesOf(k)
        BY <1>0 DEF ChequesOf
      <3>4. PresentedInv'
        BY <1>0, <2>2, <3>1, <3>2, <3>3 DEF PresentedInv
      <3> QED
        BY <1>0, <2>2, <3>1, <3>4 DEF OrderInv, MarkedInv, MarkedAll, ClosedLot, AllFiled
    <2> QED
      BY <1>0, <2>2, <2>3, <2>4, <2>5, <2>6, FilingKeeps, Shapes
  <1>2. CASE submissions[l].step # "idle"
    <2> DEFINE r == [sessions[t] EXCEPT !.step = "failed"]
    <2>1. sessions[t] \in SessionRecords
      BY Shapes
    <2>2. /\ r \in SessionRecords
          /\ r.step = "failed" /\ r.picked = sessions[t].picked /\ r.todo = sessions[t].todo
          /\ r.filed = sessions[t].filed /\ r.outcome = sessions[t].outcome
      BY <2>1 DEF SessionRecords
    <2>3. sessions' = [sessions EXCEPT ![t] = r] /\ submissions' = submissions
      BY <1>2, Shapes DEF StartsChild, Step
    <2> HIDE DEF r
    <2>4. /\ sessions' \in [Sessions -> SessionRecords] /\ sessions'[t] = r
          /\ \A u \in Sessions \ {t} : sessions'[u] = sessions[u]
      BY <2>2, <2>3, Shapes
    <2>5. OnlyClose
      BY <1>0, Shapes DEF OnlyClose
    <2>6. GoesSoundly(t)
      <3>1. SoundSession(r)
        BY <2>2 DEF LotsInv, SessionInv, SoundSession
      <3>2. late = 0 => /\ \A k \in r.picked : ClosedLot(k)
                        /\ \A k \in r.filed : ngch[k] = ChequesOf(k)
                        /\ MarkedAll(r)
        BY <2>2 DEF LotsInv, FilingInv, OrderInv, PresentedInv, MarkedInv, MarkedAll
      <3> QED
        BY <1>0, <2>4, <3>1, <3>2 DEF GoesSoundly, ClosedLot
    <2>7. \A u \in Sessions : sessions'[u] = sessions[u] \/ GoesSoundly(u)
      BY <2>4, <2>6
    <2>8. late' = 0 => \A k \in endorsing' : ClosedLot(k)'
      BY <1>0 DEF LotsInv, FilingInv, OrderInv, ClosedLot
    <2> QED
      BY <1>0, <2>3, <2>4, <2>5, <2>7, <2>8, RowsKept, Shapes
  <1> QED
    BY <1>1, <1>2

LEMMA BuildStep == ASSUME LotsInv, NEW l \in Lots, build_ngch_file(l) PROVE LotsInv'
  <1> DEFINE s == [submissions[l] EXCEPT !.step = "submit", !.file = ChequesOf(l)]
  <1>0. /\ UNCHANGED <<lots, rows, adding, sealing, endorsing, orders, sessions, ngch, late, lotFaults>>
        /\ submissions[l].step = "build"
    BY DEF build_ngch_file, staffVars
  <1>1. submissions[l] \in SubmissionRecords /\ ChequesOf(l) \subseteq Cheques
    BY Shapes DEF ChequesOf
  <1>2. /\ s \in SubmissionRecords /\ s.step = "submit" /\ s.file = ChequesOf(l)
        /\ s.by = submissions[l].by /\ s.ref = submissions[l].ref
    BY <1>1 DEF SubmissionRecords
  <1>3. submissions' = [submissions EXCEPT ![l] = s]
    BY Shapes DEF build_ngch_file
  <1> HIDE DEF s
  <1>4. /\ submissions' \in [Lots -> SubmissionRecords] /\ submissions'[l] = s
        /\ \A k \in Lots \ {l} : submissions'[k] = submissions[k]
    BY <1>2, <1>3, Shapes
  <1>5. ChildInv' /\ SessionInv'
    <2>1. \A k \in Lots : Submitting(k)' = Submitting(k) /\ submissions'[k].by = submissions[k].by
      BY <1>0, <1>2, <1>4 DEF Submitting
    <2>2. \A k \in Lots : submissions'[k].step # "confirm" => ~submissions'[k].ref
      BY <1>0, <1>2, <1>4 DEF LotsInv, ChildInv
    <2> QED
      BY <1>0, <2>1, <2>2 DEF LotsInv, ChildInv, SessionInv
  <1>6. ASSUME late = 0 PROVE (OrderInv /\ PresentedInv /\ MarkedInv)'
    <2>1. OrderInv /\ PresentedInv /\ MarkedInv
      BY <1>6 DEF LotsInv, FilingInv
    <2>2. \A k : ChequesOf(k)' = ChequesOf(k)
      BY <1>0 DEF ChequesOf
    <2>3. PresentedInv'
      <3>1. \A k \in Lots : submissions'[k].step \in {"submit", "confirm"} => submissions'[k].file = ChequesOf(k)'
        BY <1>2, <1>4, <2>1, <2>2 DEF PresentedInv
      <3>2. \A k \in Lots : submissions'[k].step = "confirm" => submissions'[k] = submissions[k]
        BY <1>2, <1>4
      <3> QED
        BY <1>0, <2>1, <2>2, <3>1, <3>2 DEF PresentedInv
    <2> QED
      BY <1>0, <2>1, <2>3 DEF OrderInv, MarkedInv, MarkedAll, ClosedLot, AllFiled
  <1> QED
    BY <1>0, <1>4, <1>5, <1>6, FilingKeeps, Shapes

LEMMA SubmitStep == ASSUME LotsInv, NEW l \in Lots, submit_to_ngch(l) PROVE LotsInv'
  <1>0. /\ UNCHANGED <<lots, rows, adding, sealing, endorsing, orders, sessions, late>>
        /\ submissions[l].step = "submit"
    BY DEF submit_to_ngch, staffVars
  <1>1. submissions[l] \in SubmissionRecords /\ lotFaults' \in 0..MaxLotFaults
    BY LotBoundsAssumption, Shapes DEF submit_to_ngch, LotFault
  <1>2. PICK s \in SubmissionRecords :
          /\ submissions' = [submissions EXCEPT ![l] = s] /\ s.step = "confirm"
          /\ s.by = submissions[l].by /\ s.file = submissions[l].file
          /\ Takes(l) \/ (ngch' = ngch /\ s.ref = submissions[l].ref)
    <2>1. CASE submissions' = [submissions EXCEPT ![l].step = "confirm", ![l].ref = TRUE] /\ Takes(l)
      <3> DEFINE s == [submissions[l] EXCEPT !.step = "confirm", !.ref = TRUE]
      <3>1. /\ s \in SubmissionRecords /\ s.step = "confirm" /\ s.by = submissions[l].by
            /\ s.file = submissions[l].file
        BY <1>1 DEF SubmissionRecords
      <3>2. submissions' = [submissions EXCEPT ![l] = s]
        BY <2>1, Shapes
      <3> HIDE DEF s
      <3> QED
        BY <2>1, <3>1, <3>2
    <2>2. CASE submissions' = [submissions EXCEPT ![l].step = "confirm"] /\ (Takes(l) \/ UNCHANGED ngch)
      <3> DEFINE s == [submissions[l] EXCEPT !.step = "confirm"]
      <3>1. /\ s \in SubmissionRecords /\ s.step = "confirm" /\ s.by = submissions[l].by
            /\ s.file = submissions[l].file /\ s.ref = submissions[l].ref
        BY <1>1 DEF SubmissionRecords
      <3>2. submissions' = [submissions EXCEPT ![l] = s]
        BY <2>2, Shapes
      <3> HIDE DEF s
      <3> QED
        BY <2>2, <3>1, <3>2
    <2> QED
      BY <2>1, <2>2 DEF submit_to_ngch
  <1>3. /\ submissions' \in [Lots -> SubmissionRecords] /\ submissions'[l] = s
        /\ \A k \in Lots \ {l} : submissions'[k] = submissions[k]
    BY <1>2, Shapes
  \* What the clearing house has of the lot: as before, or the file if it had nothing.
  <1>4. /\ ngch' \in [Lots -> SUBSET Cheques]
        /\ \A k \in Lots \ {l} : ngch'[k] = ngch[k]
        /\ ngch'[l] = ngch[l] \/ (ngch[l] = {} /\ ngch'[l] = submissions[l].file)
        /\ Takes(l) => (ngch'[l] = ngch[l] /\ ngch[l] # {}) \/ ngch'[l] = submissions[l].file
    <2>1. submissions[l].file \subseteq Cheques
      BY <1>1 DEF SubmissionRecords
    <2> QED
      BY <1>2, <2>1, Shapes DEF Takes
  <1>5. ChildInv' /\ SessionInv'
    <2>1. \A k \in Lots : Submitting(k)' = Submitting(k) /\ submissions'[k].by = submissions[k].by
      BY <1>0, <1>2, <1>3 DEF Submitting
    <2>2. \A k \in Lots : submissions'[k].step # "confirm" => ~submissions'[k].ref
      BY <1>2, <1>3 DEF LotsInv, ChildInv
    <2> QED
      BY <1>0, <2>1, <2>2 DEF LotsInv, ChildInv, SessionInv
  <1>6. ASSUME late = 0 PROVE (OrderInv /\ PresentedInv /\ MarkedInv)'
    <2>1. OrderInv /\ PresentedInv /\ MarkedInv
      BY <1>6 DEF LotsInv, FilingInv
    <2>2. \A k : ChequesOf(k)' = ChequesOf(k)
      BY <1>0 DEF ChequesOf
    <2>3. ClosedLot(l) /\ submissions[l].file = ChequesOf(l) /\ \A k : ClosedLot(k)' = ClosedLot(k)
      BY <1>0, <1>6, <2>1, FiledIsClosed DEF PresentedInv, Submitting, ClosedLot
    <2>4. \A k \in Lots : ngch[k] = {} \/ ngch[k] = ChequesOf(k)
      BY <2>1 DEF PresentedInv
    <2>5. \A k \in Lots : /\ ngch'[k] = {} \/ ngch'[k] = ChequesOf(k)
                          /\ ngch[k] = ChequesOf(k) => ngch'[k] = ChequesOf(k)
                          /\ ngch[k] \subseteq ngch'[k]
      BY <1>4, <2>3, <2>4
    <2>6. OrderInv'
      BY <1>0, <1>4, <2>1, <2>3 DEF OrderInv
    <2>7. PresentedInv'
      <3>1. \A k \in Lots : submissions'[k].step \in {"submit", "confirm"} => submissions'[k].file = ChequesOf(k)'
        BY <1>2, <1>3, <2>1, <2>2, <2>3 DEF PresentedInv
      <3>2. ASSUME NEW k \in Lots, submissions'[k].step = "confirm", submissions'[k].ref
            PROVE  ngch'[k] = ChequesOf(k)'
        <4>1. CASE k # l
          BY <1>3, <1>4, <2>1, <2>2, <3>2, <4>1 DEF PresentedInv
        <4>2. CASE k = l /\ Takes(l)
          BY <1>4, <2>2, <2>3, <2>4, <4>2
        <4>3. CASE k = l /\ ~Takes(l)
          <5>1. ~submissions[l].ref
            BY <1>0 DEF LotsInv, ChildInv
          <5> QED
            BY <1>2, <1>3, <3>2, <4>3, <5>1
        <4> QED
          BY <4>1, <4>2, <4>3
      <3>3. \A t \in Sessions : sessions[t].filed \subseteq Lots
        BY DEF LotsInv, LotsTypeOK
      <3> QED
        BY <1>0, <2>1, <2>2, <2>5, <3>1, <3>2, <3>3 DEF PresentedInv
    <2> QED
      BY <1>0, <2>1, <2>6, <2>7 DEF MarkedInv, MarkedAll, AllFiled
  <1> QED
    BY <1>0, <1>1, <1>3, <1>4, <1>5, <1>6, FilingKeeps, Shapes

\* A filing that ends, with or without an acknowledgement, or fails its session.
LEMMA EndStep ==
  ASSUME LotsInv, NEW l \in Lots, confirm_acknowledgement(l) \/ SubmissionFails(l)
  PROVE  LotsInv'
  <1> DEFINE t == submissions[l].by
  <1>0. /\ UNCHANGED <<lots, rows, adding, sealing, endorsing, orders, ngch, late>>
        /\ Submitting(l) /\ submissions' = [submissions EXCEPT ![l] = NoFile]
    BY DEF confirm_acknowledgement, SubmissionFails, Reports, staffVars, Submitting
  <1>1. lotFaults' \in 0..MaxLotFaults
    <2>1. lotFaults \in 0..MaxLotFaults
      BY Shapes
    <2>2. lotFaults' = lotFaults \/ LotFault
      BY DEF confirm_acknowledgement, SubmissionFails
    <2> QED
      BY <2>1, <2>2, LotBoundsAssumption DEF LotFault
  <1>2. /\ t \in Sessions /\ sessions[t].step = "file" /\ l \in sessions[t].todo /\ l \in sessions[t].picked
        /\ sessions[t] \in SessionRecords /\ SoundSession(sessions[t])
    BY <1>0, FiledIsClosed, Shapes DEF LotsInv, SessionInv
  <1>3. PICK r \in SessionRecords :
          /\ sessions' = [sessions EXCEPT ![t] = r]
          /\ r.step \in {"file", "failed"} /\ r.picked = sessions[t].picked /\ r.outcome = sessions[t].outcome
          /\ r.todo \subseteq sessions[t].todo
          /\ \/ r.filed = sessions[t].filed
             \/ /\ r.filed = sessions[t].filed \cup {l}
                /\ submissions[l].step = "confirm" /\ submissions[l].ref
    <2>1. ASSUME NEW a \in BOOLEAN, Reports(l, a), a => submissions[l].ref /\ submissions[l].step = "confirm"
          PROVE  \E r \in SessionRecords :
                   /\ sessions' = [sessions EXCEPT ![t] = r]
                   /\ r.step \in {"file", "failed"} /\ r.picked = sessions[t].picked
                   /\ r.outcome = sessions[t].outcome /\ r.todo \subseteq sessions[t].todo
                   /\ \/ r.filed = sessions[t].filed
                      \/ /\ r.filed = sessions[t].filed \cup {l}
                         /\ submissions[l].step = "confirm" /\ submissions[l].ref
      <3> DEFINE f == IF a THEN sessions[t].filed \cup {l} ELSE sessions[t].filed
                 d == sessions[t].todo \ {l}
                 r == [sessions[t] EXCEPT !.todo = d, !.filed = f]
      <3>1. /\ r \in SessionRecords /\ r.step = "file" /\ r.picked = sessions[t].picked
            /\ r.outcome = sessions[t].outcome /\ r.todo = d /\ r.filed = f
        <4>1. d \subseteq Lots /\ f \subseteq Lots
          BY <1>2 DEF SessionRecords
        <4> HIDE DEF d, f
        <4> QED
          BY <1>2, <4>1 DEF SessionRecords
      <3>2. sessions' = [sessions EXCEPT ![t] = r]
        BY <1>2, <2>1, Shapes DEF Reports
      <3> HIDE DEF r
      <3> QED
        BY <2>1, <3>1, <3>2
    <2>2. CASE SubmissionFails(l)
      <3> DEFINE r == [sessions[t] EXCEPT !.step = "failed"]
      <3>1. /\ r \in SessionRecords /\ r.step = "failed" /\ r.picked = sessions[t].picked
            /\ r.outcome = sessions[t].outcome /\ r.todo = sessions[t].todo /\ r.filed = sessions[t].filed
        BY <1>2 DEF SessionRecords
      <3>2. sessions' = [sessions EXCEPT ![t] = r]
        BY <1>2, <2>2, Shapes DEF SubmissionFails, Step
      <3> HIDE DEF r
      <3> QED
        BY <3>1, <3>2
    <2>3. CASE confirm_acknowledgement(l)
      <3>1. submissions[l].ref \in BOOLEAN
        BY Shapes DEF SubmissionRecords
      <3> QED
        BY <2>1, <2>3, <3>1 DEF confirm_acknowledgement
    <2> QED
      BY <2>2, <2>3
  <1>4. /\ sessions' \in [Sessions -> SessionRecords] /\ sessions'[t] = r
        /\ \A u \in Sessions \ {t} : sessions'[u] = sessions[u]
    BY <1>2, <1>3, Shapes
  <1>5. /\ submissions' \in [Lots -> SubmissionRecords]
        /\ submissions'[l].step = "idle" /\ ~submissions'[l].ref
        /\ \A k \in Lots \ {l} : submissions'[k] = submissions[k]
    <2>1. NoFile \in SubmissionRecords /\ NoFile.step = "idle" /\ ~NoFile.ref
      BY DEF NoFile, SubmissionRecords
    <2> QED
      BY <1>0, <2>1, Shapes
  <1>6. ChildInv'
    <2>1. ASSUME NEW k \in Lots, Submitting(k)'
          PROVE  k # l /\ Submitting(k) /\ submissions'[k] = submissions[k] /\ submissions[k].by # t
      <3>1. k # l /\ Submitting(k) /\ submissions'[k] = submissions[k]
        BY <1>5, <2>1 DEF Submitting
      <3> QED
        BY <1>0, <3>1 DEF LotsInv, ChildInv
    <2>2. ASSUME NEW k \in Lots, Submitting(k)'
          PROVE  /\ submissions'[k].by \in Sessions
                 /\ sessions'[submissions'[k].by].step = "file"
                 /\ k \in sessions'[submissions'[k].by].todo
      BY <1>4, <2>1, <2>2 DEF LotsInv, ChildInv
    <2>3. \A k \in Lots : submissions'[k].step # "confirm" => ~submissions'[k].ref
      BY <1>5 DEF LotsInv, ChildInv
    <2>4. \A j, k \in Lots : Submitting(j)' /\ Submitting(k)' /\ submissions'[j].by = submissions'[k].by => j = k
      BY <2>1 DEF LotsInv, ChildInv
    <2> QED
      BY <2>2, <2>3, <2>4 DEF ChildInv
  <1>7. SessionInv'
    <2>1. SoundSession(r)
      BY <1>2, <1>3 DEF SoundSession
    <2> QED
      BY <1>4, <2>1 DEF LotsInv, SessionInv
  <1>8. ASSUME late = 0 PROVE (OrderInv /\ PresentedInv /\ MarkedInv)'
    <2>1. OrderInv /\ PresentedInv /\ MarkedInv
      BY <1>8 DEF LotsInv, FilingInv
    <2>2. \A k : ChequesOf(k)' = ChequesOf(k) /\ ClosedLot(k)' = ClosedLot(k) /\ AllFiled(k)' = AllFiled(k)
      BY <1>0 DEF ChequesOf, ClosedLot, AllFiled
    <2>3. OrderInv'
      BY <1>0, <1>2, <1>3, <1>4, <2>1, <2>2 DEF OrderInv
    <2>4. PresentedInv'
      <3>1. \A k \in Lots : submissions'[k].step \in {"submit", "confirm"} => submissions'[k] = submissions[k]
        BY <1>5
      <3>2. \A k \in r.filed : ngch[k] = ChequesOf(k)
        BY <1>2, <1>3, <2>1 DEF PresentedInv
      <3>3. \A u \in Sessions : \A k \in sessions'[u].filed : ngch'[k] = ChequesOf(k)'
        BY <1>0, <1>4, <2>1, <2>2, <3>2 DEF PresentedInv
      <3> QED
        BY <1>0, <2>1, <2>2, <3>1, <3>3 DEF PresentedInv
    <2>5. MarkedInv'
      <3>1. MarkedAll(r)
        BY <1>2, <1>3, <2>1 DEF MarkedInv, MarkedAll
      <3>2. \A u \in Sessions : MarkedAll(sessions'[u])
        BY <1>4, <2>1, <3>1 DEF MarkedInv
      <3> QED
        BY <2>2, <3>2 DEF MarkedInv, MarkedAll
    <2> QED
      BY <2>3, <2>4, <2>5
  <1> QED
    BY <1>0, <1>1, <1>4, <1>5, <1>6, <1>7, <1>8, FilingKeeps, Shapes

(***************************************************************************)
(* Marking the cheques of a lot, and looking for an open lot.              *)
(***************************************************************************)
LEMMA MarksStep == ASSUME LotsInv, NEW t \in Sessions, NEW l \in Lots, MarksCheques(t, l) PROVE LotsInv'
  <1> DEFINE r == [sessions[t] EXCEPT !.todo = @ \ {l}]
  <1>0. /\ UNCHANGED <<lots, adding, sealing, endorsing, orders, submissions, ngch, late, lotFaults>>
        /\ sessions[t].step = "rows" /\ l \in sessions[t].todo
        /\ rows' = [i \in Cheques |-> [rows[i] EXCEPT !.filed = @ \/ rows[i].lot = l]]
    BY DEF MarksCheques, staffVars
  <1>1. sessions[t] \in SessionRecords /\ SoundSession(sessions[t]) /\ l \in sessions[t].filed
    BY <1>0, Shapes DEF LotsInv, SessionInv, SoundSession
  <1>2. /\ r \in SessionRecords /\ r.step = "rows" /\ r.picked = sessions[t].picked
        /\ r.outcome = sessions[t].outcome /\ r.todo = sessions[t].todo \ {l} /\ r.filed = sessions[t].filed
    BY <1>0, <1>1 DEF SessionRecords
  <1>3. sessions' = [sessions EXCEPT ![t] = r]
    BY Shapes DEF MarksCheques
  <1> HIDE DEF r
  <1>4. /\ sessions' \in [Sessions -> SessionRecords] /\ sessions'[t] = r
        /\ \A u \in Sessions \ {t} : sessions'[u] = sessions[u]
    BY <1>2, <1>3, Shapes
  <1>5. /\ rows' \in [Cheques -> [lot : Lots \cup {0}, filed : BOOLEAN]]
        /\ \A i \in Cheques : /\ rows'[i].lot = rows[i].lot
                              /\ rows'[i].filed <=> rows[i].filed \/ rows[i].lot = l
    <2>1. ASSUME NEW i \in Cheques
          PROVE  /\ rows'[i] \in [lot : Lots \cup {0}, filed : BOOLEAN] /\ rows'[i].lot = rows[i].lot
                 /\ rows'[i].filed <=> rows[i].filed \/ rows[i].lot = l
      <3>1. rows[i] \in [lot : Lots \cup {0}, filed : BOOLEAN]
        BY Shapes
      <3>2. rows'[i] = [rows[i] EXCEPT !.filed = rows[i].filed \/ rows[i].lot = l]
        BY <1>0
      <3> QED
        BY <3>1, <3>2
    <2> QED
      BY <1>0, <2>1
  <1>6. \A k : ChequesOf(k)' = ChequesOf(k)
    BY <1>5 DEF ChequesOf
  <1>7. LotsTypeOK'
    BY <1>0, <1>4, <1>5 DEF LotsInv, LotsTypeOK, SessionRecords
  <1>8. ChildInv'
    <2>1. ASSUME NEW k \in Lots, Submitting(k)
          PROVE  submissions[k].by \in Sessions /\ sessions'[submissions[k].by] = sessions[submissions[k].by]
      BY <1>0, <1>4, <2>1 DEF LotsInv, ChildInv
    <2> QED
      BY <1>0, <2>1 DEF LotsInv, ChildInv, Submitting
  <1>9. SessionInv'
    <2>1. SoundSession(r)
      BY <1>0, <1>1, <1>2 DEF SoundSession
    <2> QED
      BY <1>4, <2>1 DEF LotsInv, SessionInv
  <1>10. JoinInv'
    <2>1. JoinInv /\ UNCHANGED <<lots, adding>> /\ \A i \in Cheques : rows'[i].lot = rows[i].lot
      BY <1>0, <1>5 DEF LotsInv
    <2>2. \A l1 \in Lots : lots'[l1].status = "OPEN" => lots'[l1].count < Capacity
      BY <2>1 DEF JoinInv
    <2>3. \A i \in Cheques : adding'[i].found =>
            /\ rows'[i].lot = 0 /\ adding'[i].count < Capacity
            /\ adding'[i].lot # 0 => lots'[adding'[i].lot].status # "none"
      BY <2>1 DEF JoinInv
    <2>4. \A i \in Cheques : rows'[i].lot # 0 => lots'[rows'[i].lot].status # "none"
      BY <2>1 DEF JoinInv
    <2>5. \A l1 \in Lots : lots'[l1].status = "none" => lots'[l1].count = 0
      BY <2>1 DEF JoinInv
    <2> QED
      BY <2>2, <2>3, <2>4, <2>5 DEF JoinInv
  <1>11. FilingInv'
    <2> SUFFICES ASSUME late' = 0 PROVE (OrderInv /\ PresentedInv /\ MarkedInv)'
      BY DEF FilingInv
    <2>1. OrderInv /\ PresentedInv /\ MarkedInv
      BY <1>0 DEF LotsInv, FilingInv
    <2>2. OrderInv'
      BY <1>0, <1>2, <1>4, <2>1 DEF OrderInv, ClosedLot
    <2>3. PresentedInv'
      <3>1. ngch[l] = ChequesOf(l)
        BY <1>1, <2>1 DEF PresentedInv
      <3>2. ASSUME NEW i \in Cheques, rows'[i].filed PROVE rows'[i].lot \in Lots /\ i \in ngch'[rows'[i].lot]
        <4>1. CASE rows[i].filed
          BY <1>0, <1>5, <2>1, <4>1 DEF PresentedInv
        <4>2. CASE rows[i].lot = l
          BY <1>0, <1>5, <3>1, <4>2 DEF ChequesOf
        <4> QED
          BY <1>5, <3>2, <4>1, <4>2
      <3>3. \A u \in Sessions : sessions'[u].filed = sessions[u].filed
        BY <1>2, <1>4
      <3> QED
        BY <1>0, <1>6, <2>1, <3>2, <3>3 DEF PresentedInv
    <2>4. MarkedInv'
      <3>1. \A k : AllFiled(k) => AllFiled(k)'
        BY <1>5 DEF AllFiled
      <3>2. AllFiled(l)'
        BY <1>5 DEF AllFiled
      <3>3. /\ r.step = "rows" => \A k \in r.filed \ r.todo : AllFiled(k)'
            /\ r.step # "end"
            /\ r.outcome = "SUBMITTED" => \A k \in r.picked : AllFiled(k)'
        <4>1. MarkedAll(sessions[t])
          BY <2>1 DEF MarkedInv
        <4>2. \A k \in r.filed \ r.todo : k = l \/ k \in sessions[t].filed \ sessions[t].todo
          BY <1>2
        <4>3. /\ sessions[t].step = "rows" => \A k \in sessions[t].filed \ sessions[t].todo : AllFiled(k)
              /\ sessions[t].outcome = "SUBMITTED" => \A k \in sessions[t].picked : AllFiled(k)
          BY <4>1 DEF MarkedAll
        <4> QED
          BY <1>0, <1>1, <1>2, <3>1, <3>2, <4>2, <4>3
      <3> QED
        BY <1>4, <2>1, <3>1, <3>3 DEF MarkedInv, MarkedAll
    <2> QED
      BY <2>2, <2>3, <2>4
  <1>12. CountsCheques'
    BY <1>0, <1>6 DEF LotsInv, CountsCheques
  <1> QED
    BY <1>7, <1>8, <1>9, <1>10, <1>11, <1>12 DEF LotsInv

Readings == [found : BOOLEAN, lot : Lots \cup {0}, count : 0..Capacity]

\* What a transaction may remember of the open lot it has found.
SoundReading(i, a) ==
  /\ a \in Readings
  /\ a.found => rows[i].lot = 0 /\ a.count < Capacity
  /\ a.found /\ a.lot # 0 => lots[a.lot].status # "none"

LEMMA FoundIsSound == ASSUME LotsInv, NEW i \in Cheques, FindsOpenLot(i)
                      PROVE \E a : adding' = [adding EXCEPT ![i] = a] /\ SoundReading(i, a)
  <1>1. CASE adding' = [adding EXCEPT ![i] = [found |-> TRUE, lot |-> 0, count |-> 0]]
    <2>1. SoundReading(i, [found |-> TRUE, lot |-> 0, count |-> 0])
      BY LotsAssumption DEF FindsOpenLot, SoundReading, Readings
    <2> QED
      BY <1>1, <2>1
  <1>2. ASSUME NEW l \in OpenLots(lots),
               adding' = [adding EXCEPT ![i] = [found |-> TRUE, lot |-> l, count |-> lots[l].count]]
        PROVE  \E a : adding' = [adding EXCEPT ![i] = a] /\ SoundReading(i, a)
    <2>1. l \in Lots /\ lots[l].status = "OPEN"
      BY DEF OpenLots
    <2>2. lots[l] \in LotRecords
      BY <2>1, Shapes
    <2>3. lots[l].count \in 0..Capacity /\ lots[l].count < Capacity
      BY <2>1, <2>2 DEF LotsInv, JoinInv, LotRecords
    <2>4. l # 0 /\ rows[i].lot = 0
      BY <2>1 DEF FindsOpenLot, Lots
    <2>5. SoundReading(i, [found |-> TRUE, lot |-> l, count |-> lots[l].count])
      BY <2>1, <2>3, <2>4 DEF SoundReading, Readings
    <2> QED
      BY <1>2, <2>5
  <1> QED
    BY <1>1, <1>2 DEF FindsOpenLot

LEMMA LooksStep == ASSUME LotsInv, NEW i \in Cheques, FindsOpenLot(i) \/ Aborts(i) PROVE LotsInv'
  <1>1. UNCHANGED <<lots, rows, sealing, endorsing, orders, sessions, submissions, ngch, late, lotFaults>>
    BY DEF FindsOpenLot, Aborts, staffVars, filingVars
  <1>2. PICK a : adding' = [adding EXCEPT ![i] = a] /\ SoundReading(i, a)
    <2>1. CASE Aborts(i)
      <3>1. SoundReading(i, NoRead)
        BY LotsAssumption DEF SoundReading, Readings, NoRead
      <3> QED
        BY <2>1, <3>1 DEF Aborts
    <2> QED
      BY <2>1, FoundIsSound
  <1>3. /\ adding' \in [Cheques -> Readings]
        /\ adding'[i] = a /\ \A j \in Cheques \ {i} : adding'[j] = adding[j]
    <2>1. adding \in [Cheques -> Readings] /\ a \in Readings
      BY <1>2 DEF LotsInv, LotsTypeOK, SoundReading, Readings
    <2> QED
      BY <1>2, <2>1
  <1>4. LotsTypeOK'
    BY <1>1, <1>3 DEF LotsInv, LotsTypeOK, Readings
  <1>5. JoinInv'
    BY <1>1, <1>2, <1>3 DEF LotsInv, JoinInv, SoundReading
  <1>6. ChildInv' /\ SessionInv' /\ CountsCheques'
    BY <1>1 DEF LotsInv, ChildInv, SessionInv, CountsCheques, Submitting, ChequesOf
  <1>7. FilingInv'
    BY <1>1 DEF LotsInv, FilingInv, OrderInv, PresentedInv, MarkedInv, MarkedAll, ClosedLot, AllFiled, ChequesOf
  <1> QED
    BY <1>4, <1>5, <1>6, <1>7 DEF LotsInv

LEMMA LotsStep == LotsInv /\ [LotsNext]_lotVars => LotsInv'
  <1> SUFFICES ASSUME LotsInv, [LotsNext]_lotVars PROVE LotsInv'
    OBVIOUS
  <1>1. ASSUME NEW i \in Cheques, FindsOpenLot(i) \/ Persists(i) \/ Aborts(i) PROVE LotsInv'
    BY <1>1, LooksStep, PersistsStep
  <1>2. ASSUME NEW l \in Lots, FindsUnsealed(l) \/ Seals(l) \/ endorse_batch(l) \/ update_lot_status(l)
        PROVE  LotsInv'
    BY <1>2, StaffStep
  <1>3. ASSUME NEW t \in Sessions, submit_clearing_session(t) \/ GoesOn(t) \/ SessionFails(t) PROVE LotsInv'
    BY <1>3, SessionStep DEF SessionMoves, GoesOn
  <1>4. ASSUME NEW l \in Lots, Submits(l) \/ SubmissionFails(l) PROVE LotsInv'
    BY <1>4, BuildStep, SubmitStep, EndStep DEF Submits
  <1>5. ASSUME NEW t \in Sessions, NEW l \in Lots, WithLot(t, l) PROVE LotsInv'
    BY <1>5, StartsStep, MarksStep DEF WithLot
  <1>6. CASE UNCHANGED lotVars
    <2>1. /\ LotsTypeOK' /\ ChildInv' /\ SessionInv' /\ JoinInv' /\ CountsCheques'
      BY <1>6 DEF lotVars, LotsInv, LotsTypeOK, ChildInv, SessionInv, JoinInv, CountsCheques, Submitting, ChequesOf
    <2>2. FilingInv'
      BY <1>6 DEF lotVars, LotsInv, FilingInv, OrderInv, PresentedInv, MarkedInv, MarkedAll,
                  ClosedLot, AllFiled, ChequesOf
    <2> QED
      BY <2>1, <2>2 DEF LotsInv
  <1> QED
    BY <1>1, <1>2, <1>3, <1>4, <1>5, <1>6 DEF LotsNext

LEMMA LotsAlwaysInv == LotsSpec => []LotsInv
  BY LotsInitInv, LotsStep, PTL DEF LotsSpec

\* Lots, cheques, sessions and filings keep their shape, whatever fails and whoever is
\* late (db_lots.py, clearing_session_workflow.py).
THEOREM LotsTypeCorrect == LotsSpec => []LotsTypeOK
  <1>1. LotsInv => LotsTypeOK
    BY DEF LotsInv
  <1> QED
    BY <1>1, LotsAlwaysInv, PTL

\* While cheques and endorsements wait for the seal, a cheque marked as filed is in the
\* file the clearing house took, and a session that calls itself SUBMITTED has filed all
\* cheques of its lots, however many sessions race (mark_lots_submitted).
THEOREM FiledWasPresented == LotsSpec => []FiledIsPresented
  <1>1. LotsInv => FiledIsPresented
    <2> SUFFICES ASSUME LotsInv, late = 0
                 PROVE  /\ \A i \in Cheques : rows[i].filed => i \in ngch[rows[i].lot]
                        /\ \A t \in Sessions : sessions[t].outcome = "SUBMITTED" =>
                             \A i \in Cheques : rows[i].lot \in sessions[t].picked => rows[i].filed
      BY DEF FiledIsPresented
    <2> QED
      BY DEF LotsInv, FilingInv, PresentedInv, MarkedInv, MarkedAll, AllFiled
  <1> QED
    BY <1>1, LotsAlwaysInv, PTL

\* And a lot's count is the number of its cheques, or, in a lot sealed as full, one more
\* (ensure_open_lot).
THEOREM LotsCountTheirCheques == LotsSpec => []CountsCheques
  <1>1. LotsInv => CountsCheques
    BY DEF LotsInv
  <1> QED
    BY <1>1, LotsAlwaysInv, PTL

\* A file holds cheques of its lot and a cheque never leaves its lot, so that two lots
\* have no cheque in common.  This needs no order of the seal.
FilesInv == \A l \in Lots : ngch[l] \cup submissions[l].file \subseteq ChequesOf(l)

LEMMA FilesStep ==
  LotsInv /\ FilesInv /\ [LotsNext]_lotVars => FilesInv'
  <1> SUFFICES ASSUME LotsInv, FilesInv, [LotsNext]_lotVars PROVE FilesInv'
    OBVIOUS
  <1>1. /\ rows \in [Cheques -> [lot : Lots \cup {0}, filed : BOOLEAN]]
        /\ ngch \in [Lots -> SUBSET Cheques]
        /\ submissions \in [Lots -> [step : {"idle", "build", "submit", "confirm"},
                               by : Sessions \cup {"none"}, file : SUBSET Cheques, ref : BOOLEAN]]
    BY DEF LotsInv, LotsTypeOK
  <1>2. ASSUME \A l \in Lots : ChequesOf(l) \subseteq ChequesOf(l)',
               \A l \in Lots : ngch'[l] \subseteq ngch[l] \cup submissions[l].file,
               \A l \in Lots : submissions'[l].file \subseteq submissions[l].file \cup ChequesOf(l)
        PROVE  FilesInv'
    BY <1>2 DEF FilesInv
  <1>3. ASSUME UNCHANGED rows PROVE \A l \in Lots : ChequesOf(l)' = ChequesOf(l)
    BY <1>3 DEF ChequesOf
  <1>4. ASSUME NEW i \in Cheques, Persists(i) PROVE FilesInv'
    <2>1. PICK l \in Lots : Joined(i, l)
      BY <1>4, JoinsLot
    <2>2. rows[i].lot = 0 /\ 0 \notin Lots
      BY <1>4 DEF LotsInv, JoinInv, Persists, Lots
    <2>3. \A k \in Lots : ChequesOf(k) \subseteq ChequesOf(k)'
      BY <1>1, <2>1, <2>2 DEF Joined, ChequesOf
    <2>4. UNCHANGED <<submissions, ngch>>
      BY <1>4 DEF Persists, filingVars
    <2> QED
      BY <1>2, <2>3, <2>4
  <1>5. ASSUME NEW l \in Lots, build_ngch_file(l) PROVE FilesInv'
    <2>1. /\ UNCHANGED <<rows, ngch>>
          /\ submissions' = [submissions EXCEPT ![l].step = "submit", ![l].file = ChequesOf(l)]
      BY <1>5 DEF build_ngch_file
    <2>2. \A k \in Lots : submissions'[k].file \subseteq submissions[k].file \cup ChequesOf(k)
      BY <1>1, <2>1
    <2> QED
      BY <1>2, <1>3, <2>1, <2>2
  <1>6. ASSUME NEW l \in Lots, submit_to_ngch(l) PROVE FilesInv'
    <2>1. UNCHANGED rows
      BY <1>6 DEF submit_to_ngch
    <2>2. \A k \in Lots : ngch'[k] \subseteq ngch[k] \cup submissions[k].file
      BY <1>1, <1>6 DEF submit_to_ngch, Takes
    <2>3. \A k \in Lots : submissions'[k].file = submissions[k].file
      BY <1>1, <1>6 DEF submit_to_ngch
    <2> QED
      BY <1>2, <1>3, <2>1, <2>2, <2>3
  <1>7. ASSUME NEW l \in Lots, confirm_acknowledgement(l) \/ SubmissionFails(l) PROVE FilesInv'
    <2>1. UNCHANGED <<rows, ngch>> /\ submissions' = [submissions EXCEPT ![l] = NoFile]
      BY <1>7 DEF confirm_acknowledgement, SubmissionFails, Reports
    <2>2. \A k \in Lots : submissions'[k].file \subseteq submissions[k].file
      BY <1>1, <2>1 DEF NoFile
    <2> QED
      BY <1>2, <1>3, <2>1, <2>2
  <1>8. ASSUME NEW t \in Sessions, NEW l \in Lots, StartsChild(t, l) PROVE FilesInv'
    <2>1. UNCHANGED <<rows, ngch>>
      BY <1>8 DEF StartsChild
    <2>2. \A k \in Lots : submissions'[k].file \subseteq submissions[k].file
      BY <1>1, <1>8 DEF StartsChild, NoFile
    <2> QED
      BY <1>2, <1>3, <2>1, <2>2
  <1>9. ASSUME NEW t \in Sessions, NEW l \in Lots, MarksCheques(t, l) PROVE FilesInv'
    <2>1. UNCHANGED <<submissions, ngch>>
      BY <1>9 DEF MarksCheques
    <2>2. \A k \in Lots : ChequesOf(k)' = ChequesOf(k)
      BY <1>1, <1>9 DEF MarksCheques, ChequesOf
    <2> QED
      BY <1>2, <2>1, <2>2
  <1>10. ASSUME UNCHANGED <<rows, submissions, ngch>> PROVE FilesInv'
    BY <1>2, <1>3, <1>10
  <1>11. ASSUME NEW i \in Cheques, FindsOpenLot(i) \/ Aborts(i) PROVE FilesInv'
    BY <1>10, <1>11 DEF FindsOpenLot, Aborts, filingVars
  <1>12. ASSUME NEW l \in Lots, FindsUnsealed(l) \/ Seals(l) \/ endorse_batch(l) \/ update_lot_status(l)
         PROVE  FilesInv'
    BY <1>10, <1>12 DEF FindsUnsealed, Seals, endorse_batch, update_lot_status, filingVars
  <1>13. ASSUME NEW t \in Sessions, submit_clearing_session(t) \/ GoesOn(t) \/ SessionFails(t)
         PROVE  FilesInv'
    BY <1>10, <1>13 DEF submit_clearing_session, GoesOn, SessionFails, seal_all_lots, FilesAll,
                        MarksLots, MarksAll, update_session_status
  <1>14. CASE UNCHANGED lotVars
    BY <1>10, <1>14 DEF lotVars
  <1> QED
    BY <1>4, <1>5, <1>6, <1>7, <1>8, <1>9, <1>11, <1>12, <1>13, <1>14 DEF LotsNext, Submits, WithLot

\* No cheque is presented in two lots' files, nor about to be, however late cheques and
\* endorsements are; and what is marked was presented (build_ngch_file, submit_to_ngch).
THEOREM PresentedRightly == LotsSpec => []PresentedRight
  <1>1. LotsInit => FilesInv
    BY DEF LotsInit, FilesInv, NoFile
  <1>2. FilesInv => PresentedOnce
    BY DEF FilesInv, PresentedOnce, ChequesOf
  <1>3. FiledIsPresented /\ PresentedOnce => PresentedRight
    BY DEF PresentedRight
  <1> QED
    BY <1>1, <1>2, <1>3, FilesStep, LotsAlwaysInv, FiledWasPresented, PTL DEF LotsSpec
=============================================================================
