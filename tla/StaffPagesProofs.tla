------------------------- MODULE StaffPagesProofs -------------------------
(***************************************************************************)
(* The safety of the staff's pages with their servers, for any number of   *)
(* cheques, originals, changes, services, buckets and holds: the           *)
(* invariants of the parts, and that a page that is open disturbs none of  *)
(* the others.                                                             *)
(***************************************************************************)
EXTENDS StaffPages, CustodyProofs, FiniteSetTheorems

(***************************************************************************)
(* The review queue: every way to an item leads through held.              *)
(***************************************************************************)
HeldInv ==
  /\ \A i \in Items : desk.holder[i] = Me => i \in held
  /\ list.mine \subseteq held
  /\ \A d \in Dialogs : dialogs[d] # None => dialogs[d] \in held

ReviewInv == ReviewTypeOK /\ HeldInv /\ OnlyHeldItems

Desks == [running : SUBSET Items, open : SUBSET Items, ended : SUBSET Items,
          holder : [Items -> People \cup {None}]]
Lists == [items : SUBSET Items, mine : SUBSET Items, taken : SUBSET Items]

LEMMA MeIsSomebody == Me # None /\ Other # None /\ Me # Other
  <1>1. Cardinality({Me, Other, None}) = 3
    BY PeopleAssumption
  <1>2. ASSUME NEW a, NEW b PROVE Cardinality({a, b}) # 3
    <2>1. Cardinality({a}) = 1 /\ IsFiniteSet({a})
      BY FS_Singleton
    <2>2. Cardinality({a} \cup {b}) = IF b \in {a} THEN Cardinality({a}) ELSE Cardinality({a}) + 1
      BY <2>1, FS_AddElement
    <2>3. {a} \cup {b} = {a, b}
      OBVIOUS
    <2>4. Cardinality({a, b}) \in {1, 2}
      BY <2>1, <2>2, <2>3
    <2> QED
      BY <2>4
  <1>3. ASSUME Me = None PROVE FALSE
    <2>1. {Me, Other, None} = {Me, Other}
      BY <1>3
    <2> QED
      BY <1>1, <1>2, <2>1
  <1>4. ASSUME Other = None PROVE FALSE
    <2>1. {Me, Other, None} = {Me, Other}
      BY <1>4
    <2> QED
      BY <1>1, <1>2, <2>1
  <1>5. ASSUME Me = Other PROVE FALSE
    <2>1. {Me, Other, None} = {Me, None}
      BY <1>5
    <2> QED
      BY <1>1, <1>2, <2>1
  <1> QED
    BY <1>3, <1>4, <1>5

LEMMA ReviewInitInv == ReviewInit => ReviewInv
  <1> SUFFICES ASSUME ReviewInit PROVE ReviewInv
    OBVIOUS
  <1>1. Cardinality(Items) \in Nat
    BY ItemsAreNumbers, FS_CardinalityType
  <1>2. ReviewTypeOK
    BY <1>1 DEF ReviewInit, ReviewTypeOK, Blank, Nobody
  <1>3. HeldInv /\ OnlyHeldItems
    BY MeIsSomebody DEF ReviewInit, HeldInv, OnlyHeldItems, Blank, Nobody
  <1> QED
    BY <1>2, <1>3 DEF ReviewInv

\* What the reviewer does on the screen.
LEMMA ScreenKeeps ==
  ASSUME ReviewInv,
         \/ Refresh \/ EnterFocus \/ Arrow \/ Escape
         \/ \E i \in Items : handleClaim(i) \/ handleConfirm(i)
                             \/ \E d \in Dialogs : OpenDialog(d, i)
         \/ \E d \in Dialogs : ConfirmDialog(d) \/ CancelDialog(d)
  PROVE  ReviewInv'
  <1> USE DEF ReviewInv
  <1>f. Cardinality(Items) \in Nat
    BY ItemsAreNumbers, FS_CardinalityType
  <1>1. CASE Refresh
    <2>1. Queue \in Lists /\ Queue.mine = {i \in desk.running : desk.holder[i] = Me}
      BY DEF Queue, Lists, ReviewTypeOK
    <2>2. ReviewTypeOK'
      BY <1>1, <2>1 DEF Refresh, ReviewTypeOK, Lists
    <2>3. HeldInv' /\ OnlyHeldItems'
      BY <1>1, <2>1 DEF Refresh, HeldInv, OnlyHeldItems, ReviewTypeOK
    <2> QED
      BY <2>2, <2>3
  <1>2. CASE EnterFocus \/ Escape
    <2>1. focus' \in [on : BOOLEAN, at : -1..Cardinality(Items)]
      <3>1. focus \in [on : BOOLEAN, at : -1..Cardinality(Items)]
        BY DEF ReviewTypeOK
      <3>2. 0 \in -1..Cardinality(Items)
        BY <1>f
      <3>3. CASE focus' = [on |-> TRUE, at |-> 0]
        BY <3>2, <3>3
      <3>4. CASE focus' = [focus EXCEPT !.on = FALSE]
        BY <3>1, <3>4
      <3> QED
        BY <1>2, <3>3, <3>4 DEF EnterFocus, Escape
    <2>2. UNCHANGED <<desk, list, dialogs, posts, held>>
      BY <1>2 DEF EnterFocus, Escape
    <2> QED
      BY <2>1, <2>2 DEF ReviewTypeOK, HeldInv, OnlyHeldItems
  <1>3. CASE Arrow
    <2> DEFINE last == Cardinality(list.items) - 1
    <2>1. last \in -1..Cardinality(Items)
      <3>1. list.items \subseteq Items
        BY DEF ReviewTypeOK
      <3>2. Cardinality(list.items) \in Nat /\ Cardinality(list.items) <= Cardinality(Items)
        BY <3>1, ItemsAreNumbers, FS_Subset, FS_CardinalityType
      <3> QED
        BY <1>f, <3>2
    <2>2. PICK at \in {IF focus.at + 1 < last THEN focus.at + 1 ELSE last,
                       IF focus.at > 1 THEN focus.at - 1 ELSE 0} :
            focus' = [focus EXCEPT !.at = at]
      BY <1>3 DEF Arrow
    <2> HIDE DEF last
    <2>3. focus.at \in -1..Cardinality(Items)
      BY DEF ReviewTypeOK
    <2>4. at \in -1..Cardinality(Items)
      BY <1>f, <2>1, <2>2, <2>3
    <2>5. UNCHANGED <<desk, list, dialogs, posts, held>>
      BY <1>3 DEF Arrow
    <2> QED
      BY <2>2, <2>4, <2>5 DEF ReviewTypeOK, HeldInv, OnlyHeldItems
  <1>4. ASSUME NEW i \in Items, handleClaim(i) \/ handleConfirm(i) PROVE ReviewInv'
    <2>1. UNCHANGED <<desk, list, focus, dialogs, held>>
      BY <1>4 DEF handleClaim, handleConfirm
    <2>2. PICK op \in {"claim", "confirm"} :
            posts' = posts \cup {[op |-> op, item |-> i]} /\ (op = "confirm" => i \in list.mine)
      BY <1>4 DEF handleClaim, handleConfirm, apiPost, MineToWork
    <2>3. ReviewTypeOK' /\ HeldInv'
      BY <2>1, <2>2 DEF ReviewTypeOK, HeldInv, Operations
    <2>4. OnlyHeldItems'
      BY <2>1, <2>2 DEF OnlyHeldItems, HeldInv
    <2> QED
      BY <2>3, <2>4
  <1>5. ASSUME NEW d \in Dialogs, NEW i \in Items, OpenDialog(d, i) PROVE ReviewInv'
    <2>1. UNCHANGED <<desk, list, focus, posts, held>> /\ i \in list.mine
          /\ dialogs' = [dialogs EXCEPT ![d] = i]
      BY <1>5 DEF OpenDialog, MineToWork
    <2> QED
      BY <2>1 DEF ReviewTypeOK, HeldInv, OnlyHeldItems
  <1>6. ASSUME NEW d \in Dialogs, ConfirmDialog(d) PROVE ReviewInv'
    <2>1. /\ UNCHANGED <<desk, list, focus, held>> /\ dialogs[d] # None
          /\ dialogs' = [dialogs EXCEPT ![d] = None]
          /\ posts' = posts \cup {[op |-> d, item |-> dialogs[d]]}
      BY <1>6 DEF ConfirmDialog, apiPost
    <2>2. dialogs[d] \in Items /\ dialogs[d] \in held
      BY <2>1 DEF ReviewTypeOK, HeldInv
    <2>3. ReviewTypeOK' /\ HeldInv'
      BY <2>1, <2>2 DEF ReviewTypeOK, HeldInv, Operations
    <2>4. OnlyHeldItems'
      BY <2>1, <2>2 DEF OnlyHeldItems
    <2> QED
      BY <2>3, <2>4
  <1>7. ASSUME NEW d \in Dialogs, CancelDialog(d) PROVE ReviewInv'
    BY <1>7 DEF CancelDialog, ReviewTypeOK, HeldInv, OnlyHeldItems
  <1> QED
    BY <1>1, <1>2, <1>3, <1>4, <1>5, <1>6, <1>7

\* What the server grants: only a claim makes an item the reviewer's.
LEMMA ServeKeeps ==
  ASSUME ReviewInv, NEW q \in posts, Serve(q)
  PROVE  ReviewInv'
  <1> USE DEF ReviewInv
  <1>1. q.item \in Items /\ desk \in Desks /\ held \subseteq Items
    BY DEF ReviewTypeOK, Desks
  <1>2. UNCHANGED <<list, focus, dialogs>> /\ posts' = posts \ {q}
    BY DEF Serve
  <1>3. CASE desk' = desk /\ (held' = held \/ held' = held \cup {q.item})
    <2>1. ReviewTypeOK'
      BY <1>1, <1>2, <1>3 DEF ReviewTypeOK
    <2>2. HeldInv' /\ OnlyHeldItems'
      BY <1>2, <1>3 DEF HeldInv, OnlyHeldItems
    <2> QED
      BY <2>1, <2>2
  <1>4. CASE Grants(q) /\ q.op = "claim"
    <2>1. held' = held \cup {q.item} /\ desk' = [desk EXCEPT !.holder[q.item] = Me]
      BY <1>4 DEF Serve, Effect
    <2>2. desk' \in Desks /\ \A i \in Items : i # q.item => desk'.holder[i] = desk.holder[i]
      BY <1>1, <2>1 DEF Desks, People
    <2>3. ReviewTypeOK'
      BY <1>1, <1>2, <2>1, <2>2 DEF ReviewTypeOK, Desks
    <2>4. HeldInv' /\ OnlyHeldItems'
      BY <1>2, <2>1, <2>2 DEF HeldInv, OnlyHeldItems
    <2> QED
      BY <2>3, <2>4
  <1>5. CASE Grants(q) /\ q.op # "claim"
    <2>1. held' = held
      BY <1>5 DEF Serve
    <2>2. desk' \in Desks /\ \A i \in Items : desk'.holder[i] \in {desk.holder[i], None}
      <3>1. desk' = Effect(q)
        BY <1>5 DEF Serve
      <3>2. CASE q.op \in {"confirm", "return"}
        <4>1. desk' = [desk EXCEPT !.open = @ \ {q.item}, !.holder[q.item] = None]
          BY <3>1, <3>2 DEF Effect
        <4> QED
          BY <1>1, <4>1 DEF Desks
      <3>3. CASE q.op = "release"
        <4>1. desk' = [desk EXCEPT !.holder[q.item] = IF @ = Me THEN None ELSE @]
          BY <3>1, <3>3 DEF Effect
        <4> QED
          BY <1>1, <4>1 DEF Desks
      <3>4. CASE q.op \notin {"claim", "confirm", "return", "release"}
        <4>1. desk' = desk
          BY <3>1, <3>4 DEF Effect
        <4> QED
          BY <1>1, <4>1
      <3> QED
        BY <1>5, <3>2, <3>3, <3>4
    <2>3. ReviewTypeOK'
      BY <1>2, <2>1, <2>2 DEF ReviewTypeOK, Desks
    <2>4. HeldInv' /\ OnlyHeldItems'
      BY <1>2, <2>1, <2>2, MeIsSomebody DEF HeldInv, OnlyHeldItems
    <2> QED
      BY <2>3, <2>4
  <1> QED
    BY <1>3, <1>4, <1>5 DEF Serve

LEMMA OthersKeep ==
  ASSUME ReviewInv, NEW i \in Items, Arrives(i) \/ OtherWorks(i) \/ Closes(i)
  PROVE  ReviewInv'
  <1> USE DEF ReviewInv
  <1>1. UNCHANGED <<list, focus, dialogs, posts>> /\ desk \in Desks
    BY DEF Arrives, OtherWorks, Closes, ReviewTypeOK, Desks
  <1>2. CASE Arrives(i) \/ Closes(i)
    <2>1. desk' \in Desks /\ desk'.holder = desk.holder /\ held' = held
      <3>1. CASE desk' = [desk EXCEPT !.running = @ \cup {i}, !.open = @ \cup {i}] /\ held' = held
        BY <1>1, <3>1 DEF Desks
      <3>2. CASE desk' = [desk EXCEPT !.running = @ \ {i}, !.ended = @ \cup {i}] /\ held' = held
        BY <1>1, <3>2 DEF Desks
      <3> QED
        BY <1>2, <3>1, <3>2 DEF Arrives, Closes
    <2> QED
      BY <1>1, <2>1 DEF ReviewTypeOK, Desks, HeldInv, OnlyHeldItems
  <1>3. CASE OtherWorks(i)
    <2>1. held' = held \cup {j \in Items : desk'.holder[j] = Me}
      BY <1>3 DEF OtherWorks
    <2>2. desk' \in Desks
      <3>1. CASE \E r \in People : desk' = [desk EXCEPT !.holder[i] = r]
        BY <1>1, <3>1 DEF Desks
      <3>2. CASE desk' = [desk EXCEPT !.open = @ \ {i}, !.holder[i] = None]
        BY <1>1, <3>2 DEF Desks
      <3>3. CASE desk' = [desk EXCEPT !.holder[i] = None]
        BY <1>1, <3>3 DEF Desks
      <3> QED
        BY <1>3, <3>1, <3>2, <3>3 DEF OtherWorks
    <2>3. ReviewTypeOK'
      BY <1>1, <2>1, <2>2 DEF ReviewTypeOK, Desks
    <2>4. HeldInv' /\ OnlyHeldItems'
      BY <1>1, <2>1 DEF HeldInv, OnlyHeldItems
    <2> QED
      BY <2>3, <2>4
  <1> QED
    BY <1>2, <1>3

LEMMA ReviewStepInv == ReviewInv /\ [ReviewNext]_reviewVars => ReviewInv'
  <1> SUFFICES ASSUME ReviewInv, [ReviewNext]_reviewVars PROVE ReviewInv'
    OBVIOUS
  <1>1. CASE UNCHANGED reviewVars
    BY <1>1 DEF reviewVars, ReviewInv, ReviewTypeOK, HeldInv, OnlyHeldItems
  <1>2. ASSUME NEW i \in Items, Arrives(i) \/ OtherWorks(i) \/ Closes(i) PROVE ReviewInv'
    BY <1>2, OthersKeep
  <1>3. ASSUME NEW q \in posts, Serve(q) PROVE ReviewInv'
    BY <1>3, ServeKeeps
  <1> QED
    BY <1>1, <1>2, <1>3, ScreenKeeps DEF ReviewNext

(***************************************************************************)
(* Changes of a setting: a transaction that approves one has found it      *)
(* waiting, keeps it waiting until it commits, and is alone.               *)
(***************************************************************************)
InTransaction(p) == approval[p].step \in {"audit", "commit"}

ApprovalInv ==
  /\ \A p \in People : InTransaction(p) =>
       /\ approval[p].change \in Changes
       /\ Pending(approval[p].change) /\ change[approval[p].change].by # p
  /\ \A p \in People : approval[p].step = "late" => approval[p].change \in Changes
  /\ \A p \in People : approval[p].step = "commit" => Entry(approval[p].change, p) \in audit
  /\ \A p \in People, q \in People : InTransaction(p) /\ InTransaction(q) => p = q

ConfigInv == ConfigTypeOK /\ ApprovalInv /\ InForceIsApproved

ChangeRows == [Changes -> [status : {"none", "PENDING_APPROVAL", "APPROVED", "REJECTED"},
                           by : People \cup {None}, actioned : People \cup {None}]]
Approvals  == [People -> [step : {"idle", "audit", "commit", "late"}, change : Changes \cup {None}]]

LEMMA ConfigInitInv == ConfigInit => ConfigInv
  <1> SUFFICES ASSUME ConfigInit PROVE ConfigInv
    OBVIOUS
  <1>1. ConfigTypeOK
    BY FaultsAssumption DEF ConfigInit, ConfigTypeOK, NoApproval, Absent, NoRead
  <1>2. ApprovalInv /\ InForceIsApproved
    BY DEF ConfigInit, ApprovalInv, InTransaction, InForceIsApproved, NoApproval
  <1> QED
    BY <1>1, <1>2 DEF ConfigInv

LEMMA FaultIsCounted == ASSUME ConfigInv, Fault PROVE faults' \in 0..MaxFaults
  BY FaultsAssumption DEF ConfigInv, ConfigTypeOK, Fault

\* Proposing and rejecting keep away from the changes that are approved or in a transaction.
LEMMA RowsKeep ==
  ASSUME ConfigInv, NEW c \in Changes, NEW p \in People,
         submit_threshold_change(c, p) \/ reject_threshold_change(c, p)
  PROVE  ConfigInv' /\ \A d \in Changes : change[d].status \in {"APPROVED", "REJECTED"} =>
                                            change'[d] = change[d]
  <1> USE DEF ConfigInv
  <1>1. UNCHANGED <<value, approval, audit, cache, reads>> /\ change \in ChangeRows
    BY DEF submit_threshold_change, reject_threshold_change, readPath, ConfigTypeOK, ChangeRows
  <1>2. faults' \in 0..MaxFaults
    <2> HIDE DEF ConfigInv
    <2>1. faults \in 0..MaxFaults
      BY DEF ConfigInv, ConfigTypeOK
    <2> QED
      BY <2>1, FaultIsCounted DEF submit_threshold_change, reject_threshold_change
  <1>3. change' \in ChangeRows /\ \A d \in Changes : d # c => change'[d] = change[d]
    <2>1. CASE change' = change
      BY <1>1, <2>1
    <2>2. CASE change' = [change EXCEPT ![c] = [status |-> "PENDING_APPROVAL", by |-> p, actioned |-> None]]
      BY <1>1, <2>2 DEF ChangeRows
    <2>3. CASE change' = [change EXCEPT ![c].status = "REJECTED", ![c].actioned = p]
      BY <1>1, <2>3 DEF ChangeRows
    <2> QED
      BY <2>1, <2>2, <2>3 DEF submit_threshold_change, reject_threshold_change
  <1>4. \/ change' = change
        \/ /\ change[c].status \in {"none", "PENDING_APPROVAL"}
           /\ \A q \in People : InTransaction(q) => approval[q].change # c
    BY DEF submit_threshold_change, reject_threshold_change, LockedBy, InTransaction, ApprovalInv, Pending
  <1>5. ConfigTypeOK'
    BY <1>1, <1>2, <1>3 DEF ConfigTypeOK, ChangeRows
  <1>6. ApprovalInv'
    BY <1>1, <1>3, <1>4 DEF ApprovalInv, InTransaction, Pending, Entry
  <1>7. InForceIsApproved'
    <2>1. ASSUME value # None PROVE change'[value] = change[value] /\ value \in Changes
      <3>1. value \in Changes /\ change[value].status = "APPROVED"
        BY <2>1 DEF ConfigTypeOK, InForceIsApproved
      <3> QED
        BY <1>3, <1>4, <3>1
    <2> QED
      BY <1>1, <2>1 DEF InForceIsApproved, Entry
  <1>8. \A d \in Changes : change[d].status \in {"APPROVED", "REJECTED"} => change'[d] = change[d]
    BY <1>3, <1>4
  <1> QED
    BY <1>5, <1>6, <1>7, <1>8

\* Reading the setting, and time, change neither the rows nor the approvals.
LEMMA ReadersKeep ==
  ASSUME ConfigInv, (\E r \in Readers : get(r) \/ setex(r)) \/ Expire \/ UNCHANGED configVars
  PROVE  ConfigInv' /\ UNCHANGED change
  <1> USE DEF ConfigInv
  <1>1. UNCHANGED <<change, value, approval, audit, faults>>
    BY DEF get, setex, Expire, configVars
  <1>2. /\ cache' \in [holds : BOOLEAN, value : Changes \cup {None}, ttl : BOOLEAN]
        /\ reads' \in [Readers -> [on : BOOLEAN, value : Changes \cup {None}]]
    <2>1. /\ cache \in [holds : BOOLEAN, value : Changes \cup {None}, ttl : BOOLEAN]
          /\ reads \in [Readers -> [on : BOOLEAN, value : Changes \cup {None}]]
          /\ value \in Changes \cup {None}
      BY DEF ConfigTypeOK
    <2>2. ASSUME NEW r \in Readers, get(r)
          PROVE  /\ cache' = cache
                 /\ reads' \in [Readers -> [on : BOOLEAN, value : Changes \cup {None}]]
      BY <2>1, <2>2 DEF get
    <2>3. ASSUME NEW r \in Readers, setex(r)
          PROVE  /\ cache' \in [holds : BOOLEAN, value : Changes \cup {None}, ttl : BOOLEAN]
                 /\ reads' \in [Readers -> [on : BOOLEAN, value : Changes \cup {None}]]
      <3>1. reads[r].value \in Changes \cup {None}
        BY <2>1
      <3>2. /\ cache' = [holds |-> TRUE, value |-> reads[r].value, ttl |-> TRUE]
            /\ reads' = [reads EXCEPT ![r] = [on |-> FALSE, value |-> None]]
        BY <2>3 DEF setex, NoRead
      <3>3. cache' \in [holds : BOOLEAN, value : Changes \cup {None}, ttl : BOOLEAN]
        BY <3>1, <3>2
      <3>4. reads' \in [Readers -> [on : BOOLEAN, value : Changes \cup {None}]]
        BY <2>1, <3>2
      <3> QED
        BY <3>3, <3>4
    <2>4. CASE Expire \/ UNCHANGED configVars
      <3>1. reads' = reads /\ cache' \in {cache, [holds |-> FALSE, value |-> None, ttl |-> TRUE]}
        BY <2>4 DEF Expire, Absent, configVars
      <3>2. [holds |-> FALSE, value |-> None, ttl |-> TRUE]
              \in [holds : BOOLEAN, value : Changes \cup {None}, ttl : BOOLEAN]
        OBVIOUS
      <3>3. cache' \in [holds : BOOLEAN, value : Changes \cup {None}, ttl : BOOLEAN]
        BY <2>1, <3>1, <3>2
      <3> QED
        BY <2>1, <3>1, <3>3
    <2> QED
      BY <2>1, <2>2, <2>3, <2>4
  <1>3. ConfigTypeOK'
    BY <1>1, <1>2 DEF ConfigTypeOK
  <1>4. ApprovalInv' /\ InForceIsApproved'
    BY <1>1 DEF ApprovalInv, InTransaction, Pending, Entry, InForceIsApproved
  <1> QED
    BY <1>1, <1>3, <1>4

\* An approval begins alone, on a change that waits and that somebody else proposed.
LEMMA ApproveKeeps ==
  ASSUME ConfigInv, NEW c \in Changes, NEW p \in People, approve_threshold_change(c, p)
  PROVE  ConfigInv' /\ UNCHANGED change
  <1> USE DEF ConfigInv
  <1>1. UNCHANGED <<change, value, audit, cache, reads>> /\ approval \in Approvals
    BY DEF approve_threshold_change, readPath, ConfigTypeOK, Approvals
  <1>2. faults' \in 0..MaxFaults
    <2> HIDE DEF ConfigInv
    <2>1. faults \in 0..MaxFaults
      BY DEF ConfigInv, ConfigTypeOK
    <2> QED
      BY <2>1, FaultIsCounted DEF approve_threshold_change
  <1>3. PICK step \in {"audit", "late"} :
          /\ approval' = [approval EXCEPT ![p] = [step |-> step, change |-> c]]
          /\ step = "audit" => Pending(c) /\ change[c].by # p
    BY DEF approve_threshold_change, Approvable
  <1>4. /\ approval' \in Approvals /\ approval'[p] = [step |-> step, change |-> c]
        /\ \A q \in People : q # p => approval'[q] = approval[q]
    BY <1>1, <1>3 DEF Approvals
  <1>5. \A q \in People : ~InTransaction(q)
    BY DEF approve_threshold_change, Locked, InTransaction
  <1>6. ConfigTypeOK'
    BY <1>1, <1>2, <1>4 DEF ConfigTypeOK, Approvals
  <1>7. ApprovalInv'
    <2>1. \A q \in People : InTransaction(q)' => q = p /\ step = "audit"
      BY <1>3, <1>4, <1>5 DEF InTransaction
    <2>2. \A q \in People : approval'[q].step # "commit"
      BY <1>4, <1>5 DEF InTransaction
    <2>3. \A q \in People : approval'[q].step = "late" => approval'[q].change \in Changes
      BY <1>4 DEF ApprovalInv
    <2> QED
      BY <1>1, <1>3, <1>4, <2>1, <2>2, <2>3 DEF ApprovalInv, Pending
  <1>8. InForceIsApproved'
    BY <1>1 DEF InForceIsApproved, Entry
  <1> QED
    BY <1>1, <1>6, <1>7, <1>8

\* The audit trail only grows, and a commit puts into force what it has the entry of.
LEMMA ApprovalsKeep ==
  ASSUME ConfigInv, NEW p \in People, Audit(p) \/ Commit(p) \/ AuditAndAnswer(p) \/ Crash(p)
  PROVE  ConfigInv' /\ \A d \in Changes : change[d].status \in {"APPROVED", "REJECTED"} =>
                                            change'[d] = change[d]
  <1> DEFINE c == approval[p].change
  <1>1. /\ UNCHANGED <<cache, reads>> /\ approval \in Approvals /\ change \in ChangeRows
        /\ audit \subseteq [approved : Changes, by : People] /\ value \in Changes \cup {None}
    BY DEF Audit, Commit, AuditAndAnswer, Crash, readPath, ConfigInv, ConfigTypeOK, Approvals, ChangeRows
  <1>2. faults' \in 0..MaxFaults
    <2>1. faults \in 0..MaxFaults
      BY DEF ConfigInv, ConfigTypeOK
    <2> QED
      BY <2>1, FaultIsCounted DEF Audit, Commit, AuditAndAnswer, Crash
  <1>3. \A step \in {"commit", "idle"}, d \in Changes \cup {None} :
          approval' = [approval EXCEPT ![p] = [step |-> step, change |-> d]] =>
            /\ approval' \in Approvals /\ approval'[p] = [step |-> step, change |-> d]
            /\ \A q \in People : q # p => approval'[q] = approval[q]
    BY <1>1 DEF Approvals
  <1>4. c \in Changes \cup {None}
    BY <1>1 DEF Approvals
  <1>5. CASE approval[p].step = "audit" /\ Goes(p, "commit") /\ audit' = audit \cup {Entry(c, p)}
             /\ UNCHANGED <<change, value>>
    <2>1. c \in Changes /\ Entry(c, p) \in [approved : Changes, by : People]
      BY <1>5 DEF ConfigInv, ApprovalInv, InTransaction, Entry
    <2>2. approval' = [approval EXCEPT ![p] = [step |-> "commit", change |-> c]]
      <3>1. approval[p] \in [step : {"idle", "audit", "commit", "late"}, change : Changes \cup {None}]
        BY <1>1 DEF Approvals
      <3>2. [approval[p] EXCEPT !.step = "commit"] = [step |-> "commit", change |-> approval[p].change]
        BY <3>1
      <3>3. approval' = [approval EXCEPT ![p] = [approval[p] EXCEPT !.step = "commit"]]
        BY <1>1, <1>5 DEF Goes, Approvals
      <3> QED
        BY <3>2, <3>3
    <2> HIDE DEF c
    <2>3. /\ approval' \in Approvals /\ approval'[p] = [step |-> "commit", change |-> c]
          /\ \A q \in People : q # p => approval'[q] = approval[q]
      BY <1>3, <1>4, <2>2
    <2>4. ConfigTypeOK'
      BY <1>1, <1>2, <1>5, <2>1, <2>3 DEF ConfigInv, ConfigTypeOK, Approvals
    <2>5. ApprovalInv'
      <3>1. \A q \in People : /\ InTransaction(q)' <=> InTransaction(q)
                              /\ approval'[q].change = approval[q].change
        BY <1>5, <2>3 DEF InTransaction, c
      <3>2. \A q \in People : approval'[q].step = "commit" => Entry(approval'[q].change, q) \in audit'
        BY <1>5, <2>3 DEF ConfigInv, ApprovalInv, Entry
      <3>3. \A q \in People : approval'[q].step = "late" => approval'[q].change \in Changes
        BY <2>3 DEF ConfigInv, ApprovalInv
      <3> QED
        BY <1>5, <3>1, <3>2, <3>3 DEF ConfigInv, ApprovalInv, Pending
    <2>6. InForceIsApproved'
      BY <1>5 DEF ConfigInv, InForceIsApproved, Entry
    <2> QED
      BY <1>5, <2>4, <2>5, <2>6 DEF ConfigInv
  <1>6. CASE Ends(p) /\ UNCHANGED <<change, value>>
             /\ (audit' = audit \/ (approval[p].step = "late" /\ audit' = audit \cup {Entry(c, p)}))
    <2>1. audit' \subseteq [approved : Changes, by : People] /\ audit \subseteq audit'
      BY <1>1, <1>6 DEF ConfigInv, ApprovalInv, Entry
    <2>2. /\ approval' \in Approvals /\ approval'[p] = [step |-> "idle", change |-> None]
          /\ \A q \in People : q # p => approval'[q] = approval[q]
      BY <1>3, <1>6 DEF Ends, NoApproval
    <2>3. ConfigTypeOK'
      BY <1>1, <1>2, <1>6, <2>1, <2>2 DEF ConfigInv, ConfigTypeOK, Approvals
    <2>4. ApprovalInv'
      BY <1>6, <2>1, <2>2 DEF ConfigInv, ApprovalInv, InTransaction, Pending, Entry
    <2>5. InForceIsApproved'
      BY <1>6, <2>1 DEF ConfigInv, InForceIsApproved, Entry
    <2> QED
      BY <1>6, <2>3, <2>4, <2>5 DEF ConfigInv
  <1>7. CASE approval[p].step = "commit" /\ Ends(p) /\ audit' = audit
             /\ change' = [change EXCEPT ![c].status = "APPROVED", ![c].actioned = p] /\ value' = c
    <2>1. c \in Changes /\ Pending(c) /\ change[c].by # p /\ Entry(c, p) \in audit
      BY <1>7 DEF ConfigInv, ApprovalInv, InTransaction
    <2>2. \A q \in People : q # p => ~InTransaction(q)
      BY <1>7 DEF ConfigInv, ApprovalInv, InTransaction
    <2> HIDE DEF c
    <2>3. /\ change' \in ChangeRows /\ \A d \in Changes : d # c => change'[d] = change[d]
          /\ change'[c].status = "APPROVED" /\ change'[c].actioned = p /\ change'[c].by = change[c].by
      BY <1>1, <1>7, <2>1 DEF ChangeRows
    <2>4. /\ approval' \in Approvals /\ approval'[p] = [step |-> "idle", change |-> None]
          /\ \A q \in People : q # p => approval'[q] = approval[q]
      BY <1>3, <1>7 DEF Ends, NoApproval
    <2>5. ConfigTypeOK'
      BY <1>1, <1>2, <1>7, <2>1, <2>3, <2>4 DEF ConfigInv, ConfigTypeOK, Approvals, ChangeRows
    <2>6. ApprovalInv'
      <3>1. \A q \in People : ~InTransaction(q)' /\ approval'[q].step # "commit"
        BY <2>2, <2>4 DEF InTransaction
      <3>2. \A q \in People : approval'[q].step = "late" => approval'[q].change \in Changes
        BY <2>4 DEF ConfigInv, ApprovalInv
      <3> QED
        BY <3>1, <3>2 DEF ApprovalInv
    <2>7. InForceIsApproved'
      <3>1. value' = c /\ audit' = audit
        BY <1>7 DEF c
      <3> QED
        BY <2>1, <2>3, <3>1 DEF InForceIsApproved, Entry
    <2>8. \A d \in Changes : change[d].status \in {"APPROVED", "REJECTED"} => change'[d] = change[d]
      BY <2>1, <2>3 DEF Pending
    <2> QED
      BY <2>5, <2>6, <2>7, <2>8 DEF ConfigInv
  <1> HIDE DEF c
  <1>8. Audit(p) => \/ /\ approval[p].step = "audit" /\ Goes(p, "commit")
                       /\ audit' = audit \cup {Entry(c, p)} /\ UNCHANGED <<change, value>>
                    \/ Ends(p) /\ UNCHANGED <<change, value>> /\ audit' = audit
    BY DEF Audit, c
  <1>9. AuditAndAnswer(p) \/ Crash(p) =>
          /\ Ends(p) /\ UNCHANGED <<change, value>>
          /\ audit' = audit \/ (approval[p].step = "late" /\ audit' = audit \cup {Entry(c, p)})
    <2>1. Crash(p) => Ends(p) /\ UNCHANGED <<change, value, audit>>
      BY DEF Crash
    <2>2. AuditAndAnswer(p) =>
            /\ Ends(p) /\ UNCHANGED <<change, value>> /\ approval[p].step = "late"
            /\ audit' = audit \/ audit' = audit \cup {Entry(c, p)}
      BY DEF AuditAndAnswer, c
    <2> QED
      BY <2>1, <2>2
  <1>10. Commit(p) =>
           /\ Ends(p) /\ audit' = audit
           /\ \/ UNCHANGED <<change, value>>
              \/ /\ approval[p].step = "commit" /\ value' = c
                 /\ change' = [change EXCEPT ![c].status = "APPROVED", ![c].actioned = p]
    BY DEF Commit, c
  <1> QED
    BY <1>5, <1>6, <1>7, <1>8, <1>9, <1>10

LEMMA ConfigStep ==
  ConfigInv /\ [ConfigNext]_configVars =>
    ConfigInv' /\ \A d \in Changes : change[d].status \in {"APPROVED", "REJECTED"} =>
                                       change'[d] = change[d]
  <1> SUFFICES ASSUME ConfigInv, [ConfigNext]_configVars
               PROVE  ConfigInv' /\ \A d \in Changes : change[d].status \in {"APPROVED", "REJECTED"} =>
                                                        change'[d] = change[d]
    OBVIOUS
  <1>1. CASE (\E r \in Readers : get(r) \/ setex(r)) \/ Expire \/ UNCHANGED configVars
    BY <1>1, ReadersKeep
  <1>2. ASSUME NEW c \in Changes, NEW p \in People, approve_threshold_change(c, p)
        PROVE  ConfigInv' /\ UNCHANGED change
    BY <1>2, ApproveKeeps
  <1> QED
    BY <1>1, <1>2, RowsKeep, ApprovalsKeep DEF ConfigNext

(***************************************************************************)
(* The shape of the pages of a setting.                                    *)
(***************************************************************************)
ShownInv == ConfigScreenTypeOK

LEMMA ShownInitInv == ConfigScreenInit => ShownInv
  BY DEF ConfigScreenInit, NewConfig, Values, ShownInv, ConfigScreenTypeOK, NotPending

Settings  == [inForce : Items \cup {None}, proposed : SUBSET Items, known : SUBSET Items]
Shows     == [shown : Values, editing : BOOLEAN, busy : BOOLEAN]
Drafts    == [shown : Values, draft : Values,
              pending : [change : Items \cup {None}, changeId : BOOLEAN], loaded : BOOLEAN]
Proposals == [change : Items, page : {SignedPage, PlainPage}]

\* A proposal adds to what the server was sent, and to its table or not.
LEMMA ProposeKeeps ==
  ASSUME setting \in Settings, NEW c \in Items, Propose(c)
  PROVE  setting' \in Settings
  <1>1. PICK added \in {{c}, {}} :
          setting' = [setting EXCEPT !.proposed = @ \cup added, !.known = @ \cup {c}]
    BY DEF Propose
  <1> QED
    BY <1>1 DEF Settings

\* What is typed on the pages and what they are shown.
LEMMA TypingKeeps ==
  ASSUME ShownInv,
         \/ useThresholds \/ openEdit \/ closeEdit \/ OpenConfig \/ fetchLiveConfig
         \/ handleSubmit \/ handleApprove \/ handleReject
         \/ \E c \in Items : submitMut(c) \/ setDraftValues(c)
  PROVE  ShownInv'
  <1>1. /\ setting \in Settings /\ thresholds \in Shows /\ config \in Drafts
        /\ proposals \subseteq Proposals
    BY DEF ShownInv, ConfigScreenTypeOK, Settings, Shows, Drafts, Proposals
  <1>2. Items \cup {None} \subseteq Values /\ Literal \in Values
    BY DEF Values
  <1>3. Served \subseteq Values
    BY <1>1, <1>2 DEF Served, Settings
  <1>4. CASE useThresholds
    <2>1. PICK v \in Served \cup {Literal} : thresholds' = [thresholds EXCEPT !.shown = v]
      BY <1>4 DEF useThresholds
    <2>2. v \in Values
      BY <1>2, <1>3
    <2>3. thresholds' \in Shows
      BY <1>1, <2>1, <2>2 DEF Shows
    <2> QED
      BY <1>1, <1>4, <2>3 DEF useThresholds, ShownInv, ConfigScreenTypeOK, Settings, Shows, Drafts, Proposals
  <1>5. CASE openEdit \/ closeEdit
    <2>1. thresholds' \in Shows
      BY <1>1, <1>5 DEF openEdit, closeEdit, Shows
    <2>2. UNCHANGED <<setting, config, proposals>>
      BY <1>5 DEF openEdit, closeEdit
    <2> QED
      BY <1>1, <2>1, <2>2 DEF ShownInv, ConfigScreenTypeOK, Settings, Shows, Drafts, Proposals
  <1>6. CASE OpenConfig \/ fetchLiveConfig \/ handleApprove \/ handleReject
    <2>1. config' \in Drafts
      <3>1. CASE OpenConfig
        BY <1>2, <3>1 DEF OpenConfig, NewConfig, NotPending, Drafts
      <3>2. CASE fetchLiveConfig
        <4>1. PICK v \in Served :
                config' = [config EXCEPT !.shown = v, !.draft = v, !.loaded = TRUE]
          BY <3>2 DEF fetchLiveConfig
        <4>2. v \in Values
          BY <1>3
        <4> QED
          BY <1>1, <4>1, <4>2 DEF Drafts
      <3>3. CASE handleApprove
        <4>1. config.pending.change \in Values
          BY <1>1, <1>2 DEF Drafts
        <4> QED
          BY <1>1, <3>3, <4>1 DEF handleApprove, NotPending, Drafts
      <3>4. CASE handleReject
        BY <1>1, <3>4 DEF handleReject, NotPending, Drafts
      <3> QED
        BY <1>6, <3>1, <3>2, <3>3, <3>4
    <2>2. UNCHANGED <<setting, thresholds, proposals>>
      BY <1>6 DEF OpenConfig, fetchLiveConfig, handleApprove, handleReject
    <2> QED
      BY <1>1, <2>1, <2>2 DEF ShownInv, ConfigScreenTypeOK, Settings, Shows, Drafts, Proposals
  <1>7. CASE handleSubmit
    <2>1. config.draft \in Items
      BY <1>7 DEF handleSubmit
    <2>2. config' = [config EXCEPT !.pending = [change |-> config.draft, changeId |-> FALSE]]
      BY <1>7 DEF handleSubmit
    <2>3. [change |-> config.draft, changeId |-> FALSE] \in [change : Items \cup {None}, changeId : BOOLEAN]
      BY <2>1
    <2>4. config' \in Drafts
      BY <1>1, <2>2, <2>3 DEF Drafts
    <2>5. proposals' \subseteq Proposals /\ UNCHANGED <<setting, thresholds>>
      BY <1>1, <1>7, <2>1 DEF handleSubmit, Proposals
    <2> QED
      BY <1>1, <2>4, <2>5 DEF ShownInv, ConfigScreenTypeOK, Settings, Shows, Drafts, Proposals
  <1>8. ASSUME NEW c \in Items, submitMut(c) PROVE ShownInv'
    <2>1. thresholds' \in Shows
      BY <1>1, <1>8 DEF submitMut, Shows
    <2>2. proposals' \subseteq Proposals /\ UNCHANGED <<setting, config>>
      BY <1>1, <1>8 DEF submitMut, Proposals
    <2> QED
      BY <1>1, <2>1, <2>2 DEF ShownInv, ConfigScreenTypeOK, Settings, Shows, Drafts, Proposals
  <1>9. ASSUME NEW c \in Items, setDraftValues(c) PROVE ShownInv'
    <2>1. config' \in Drafts
      BY <1>1, <1>2, <1>9 DEF setDraftValues, Drafts
    <2>2. UNCHANGED <<setting, thresholds, proposals>>
      BY <1>9 DEF setDraftValues
    <2> QED
      BY <1>1, <2>1, <2>2 DEF ShownInv, ConfigScreenTypeOK, Settings, Shows, Drafts, Proposals
  <1> QED
    BY <1>4, <1>5, <1>6, <1>7, <1>8, <1>9

\* The server takes what comes with the token, and others' changes.
LEMMA AnswersKeep ==
  ASSUME ShownInv,
         \/ \E q \in proposals : Accept(q) \/ Refuse(q) \/ NotSent(q)
         \/ \E c \in Items : OtherProposes(c) \/ SettleElsewhere(c)
  PROVE  ShownInv'
  <1>1. /\ setting \in Settings /\ thresholds \in Shows /\ config \in Drafts
        /\ proposals \subseteq Proposals
    BY DEF ShownInv, ConfigScreenTypeOK, Settings, Shows, Drafts, Proposals
  <1>2. ASSUME NEW q \in proposals, Accept(q) \/ Refuse(q) \/ NotSent(q) PROVE ShownInv'
    <2>1. q \in Proposals /\ q.change \in Items
      BY <1>1 DEF Proposals
    <2>2. setting' \in Settings
      <3>1. Propose(q.change) \/ setting' = setting
        BY <1>2 DEF Accept, Refuse, NotSent
      <3> QED
        BY <1>1, <2>1, <3>1, ProposeKeeps
    <2>3. thresholds' \in Shows
      BY <1>1, <1>2 DEF Accept, Refuse, NotSent, Shows
    <2>4. config' \in Drafts
      <3>1. CASE config' = [config EXCEPT !.pending.changeId = @ \/ config.pending.change # None]
        BY <1>1, <3>1 DEF Drafts
      <3> QED
        BY <1>1, <1>2, <3>1 DEF Accept, Refuse, NotSent
    <2>5. proposals' \subseteq Proposals
      BY <1>1, <1>2 DEF Accept, Refuse, NotSent
    <2> QED
      BY <2>2, <2>3, <2>4, <2>5
      DEF ShownInv, ConfigScreenTypeOK, Settings, Shows, Drafts, Proposals
  <1>3. ASSUME NEW c \in Items, OtherProposes(c) \/ SettleElsewhere(c) PROVE ShownInv'
    <2>1. setting' \in Settings
      <3>1. CASE OtherProposes(c)
        BY <1>1, <3>1, ProposeKeeps DEF OtherProposes
      <3>2. CASE SettleElsewhere(c)
        <4>1. PICK v \in {c, setting.inForce} :
                setting' = [setting EXCEPT !.inForce = v, !.proposed = @ \ {c}]
          BY <3>2 DEF SettleElsewhere
        <4> QED
          BY <1>1, <4>1 DEF Settings
      <3> QED
        BY <1>3, <3>1, <3>2
    <2>2. UNCHANGED <<thresholds, config, proposals>>
      BY <1>3 DEF OtherProposes, SettleElsewhere
    <2> QED
      BY <1>1, <2>1, <2>2 DEF ShownInv, ConfigScreenTypeOK, Settings, Shows, Drafts, Proposals
  <1> QED
    BY <1>2, <1>3

LEMMA ShownStep == ShownInv /\ [ConfigScreenNext]_configScreenVars => ShownInv'
  <1>1. ASSUME ShownInv, UNCHANGED configScreenVars PROVE ShownInv'
    BY <1>1 DEF configScreenVars, ShownInv, ConfigScreenTypeOK, Values
  <1> QED
    BY <1>1, TypingKeeps, AnswersKeep DEF ConfigScreenNext

(***************************************************************************)
(* The shape of holds: an escalation runs only when a hold was placed.     *)
(***************************************************************************)
Rows        == [placed : 0..MaxHolds, open : SUBSET Numbers, answered : SUBSET Numbers,
                mail : SUBSET Numbers]
Escalations == [at : 0..3, released : BOOLEAN, step : {"wait", "look", "send"},
                tries : 1..Attempts, mail : BOOLEAN]
HoldPages   == [listed : BOOLEAN, pending : BOOLEAN]

HoldInv ==
  /\ holds \in Rows /\ holds.open \subseteq 1..holds.placed
  /\ placing \subseteq Numbers \cap 1..holds.placed /\ releasing \in {0, 1}
  /\ escalation \in Escalations /\ (escalation.at # 0 => holds.placed > 0)
  /\ unwatched \subseteq Numbers
  /\ late \in BOOLEAN /\ alerts \subseteq Numbers \X Checkpoints /\ page \in HoldPages

LEMMA HoldInvIsTyped == HoldInv => HoldTypeOK
  <1>1. {0} \cup Checkpoints = 0..3
    BY DEF Checkpoints
  <1> QED
    BY <1>1 DEF HoldInv, HoldTypeOK, Rows, Escalations, HoldPages

LEMMA EndedIsEscalation == Ended \in Escalations /\ Ended.at = 0
  BY AttemptsAssumption DEF Ended, Escalations

LEMMA HoldInitInv == HoldInit => HoldInv
  <1> SUFFICES ASSUME HoldInit PROVE HoldInv
    OBVIOUS
  <1>1. holds = [placed |-> 0, open |-> {}, answered |-> {}, mail |-> {}] /\ holds \in Rows
    BY MaxHoldsAssumption DEF HoldInit, Rows
  <1>2. escalation \in Escalations /\ escalation.at = 0
    BY EndedIsEscalation DEF HoldInit
  <1>3. /\ page \in HoldPages /\ placing = {} /\ releasing = 0 /\ late = FALSE
        /\ alerts = {} /\ unwatched = {}
    BY DEF HoldInit, HoldPages
  <1>4. holds.open \subseteq 1..holds.placed
    BY <1>1
  <1> QED
    BY <1>1, <1>2, <1>3, <1>4 DEF HoldInv

\* Requests write rows of numbers that exist.
LEMMA RequestsKeep ==
  ASSUME HoldInv,
         \/ place_hold \/ release_hold \/ submit_hold_recommendation \/ Requests
         \/ fetchHolds \/ releaseMutation \/ AnswerRelease(Me)
  PROVE  HoldInv'
  <1> USE MaxHoldsAssumption
  <1>1. /\ holds \in Rows /\ holds.placed \in Nat /\ holds.placed <= MaxHolds
        /\ escalation \in Escalations /\ page \in HoldPages
    BY DEF HoldInv, Rows
  <1>2. CASE place_hold
    <2> DEFINE n == holds.placed + 1
    <2>1. /\ n \in Numbers /\ n > 0
      BY <1>1, <1>2 DEF place_hold, Numbers
    <2>2. PICK mail \in {{n}, {}} :
            holds' = [holds EXCEPT !.placed = n, !.open = @ \cup {n}, !.mail = @ \cup mail]
      BY <1>2 DEF place_hold
    <2>3. /\ placing' = placing \cup {n}
          /\ UNCHANGED <<releasing, escalation, unwatched, late, alerts, page>>
      BY <1>2 DEF place_hold
    <2>4. 1..holds.placed \subseteq 1..n /\ n \in 1..n /\ n \in 0..MaxHolds
      BY <1>1, <2>1 DEF Numbers
    <2>5. mail \subseteq Numbers
      BY <2>1, <2>2
    <2> HIDE DEF n
    <2>6. holds' \in Rows /\ holds'.placed = n /\ holds'.open = holds.open \cup {n}
      BY <1>1, <2>1, <2>2, <2>4, <2>5 DEF Rows
    <2> QED
      BY <2>1, <2>3, <2>4, <2>6 DEF HoldInv
  <1>3. CASE release_hold \/ submit_hold_recommendation \/ fetchHolds \/ releaseMutation
             \/ AnswerRelease(Me)
    <2>1. /\ UNCHANGED <<placing, escalation, unwatched, late, alerts>> /\ releasing' \in {0, 1}
          /\ \/ holds' = holds
             \/ holds' = [holds EXCEPT !.open = {}]
             \/ holds' = [holds EXCEPT !.answered = @ \cup holds.open]
      BY <1>3 DEF release_hold, submit_hold_recommendation, fetchHolds, releaseMutation,
                  AnswerRelease, PageWorks, HoldInv
    <2>2. holds' \in Rows /\ holds'.open \subseteq holds.open /\ holds'.placed = holds.placed
      BY <1>1, <2>1 DEF Rows
    <2>3. page' \in HoldPages
      BY <1>1, <1>3 DEF release_hold, submit_hold_recommendation, fetchHolds, releaseMutation,
                        AnswerRelease, HoldPages
    <2> QED
      BY <2>1, <2>2, <2>3 DEF HoldInv
  <1>4. CASE SignalReleased \/ SignalFails
    <2>1. escalation' \in Escalations /\ escalation'.at = escalation.at
      <3>1. CASE escalation' = [escalation EXCEPT !.released = TRUE]
        BY <1>1, <3>1 DEF Escalations
      <3>2. CASE escalation' = escalation
        BY <1>1, <3>2
      <3> QED
        BY <1>4, <3>1, <3>2 DEF SignalReleased, SignalFails
    <2>2. releasing' = 0 /\ UNCHANGED <<holds, placing, unwatched, late, alerts, page>>
      BY <1>4 DEF SignalReleased, SignalFails
    <2> QED
      BY <2>1, <2>2 DEF HoldInv
  <1>5. ASSUME NEW n \in Numbers, StartEscalation(n) \/ StartFails(n) PROVE HoldInv'
    <2>1. n \in 1..holds.placed
      BY <1>5 DEF StartEscalation, StartFails, HoldInv
    <2>2. holds.placed > 0
      BY <1>1, <2>1
    <2>3. escalation' \in Escalations
      <3>1. CASE escalation' = Started(n \in holds.mail)
        <4>1. \A b \in BOOLEAN : Started(b) \in Escalations
          BY AttemptsAssumption DEF Started, Escalations
        <4>2. (n \in holds.mail) \in BOOLEAN
          OBVIOUS
        <4> QED
          BY <3>1, <4>1, <4>2
      <3>2. CASE escalation' = escalation
        BY <1>1, <3>2
      <3> QED
        BY <1>5, <3>1, <3>2 DEF StartEscalation, StartFails
    <2>4. /\ placing' \subseteq placing /\ unwatched' \subseteq Numbers
          /\ UNCHANGED <<holds, releasing, late, alerts, page>>
      BY <1>5 DEF StartEscalation, StartFails, HoldInv
    <2> QED
      BY <1>1, <2>2, <2>3, <2>4 DEF HoldInv
  <1> QED
    BY <1>2, <1>3, <1>4, <1>5 DEF Requests, Signals, Starts

\* The workflow walks its checkpoints.
LEMMA WorkflowKeeps == ASSUME HoldInv, Workflow \/ Deadline \/ UNCHANGED holdVars PROVE HoldInv'
  <1> USE MaxHoldsAssumption
  <1>1. /\ holds.placed \in Nat /\ holds.placed <= MaxHolds
        /\ escalation \in Escalations /\ escalation.at \in 0..3
    BY DEF HoldInv, Rows, Escalations
  <1>2. CASE Workflow
    <2>1. escalation.at \in Checkpoints
      BY <1>1, <1>2 DEF Workflow, Wake, Look, Send, CriticalRaises, ActivityFails, Step, Checkpoints
    <2>2. holds.placed > 0 /\ holds.placed \in Numbers
      <3>1. holds.placed > 0
        BY <2>1 DEF HoldInv, Checkpoints
      <3> QED
        BY <1>1, <3>1 DEF Numbers
    <2>3. Ended \in Escalations
      BY EndedIsEscalation
    <2>4. Onward(escalation) \in Escalations
      <3>1. CASE escalation.at = 3
        BY <2>3, <3>1 DEF Onward
      <3>2. CASE escalation.at # 3
        <4>1. escalation.at + 1 \in 0..3
          BY <1>1, <3>2
        <4>2. Onward(escalation) =
                [escalation EXCEPT !.at = escalation.at + 1, !.step = "wait", !.tries = 1]
          BY <1>1, <3>2 DEF Onward, Escalations
        <4>3. 1 \in 1..Attempts
          BY AttemptsAssumption
        <4> QED
          BY <1>1, <4>1, <4>2, <4>3 DEF Escalations
      <3> QED
        BY <3>1, <3>2
    <2>5. \A s \in {"look", "send"} : [escalation EXCEPT !.step = s] \in Escalations
      BY <1>1 DEF Escalations
    <2>6. Again \in Escalations
      <3>1. CASE escalation.tries < Attempts
        <4>1. escalation.tries \in 1..Attempts
          BY <1>1 DEF Escalations
        <4>2. escalation.tries + 1 \in 1..Attempts
          BY <3>1, <4>1, AttemptsAssumption
        <4>3. Again = [escalation EXCEPT !.step = "look", !.tries = escalation.tries + 1]
          BY <1>1, <3>1 DEF Again, Escalations
        <4> QED
          BY <1>1, <4>2, <4>3 DEF Escalations
      <3>2. CASE ~(escalation.tries < Attempts)
        BY <2>3, <3>2 DEF Again
      <3> QED
        BY <3>1, <3>2
    <2>7. escalation' \in Escalations /\ UNCHANGED <<holds, placing, releasing, late, page>>
      BY <1>1, <1>2, <2>3, <2>4, <2>5, <2>6
      DEF Workflow, Wake, Look, Send, CriticalRaises, ActivityFails
    <2>8. Told \subseteq Numbers \X Checkpoints
      BY <2>1, <2>2 DEF Told, Latest, HoldInv
    <2>9. alerts' \subseteq Numbers \X Checkpoints
      BY <1>2, <2>8 DEF Workflow, Wake, Look, Send, CriticalRaises, ActivityFails, HoldInv
    <2>10. unwatched' \subseteq Numbers
      BY <1>2, <2>2 DEF Workflow, Wake, Look, Send, CriticalRaises, ActivityFails, Latest, HoldInv
    <2> QED
      BY <2>2, <2>7, <2>9, <2>10 DEF HoldInv
  <1>3. CASE Deadline \/ UNCHANGED holdVars
    <2>1. /\ UNCHANGED <<holds, placing, releasing, escalation, unwatched, alerts, page>>
          /\ late' \in BOOLEAN
      BY <1>3 DEF Deadline, holdVars, HoldInv
    <2> QED
      BY <2>1 DEF HoldInv
  <1> QED
    BY <1>2, <1>3

LEMMA HoldStep == HoldInv /\ [HoldNext]_holdVars => HoldInv'
  BY RequestsKeep, WorkflowKeeps DEF HoldNext

(***************************************************************************)
(* The shape of buckets: a request that is under way has a number.         *)
(***************************************************************************)
Puts    == [step : {"idle", "begin", "delete", "insert", "commit", "drop"},
            no : 0..MaxPuts, wanted : SUBSET Buckets,
            snapshot : SUBSET Row, gone : SUBSET Row, new : SUBSET Row]
Copies  == [on : BOOLEAN, value : SUBSET Buckets]

BucketInv ==
  /\ BucketTypeOK
  /\ IsFiniteSet(sent)
  /\ \A p \in People : put[p].step \in {"begin", "delete", "insert"} => put[p].no # 0

LEMMA BucketInitInv == BucketInit => BucketInv
  <1> SUFFICES ASSUME BucketInit PROVE BucketInv
    OBVIOUS
  <1>1. NoPut \in Puts /\ NoPut.step = "idle"
    BY MaxPutsAssumption DEF NoPut, Puts
  <1>2. put \in [People -> Puts] /\ \A p \in People : put[p] = NoPut
    BY <1>1 DEF BucketInit
  <1>3. IsFiniteSet(sent)
    BY FS_EmptySet DEF BucketInit
  <1>4. NoCopy \in Copies
    BY DEF NoCopy, Copies
  <1>5. BucketTypeOK
    BY <1>2, <1>4 DEF BucketInit, BucketTypeOK, Puts, Copies
  <1> QED
    BY <1>1, <1>2, <1>3, <1>5 DEF BucketInv

\* A request in its transaction.
LEMMA PutKeeps ==
  ASSUME BucketInv, NEW p \in People, Put(p) \/ PutFails(p)
  PROVE  BucketInv'
  <1> DEFINE numbered(w) == w.step \in {"begin", "delete", "insert"} => w.no # 0
  <1>1. /\ rows \subseteq Row /\ put \in [People -> Puts] /\ copy \in Copies
        /\ \A q \in People : numbered(put[q])
    BY DEF BucketInv, BucketTypeOK, Puts, Copies
  <1>2. put[p] \in Puts
    BY <1>1
  <1>3. /\ NoPut \in Puts /\ numbered(NoPut) /\ NoCopy \in Copies
        /\ [NoPut EXCEPT !.step = "drop"] \in Puts /\ numbered([NoPut EXCEPT !.step = "drop"])
    BY MaxPutsAssumption DEF NoPut, Puts, NoCopy, Copies
  <1>4. /\ UNCHANGED <<sent, lookup, connected>>
        /\ rows' \subseteq Row /\ copy' \in Copies
        /\ \E w \in Puts : numbered(w) /\ put' = [put EXCEPT ![p] = w]
    <2>1. CASE BeginDelete(p)
      <3> DEFINE w == [put[p] EXCEPT !.step = "delete", !.snapshot = rows]
      <3>1. w \in Puts /\ numbered(w)
        BY <1>1, <1>2, <2>1 DEF BeginDelete, Puts
      <3>2. put' = [put EXCEPT ![p] = w]
        BY <1>1, <2>1 DEF BeginDelete
      <3> QED
        BY <1>1, <2>1, <3>1, <3>2 DEF BeginDelete
    <2>2. CASE Delete(p)
      <3> DEFINE w == [put[p] EXCEPT !.step = "insert", !.gone = Deletes(p)]
      <3>1. w \in Puts /\ numbered(w)
        BY <1>1, <1>2, <2>2 DEF Delete, Deletes, Puts
      <3>2. put' = [put EXCEPT ![p] = w]
        BY <1>1, <2>2 DEF Delete
      <3> QED
        BY <1>1, <2>2, <3>1, <3>2 DEF Delete
    <2>3. CASE Insert(p)
      <3> DEFINE new == [bucket : put[p].wanted \ Of(rows \ put[p].gone), no : {put[p].no}]
                 w   == [put[p] EXCEPT !.step = "commit", !.new = new]
      <3>1. put[p].no \in 1..MaxPuts /\ put[p].wanted \subseteq Buckets
        BY <1>1, <1>2, <2>3, MaxPutsAssumption DEF Insert, Puts
      <3>2. new \subseteq Row
        BY <3>1 DEF Row
      <3> HIDE DEF new
      <3>3. w \in Puts /\ numbered(w)
        BY <1>2, <3>2 DEF Puts
      <3>4. put' = [put EXCEPT ![p] = w]
        BY <1>1, <2>3 DEF Insert, new
      <3> QED
        BY <1>1, <2>3, <3>3, <3>4 DEF Insert
    <2>4. CASE CommitPut(p)
      BY <1>1, <1>2, <1>3, <2>4 DEF CommitPut, Puts
    <2>5. CASE DropCopy(p)
      BY <1>1, <1>3, <2>5 DEF DropCopy
    <2>6. CASE PutFails(p)
      BY <1>1, <1>3, <2>6 DEF PutFails
    <2> QED
      BY <2>1, <2>2, <2>3, <2>4, <2>5, <2>6 DEF Put
  <1>5. PICK w \in Puts : numbered(w) /\ put' = [put EXCEPT ![p] = w]
    BY <1>4
  <1> HIDE DEF numbered
  <1>6. put' \in [People -> Puts] /\ \A q \in People : numbered(put'[q])
    BY <1>1, <1>5
  <1>7. BucketTypeOK'
    BY <1>4, <1>6 DEF BucketInv, BucketTypeOK, Puts, Copies
  <1>8. IsFiniteSet(sent)'
    BY <1>4 DEF BucketInv
  <1> QED
    BY <1>6, <1>7, <1>8 DEF BucketInv, numbered

LEMMA ToggleKeeps ==
  ASSUME BucketInv, NEW p \in People, NEW b \in Buckets, toggleBucket(p, b)
  PROVE  BucketInv'
  <1> DEFINE next == IF b \in connected[p] THEN connected[p] \ {b} ELSE connected[p] \cup {b}
             no   == Cardinality(sent) + 1
             w    == [NoPut EXCEPT !.step = "begin", !.no = no, !.wanted = next]
  <1>1. next \subseteq Buckets
    BY DEF BucketInv, BucketTypeOK
  <1>2. no \in 1..MaxPuts /\ no # 0
    <2>1. Cardinality(sent) \in Nat
      BY FS_CardinalityType DEF BucketInv
    <2>2. Cardinality(sent) < MaxPuts
      BY DEF toggleBucket
    <2> QED
      BY <2>1, <2>2, MaxPutsAssumption
  <1>3. /\ put' = [put EXCEPT ![p] = w] /\ sent' = sent \cup {[no |-> no, buckets |-> next]}
        /\ UNCHANGED <<rows, copy, lookup, connected>>
    BY DEF toggleBucket
  <1> HIDE DEF next, no
  <1>4. w \in Puts /\ w.no = no
    <2>1. NoPut \in Puts
      BY MaxPutsAssumption DEF NoPut, Puts
    <2>2. no \in 0..MaxPuts
      BY <1>2, MaxPutsAssumption
    <2> QED
      BY <1>1, <2>1, <2>2 DEF Puts
  <1>5. sent' \subseteq [no : 1..MaxPuts, buckets : SUBSET Buckets] /\ IsFiniteSet(sent')
    <2>1. IsFiniteSet(sent')
      BY <1>3, FS_AddElement DEF BucketInv
    <2> QED
      BY <1>1, <1>2, <1>3, <2>1 DEF BucketInv, BucketTypeOK
  <1> HIDE DEF w
  <1>6. /\ put' \in [People -> Puts]
        /\ \A q \in People : put'[q].step \in {"begin", "delete", "insert"} => put'[q].no # 0
    <2>1. put \in [People -> Puts]
      BY DEF BucketInv, BucketTypeOK, Puts
    <2>2. put' \in [People -> Puts] /\ \A q \in People : put'[q] \in {w, put[q]}
      BY <1>3, <1>4, <2>1
    <2> QED
      BY <1>2, <1>4, <2>2 DEF BucketInv
  <1>7. BucketTypeOK'
    BY <1>3, <1>5, <1>6 DEF BucketInv, BucketTypeOK, Puts
  <1> QED
    BY <1>5, <1>6, <1>7 DEF BucketInv

\* Readers of the table and its copy.
LEMMA CopiesKeep ==
  ASSUME BucketInv,
         \/ \E p \in People : fetchBuckets(p)
         \/ \E a \in Allocators : get_all(a) \/ cache_put(a)
         \/ CopyExpires \/ UNCHANGED bucketVars
  PROVE  BucketInv'
  <1>1. /\ rows \subseteq Row /\ copy \in Copies /\ lookup \in [Allocators -> Copies]
        /\ connected \in [People -> SUBSET Buckets]
    BY DEF BucketInv, BucketTypeOK, Copies
  <1>2. Of(rows) \subseteq Buckets /\ NoCopy \in Copies
    BY <1>1 DEF Of, Row, NoCopy, Copies
  <1>3. [on |-> TRUE, value |-> Of(rows)] \in Copies
    BY <1>2 DEF Copies
  <1> DEFINE read == [on |-> TRUE, value |-> Of(rows)]
  <1>4. UNCHANGED <<rows, put, sent>>
    BY DEF fetchBuckets, get_all, cache_put, CopyExpires, bucketVars
  <1>5. copy' \in Copies /\ lookup' \in [Allocators -> Copies]
        /\ connected' \in [People -> SUBSET Buckets]
    <2>1. ASSUME NEW p \in People, fetchBuckets(p)
          PROVE  /\ copy' \in Copies /\ lookup' = lookup
                 /\ connected' \in [People -> SUBSET Buckets]
      <3>1. copy' \in {copy, read} /\ lookup' = lookup
        BY <2>1 DEF fetchBuckets
      <3>2. \E S \in SUBSET Buckets : connected' = [connected EXCEPT ![p] = S]
        BY <1>1, <1>2, <2>1 DEF fetchBuckets, Copies
      <3> QED
        BY <1>1, <1>3, <3>1, <3>2
    <2>2. ASSUME NEW a \in Allocators, get_all(a) \/ cache_put(a)
          PROVE  /\ copy' \in Copies /\ lookup' \in [Allocators -> Copies]
                 /\ connected' = connected
      <3>1. lookup[a] \in Copies
        BY <1>1
      <3>2. /\ copy' \in {copy, lookup[a]} /\ connected' = connected
            /\ \E x \in Copies : lookup' = [lookup EXCEPT ![a] = x]
        BY <1>2, <1>3, <2>2 DEF get_all, cache_put
      <3> QED
        BY <1>1, <3>1, <3>2
    <2>3. CASE CopyExpires \/ UNCHANGED bucketVars
      BY <1>1, <1>2, <2>3 DEF CopyExpires, bucketVars
    <2> QED
      BY <1>1, <2>1, <2>2, <2>3
  <1> QED
    BY <1>4, <1>5 DEF BucketInv, BucketTypeOK, Copies

LEMMA BucketStep == BucketInv /\ [BucketNext]_bucketVars => BucketInv'
  BY PutKeeps, ToggleKeeps, CopiesKeep DEF BucketNext

(***************************************************************************)
(* The pages together.                                                     *)
(***************************************************************************)
PagesInv == ReviewInv /\ HoldInv /\ ConfigInv /\ ShownInv /\ CustodyInv /\ BucketInv

LEMMA PagesInitInv == Init => PagesInv
  BY ReviewInitInv, HoldInitInv, ConfigInitInv, ShownInitInv, CustodyInitInv, BucketInitInv
  DEF Init, PagesInv

\* A step is one of each part, or leaves the part alone.
LEMMA OnePage ==
  [Next]_pagesVars =>
    /\ [ReviewNext]_reviewVars /\ [HoldNext]_holdVars /\ [ConfigNext]_configVars
    /\ [ConfigScreenNext]_configScreenVars /\ [CustodyNext]_custodyVars /\ [BucketNext]_bucketVars
  BY DEF Next, pagesVars, OnReview, OnHolds, OnChanges, OnSettings, OnCustody, OnBuckets

LEMMA PagesStepInv == PagesInv /\ [Next]_pagesVars => PagesInv'
  BY OnePage, ReviewStepInv, HoldStep, ConfigStep, ShownStep, CustodyStepInv, BucketStep
  DEF PagesInv

LEMMA PagesAlwaysInv == Spec => []PagesInv
  BY PagesInitInv, PagesStepInv, PTL DEF Spec

\* The shape of every page and of the part of the server it works on.
THEOREM PagesTypeCorrect == Spec => []TypeOK
  <1>1. PagesInv => TypeOK
    BY HoldInvIsTyped DEF PagesInv, ReviewInv, ConfigInv, ShownInv, CustodyInv, BucketInv, TypeOK
  <1> QED
    BY <1>1, PagesAlwaysInv, PTL

\* Behind the router as well as alone: decisions, holds and releases of the review queue
\* are for cheques the reviewer had claimed.
THEOREM HeldItemsOnlyOnPages == Spec => []OnlyHeldItems
  <1>1. PagesInv => OnlyHeldItems
    BY DEF PagesInv, ReviewInv
  <1> QED
    BY <1>1, PagesAlwaysInv, PTL

\* Custody's histories are true and its batches whole while the page comes and goes.
THEOREM OriginalsAreKeptOnPages == Spec => []OriginalsAreKept
  <1>1. PagesInv => OriginalsAreKept
    BY DEF PagesInv, CustodyInv, OriginalsAreKept
  <1> QED
    BY <1>1, PagesAlwaysInv, PTL

\* However many administrators approve and reject at once and whatever fails under them:
\* the value in force was approved by another person than proposed it, and is audited
\* (approve_threshold_change of admin.py).
THEOREM ApprovedByTwo == Spec => []InForceIsApproved
  <1>1. PagesInv => InForceIsApproved
    BY DEF PagesInv, ConfigInv
  <1> QED
    BY <1>1, PagesAlwaysInv, PTL

\* A change that was approved or rejected stays so.
THEOREM SettledForGood == Spec => SettledOnce
  <1>1. PagesInv /\ [Next]_pagesVars =>
          [\A c \in Changes : change[c].status \in {"APPROVED", "REJECTED"} =>
                                change'[c] = change[c]]_configVars
    BY OnePage, ConfigStep DEF PagesInv
  <1> QED
    BY <1>1, PagesAlwaysInv, PTL DEF Spec, SettledOnce

(***************************************************************************)
(* Each change takes the steps of FourEyes: it is proposed by somebody,    *)
(* and approved, once, by somebody else.                                   *)
(***************************************************************************)
\* A change has a proposer from the proposal on.
ProposersInv == \A c \in Changes : change[c].status = "none" <=> change[c].by = None

RuleStep == \A c \in Changes : UNCHANGED Rule(c)!vars \/ Rule(c)!Next

LEMMA SomebodyProposes == \A p \in People : p # None
  BY MeIsSomebody DEF People

\* One row changes, the others keep their word and their settlement.
LEMMA OneRow ==
  ASSUME NEW c \in Changes, \A d \in Changes : d # c => change'[d] = change[d],
         UNCHANGED Rule(c)!vars \/ Rule(c)!Next,
         ProposersInv, change'[c].status = "none" <=> change'[c].by = None
  PROVE  RuleStep /\ ProposersInv'
  <1>1. ASSUME NEW d \in Changes, d # c PROVE UNCHANGED Rule(d)!vars
    <2>1. change'[d] = change[d]
      BY <1>1
    <2> QED
      BY <2>1 DEF Rule!vars
  <1>2. RuleStep
    BY <1>1 DEF RuleStep
  <1>3. ProposersInv'
    BY DEF ProposersInv
  <1> QED
    BY <1>2, <1>3

LEMMA NoRow ==
  ASSUME ProposersInv, UNCHANGED change PROVE RuleStep /\ ProposersInv'
  BY DEF ProposersInv, RuleStep, Rule!vars

LEMMA RuleAdvances ==
  ConfigInv /\ ProposersInv /\ [ConfigNext]_configVars => RuleStep /\ ProposersInv'
  <1> SUFFICES ASSUME ConfigInv, ProposersInv, [ConfigNext]_configVars
               PROVE  RuleStep /\ ProposersInv'
    OBVIOUS
  <1>1. change \in ChangeRows
    BY DEF ConfigInv, ConfigTypeOK, ChangeRows
  <1>2. ASSUME NEW c \in Changes, NEW p \in People, submit_threshold_change(c, p)
        PROVE  RuleStep /\ ProposersInv'
    <2>1. CASE UNCHANGED change
      BY <2>1, NoRow
    <2>2. CASE change' = [change EXCEPT ![c] = [status |-> "PENDING_APPROVAL", by |-> p, actioned |-> None]]
      <3>1. change[c].status = "none" /\ change[c].by = None
        BY <1>2 DEF submit_threshold_change, ProposersInv
      <3>2. /\ change'[c] = [status |-> "PENDING_APPROVAL", by |-> p, actioned |-> None]
            /\ \A d \in Changes : d # c => change'[d] = change[d]
        BY <1>1, <2>2 DEF ChangeRows
      <3>3. Rule(c)!Speak(p, "APPROVED")
        BY <3>1, <3>2, SomebodyProposes DEF Rule!Speak, Rule!NoWord
      <3>4. Rule(c)!Next
        BY <3>3 DEF Rule!Next
      <3> QED
        BY <3>2, <3>4, OneRow, SomebodyProposes
    <2> QED
      BY <1>2, <2>1, <2>2 DEF submit_threshold_change
  <1>3. ASSUME NEW c \in Changes, NEW p \in People, reject_threshold_change(c, p)
        PROVE  RuleStep /\ ProposersInv'
    <2>1. CASE UNCHANGED change
      BY <2>1, NoRow
    <2>2. CASE change' = [change EXCEPT ![c].status = "REJECTED", ![c].actioned = p]
      <3>1. change[c].status = "PENDING_APPROVAL" /\ change[c].by # None
        BY <1>3 DEF reject_threshold_change, Pending, ProposersInv
      <3>2. /\ change'[c].status = "REJECTED" /\ change'[c].by = change[c].by
            /\ \A d \in Changes : d # c => change'[d] = change[d]
        BY <1>1, <2>2 DEF ChangeRows
      <3>3. UNCHANGED Rule(c)!vars
        BY <3>1, <3>2 DEF Rule!vars
      <3> QED
        BY <3>1, <3>2, <3>3, OneRow
    <2> QED
      BY <1>3, <2>1, <2>2 DEF reject_threshold_change
  <1>4. ASSUME NEW p \in People, Commit(p) PROVE RuleStep /\ ProposersInv'
    <2>1. CASE UNCHANGED change
      BY <2>1, NoRow
    <2>2. ASSUME NEW c \in Changes, c = approval[p].change,
                 change' = [change EXCEPT ![c].status = "APPROVED", ![c].actioned = p]
          PROVE  RuleStep /\ ProposersInv'
      <3>1. change[c].status = "PENDING_APPROVAL" /\ change[c].by # p
        BY <1>4, <2>2 DEF Commit, ConfigInv, ApprovalInv, InTransaction, Pending
      <3>2. change[c].by # None
        BY <3>1 DEF ProposersInv
      <3>3. /\ change'[c].status = "APPROVED" /\ change'[c].actioned = p
            /\ change'[c].by = change[c].by
            /\ \A d \in Changes : d # c => change'[d] = change[d]
        BY <1>1, <2>2 DEF ChangeRows
      <3>4. Rule(c)!Settle(p, "APPROVED")
        BY <3>1, <3>2, <3>3, SomebodyProposes DEF Rule!Settle, Rule!NoWord, Rule!Unfiled
      <3>5. Rule(c)!Next
        BY <3>4 DEF Rule!Next
      <3> QED
        BY <3>2, <3>3, <3>5, OneRow
    <2>3. approval[p].change \in Changes
      BY <1>4 DEF Commit, ConfigInv, ApprovalInv, InTransaction
    <2> QED
      BY <1>4, <2>1, <2>2, <2>3 DEF Commit
  <1>5. ASSUME NEW c \in Changes, NEW p \in People, approve_threshold_change(c, p)
        PROVE  RuleStep /\ ProposersInv'
    <2>1. UNCHANGED change
      BY <1>5 DEF approve_threshold_change
    <2> QED
      BY <2>1, NoRow
  <1>6. ASSUME NEW p \in People, Audit(p) \/ AuditAndAnswer(p) \/ Crash(p)
        PROVE  RuleStep /\ ProposersInv'
    <2>1. UNCHANGED change
      BY <1>6 DEF Audit, AuditAndAnswer, Crash
    <2> QED
      BY <2>1, NoRow
  <1>7. CASE (\E r \in Readers : get(r) \/ setex(r)) \/ Expire \/ UNCHANGED configVars
    <2>1. UNCHANGED change
      BY <1>7 DEF get, setex, Expire, configVars
    <2> QED
      BY <2>1, NoRow
  <1> QED
    BY <1>2, <1>3, <1>4, <1>5, <1>6, <1>7 DEF ConfigNext

\* Each change of a setting goes as FourEyes asks (the maker-checker endpoints of admin.py):
\* proposed by one person, settled by another, once, however requests and failures overlap;
\* pages of other routes leave it alone.
THEOREM ChangesSettledByTwo == Spec => SettledByTwo
  <1>1. Init => ProposersInv /\ \A c \in Changes : Rule(c)!Nothing
    <2> SUFFICES ASSUME Init PROVE ProposersInv /\ \A c \in Changes : Rule(c)!Nothing
      OBVIOUS
    <2>1. change = [c \in Changes |-> [status |-> "none", by |-> None, actioned |-> None]]
      BY DEF Init, ConfigInit
    <2>2. ProposersInv
      BY <2>1 DEF ProposersInv
    <2>3. \A c \in Changes : Rule(c)!Nothing
      BY <2>1 DEF Rule!Nothing, Rule!NoWord, Rule!Unfiled
    <2> QED
      BY <2>2, <2>3
  <1>2. PagesInv /\ ProposersInv /\ [Next]_pagesVars => ProposersInv'
    BY OnePage, RuleAdvances DEF PagesInv
  <1>3. PagesInv /\ ProposersInv /\ [Next]_pagesVars
          => [\A c \in Changes : UNCHANGED Rule(c)!vars \/ Rule(c)!Next]_configVars
    BY OnePage, RuleAdvances DEF PagesInv, RuleStep
  <1> QED
    BY <1>1, <1>2, <1>3, PagesAlwaysInv, SettledForGood, PTL DEF Spec, SettledByTwo, ApprovedByAnother

\* Every original goes its way on the pages, too: no other page disturbs it.
THEOREM KeptByTwoOnPages == Spec => KeptByTwo
  <1>1. Init => RolesInv /\ \A i \in Items : Trail(i)!Init
    BY TrailsBegin DEF Init
  <1>2. PagesInv /\ RolesInv /\ [Next]_pagesVars => RolesInv'
    BY OnePage, RolesStep DEF PagesInv, CustodyInv
  <1>3. PagesInv /\ RolesInv /\ [Next]_pagesVars
          => [\A i \in Items : UNCHANGED Trail(i)!vars \/ Trail(i)!Next]_custodyVars
    BY OnePage, TrailsGo DEF PagesInv, TrailStep
  <1> QED
    BY <1>1, <1>2, <1>3, PagesAlwaysInv, PTL DEF Spec, KeptByTwo

(***************************************************************************)
(* What a replaced set of buckets is worth.  Requests that overlap may     *)
(* leave the union of what they sent (Replaces fails then), but never a    *)
(* bucket nobody asked for; requests that do not overlap replace the set.  *)
(***************************************************************************)
Writing(p) == put[p].step \in {"delete", "insert", "commit"}

\* At most one request is in its transaction.
Alone == \A p, q \in People : Writing(p) /\ Writing(q) => p = q

\* Every row and every row about to be written has a request that sent its bucket.
SentBy(row) == \E s \in sent : s.no = row.no /\ row.bucket \in s.buckets

AskedInv ==
  /\ \A row \in rows : SentBy(row)
  /\ \A p \in People :
       /\ \A row \in put[p].new : SentBy(row)
       /\ put[p].step \in {"begin", "delete", "insert", "commit"} =>
            [no |-> put[p].no, buckets |-> put[p].wanted] \in sent

\* What stands while nobody overlaps: the table has a set that was sent, or nothing;
\* the transaction sees the committed rows, deletes all of them and writes its set.
ReplaceInv ==
  /\ rows # {} => \E s \in sent : s.buckets = Of(rows)
  /\ \A p \in People :
       /\ put[p].step = "delete" => put[p].snapshot = rows
       /\ put[p].step \in {"insert", "commit"} => put[p].gone = rows
       /\ put[p].step = "commit" => Of(put[p].new) = put[p].wanted

LEMMA BucketsBegin == BucketInit => AskedInv /\ ReplaceInv
  <1> SUFFICES ASSUME BucketInit PROVE AskedInv /\ ReplaceInv
    OBVIOUS
  <1>1. rows = {} /\ \A p \in People : put[p] = NoPut
    BY DEF BucketInit
  <1>2. NoPut.step = "idle" /\ NoPut.new = {}
    BY DEF NoPut
  <1> QED
    BY <1>1, <1>2 DEF AskedInv, ReplaceInv

\* The rows an INSERT writes: the set it was sent, without what it finds.
Written(p) == [bucket : put[p].wanted \ Of(rows \ put[p].gone), no : {put[p].no}]

LEMMA InsertWrites ==
  ASSUME BucketInv, NEW p \in People, Insert(p)
  PROVE  /\ put'[p].new = Written(p) /\ put'[p].step = "commit"
         /\ put'[p].no = put[p].no /\ put'[p].wanted = put[p].wanted /\ put'[p].gone = put[p].gone
         /\ UNCHANGED <<rows, sent>> /\ \A q \in People \ {p} : put'[q] = put[q]
  <1>1. put \in [People -> Puts] /\ put[p] \in Puts
    BY DEF BucketInv, BucketTypeOK, Puts
  <1>2. put' = [put EXCEPT ![p] = [put[p] EXCEPT !.step = "commit", !.new = Written(p)]]
    BY <1>1 DEF Insert, Written
  <1>3. UNCHANGED <<rows, sent>>
    BY DEF Insert
  <1> QED
    BY <1>1, <1>2, <1>3 DEF Puts

LEMMA AskedStep ==
  ASSUME BucketInv, AskedInv, [BucketNext]_bucketVars
  PROVE  AskedInv'
  <1>1. put \in [People -> Puts] /\ \A p \in People : put[p] \in Puts
    BY DEF BucketInv, BucketTypeOK, Puts
  <1>2. NoPut.step = "idle" /\ NoPut.new = {}
    BY DEF NoPut
  <1>3. ASSUME NEW p \in People, NEW b \in Buckets, toggleBucket(p, b)
        PROVE  AskedInv'
    <2> DEFINE next == IF b \in connected[p] THEN connected[p] \ {b} ELSE connected[p] \cup {b}
               no   == Cardinality(sent) + 1
    <2>1. /\ put' = [put EXCEPT ![p] = [NoPut EXCEPT !.step = "begin", !.no = no, !.wanted = next]]
          /\ sent' = sent \cup {[no |-> no, buckets |-> next]} /\ rows' = rows
      BY <1>3 DEF toggleBucket
    <2> HIDE DEF next, no
    <2>2. /\ put'[p].step = "begin" /\ put'[p].no = no /\ put'[p].wanted = next /\ put'[p].new = {}
          /\ \A q \in People \ {p} : put'[q] = put[q]
      BY <1>1, <2>1 DEF NoPut
    <2>3. \A row \in rows : SentBy(row)'
      BY <2>1 DEF AskedInv, SentBy
    <2>4. \A q \in People \ {p} : \A row \in put[q].new : SentBy(row)'
      BY <2>1 DEF AskedInv, SentBy
    <2> QED
      BY <2>1, <2>2, <2>3, <2>4 DEF AskedInv, SentBy
  <1>4. ASSUME NEW p \in People, Insert(p)
        PROVE  AskedInv'
    <2>1. /\ put'[p].new = Written(p) /\ put'[p].step = "commit"
          /\ put'[p].no = put[p].no /\ put'[p].wanted = put[p].wanted
          /\ UNCHANGED <<rows, sent>> /\ \A q \in People \ {p} : put'[q] = put[q]
      BY <1>4, InsertWrites
    <2>2. [no |-> put[p].no, buckets |-> put[p].wanted] \in sent
      BY <1>4 DEF Insert, AskedInv
    <2>3. \A row \in Written(p) : SentBy(row)
      BY <2>2 DEF SentBy, Written
    <2> QED
      BY <2>1, <2>2, <2>3 DEF AskedInv, SentBy
  <1>5. ASSUME NEW p \in People, BeginDelete(p) \/ Delete(p) \/ DropCopy(p) \/ PutFails(p)
        PROVE  AskedInv'
    <2> DEFINE keeps(w) == w # NoPut => /\ put[p].step \in {"begin", "delete"}
                                        /\ w.new = put[p].new /\ w.no = put[p].no
                                        /\ w.wanted = put[p].wanted
    <2>1. UNCHANGED <<rows, sent>> /\ \E w : keeps(w) /\ put' = [put EXCEPT ![p] = w]
      <3>1. CASE BeginDelete(p)
        <4>1. put' = [put EXCEPT ![p] = [put[p] EXCEPT !.step = "delete", !.snapshot = rows]]
          BY <3>1, <1>1 DEF BeginDelete
        <4> QED
          BY <1>1, <3>1, <4>1 DEF BeginDelete, Puts
      <3>2. CASE Delete(p)
        <4>1. put' = [put EXCEPT ![p] = [put[p] EXCEPT !.step = "insert", !.gone = Deletes(p)]]
          BY <3>2, <1>1 DEF Delete
        <4> QED
          BY <1>1, <3>2, <4>1 DEF Delete, Puts
      <3>3. CASE DropCopy(p) \/ PutFails(p)
        BY <3>3 DEF DropCopy, PutFails
      <3> QED
        BY <1>5, <3>1, <3>2, <3>3
    <2> HIDE DEF keeps
    <2>2. PICK w : keeps(w) /\ put' = [put EXCEPT ![p] = w]
      BY <2>1
    <2>3. put'[p] = w /\ \A q \in People \ {p} : put'[q] = put[q]
      BY <1>1, <2>2
    <2> QED
      BY <1>2, <2>1, <2>2, <2>3 DEF AskedInv, SentBy, keeps
  <1>6. ASSUME NEW p \in People, CommitPut(p)
        PROVE  AskedInv'
    <2>1. /\ rows' = (rows \ put[p].gone) \cup put[p].new /\ sent' = sent
          /\ \A q \in People \ {p} : put'[q] = put[q]
          /\ put'[p].step = "drop" /\ put'[p].new = {}
      BY <1>1, <1>2, <1>6 DEF CommitPut, NoPut
    <2> QED
      BY <2>1 DEF AskedInv, SentBy
  <1>7. ASSUME UNCHANGED <<rows, put, sent>> PROVE AskedInv'
    BY <1>7 DEF AskedInv, SentBy
  <1>8. CASE \/ \E p \in People : fetchBuckets(p)
             \/ \E a \in Allocators : get_all(a) \/ cache_put(a)
             \/ CopyExpires \/ UNCHANGED bucketVars
    BY <1>7, <1>8 DEF fetchBuckets, get_all, cache_put, CopyExpires, bucketVars
  <1> QED
    BY <1>3, <1>4, <1>5, <1>6, <1>8 DEF BucketNext, Put

\* The step of a request that has the table to itself.
LEMMA ReplaceStep ==
  ASSUME BucketInv, AskedInv, ReplaceInv, Alone, Alone', [BucketNext]_bucketVars
  PROVE  ReplaceInv'
  <1>1. put \in [People -> Puts] /\ \A p \in People : put[p] \in Puts
    BY DEF BucketInv, BucketTypeOK, Puts
  <1>2. NoPut.step = "idle" /\ NoPut.new = {}
    BY DEF NoPut
  <1>3. ASSUME NEW p \in People, NEW b \in Buckets, toggleBucket(p, b)
        PROVE  ReplaceInv'
    <2>1. /\ rows' = rows /\ sent \subseteq sent'
          /\ \A q \in People \ {p} : put'[q] = put[q]
          /\ put'[p].step = "begin"
      BY <1>1, <1>3 DEF toggleBucket, NoPut
    <2> QED
      BY <2>1 DEF ReplaceInv
  <1>4. ASSUME NEW p \in People, BeginDelete(p)
        PROVE  ReplaceInv'
    <2>1. /\ UNCHANGED <<rows, sent>> /\ \A q \in People \ {p} : put'[q] = put[q]
          /\ put'[p].step = "delete" /\ put'[p].snapshot = rows
      BY <1>1, <1>4 DEF BeginDelete, Puts
    <2> QED
      BY <2>1 DEF ReplaceInv
  <1>5. ASSUME NEW p \in People, Delete(p)
        PROVE  ReplaceInv'
    <2>1. put[p].step = "delete" /\ UNCHANGED <<rows, sent>>
      BY <1>5 DEF Delete
    <2>2. put[p].snapshot = rows
      BY <2>1 DEF ReplaceInv
    <2>3. put' = [put EXCEPT ![p] = [put[p] EXCEPT !.step = "insert", !.gone = rows]]
      BY <1>1, <1>5, <2>2 DEF Delete, Deletes
    <2>4. /\ \A q \in People \ {p} : put'[q] = put[q]
          /\ put'[p].step = "insert" /\ put'[p].gone = rows
      BY <1>1, <2>3 DEF Puts
    <2> QED
      BY <2>1, <2>4 DEF ReplaceInv
  <1>6. ASSUME NEW p \in People, Insert(p)
        PROVE  ReplaceInv'
    <2>1. /\ put'[p].new = Written(p) /\ put'[p].step = "commit"
          /\ put'[p].wanted = put[p].wanted /\ put'[p].gone = put[p].gone
          /\ UNCHANGED <<rows, sent>> /\ \A q \in People \ {p} : put'[q] = put[q]
      BY <1>6, InsertWrites
    <2>2. put[p].gone = rows
      BY <1>6 DEF Insert, ReplaceInv
    <2>3. Of(rows \ put[p].gone) = {}
      BY <2>2 DEF Of
    <2>4. Written(p) = [bucket : put[p].wanted, no : {put[p].no}]
      BY <2>3 DEF Written
    <2>5. Of(Written(p)) = put[p].wanted
      <3>1. \A b \in put[p].wanted : \E row \in Written(p) : row.bucket = b
        <4> SUFFICES ASSUME NEW b \in put[p].wanted PROVE \E row \in Written(p) : row.bucket = b
          OBVIOUS
        <4> DEFINE row == [bucket |-> b, no |-> put[p].no]
        <4>1. row \in [bucket : put[p].wanted, no : {put[p].no}] /\ row.bucket = b
          OBVIOUS
        <4> HIDE DEF row
        <4> QED
          BY <2>4, <4>1
      <3>2. \A row \in Written(p) : row.bucket \in put[p].wanted
        BY <2>4
      <3> QED
        BY <3>1, <3>2 DEF Of
    <2> QED
      BY <2>1, <2>2, <2>5 DEF ReplaceInv
  <1>7. ASSUME NEW p \in People, CommitPut(p)
        PROVE  ReplaceInv'
    <2>1. /\ rows' = (rows \ put[p].gone) \cup put[p].new /\ sent' = sent
          /\ \A q \in People \ {p} : put'[q] = put[q]
          /\ put'[p].step = "drop" /\ put[p].step = "commit"
      BY <1>1, <1>2, <1>7 DEF CommitPut, NoPut
    <2>2. rows' = put[p].new /\ Of(rows') = put[p].wanted
      BY <2>1 DEF ReplaceInv
    <2>3. \E s \in sent : s.buckets = Of(rows')
      BY <2>1, <2>2 DEF AskedInv
    <2>4. \A q \in People \ {p} : ~(put'[q].step \in {"delete", "insert", "commit"})
      BY <2>1 DEF Alone, Writing
    <2> QED
      BY <2>1, <2>3, <2>4 DEF ReplaceInv
  <1>8. ASSUME NEW p \in People, DropCopy(p) \/ PutFails(p)
        PROVE  ReplaceInv'
    <2>1. /\ UNCHANGED <<rows, sent>> /\ \A q \in People \ {p} : put'[q] = put[q]
          /\ put'[p] = NoPut
      BY <1>1, <1>8 DEF DropCopy, PutFails
    <2> QED
      BY <1>2, <2>1 DEF ReplaceInv
  <1>9. CASE \/ \E p \in People : fetchBuckets(p)
             \/ \E a \in Allocators : get_all(a) \/ cache_put(a)
             \/ CopyExpires \/ UNCHANGED bucketVars
    <2>1. UNCHANGED <<rows, put, sent>>
      BY <1>9 DEF fetchBuckets, get_all, cache_put, CopyExpires, bucketVars
    <2> QED
      BY <2>1 DEF ReplaceInv
  <1> QED
    BY <1>3, <1>4, <1>5, <1>6, <1>7, <1>8, <1>9 DEF BucketNext, Put

\* However requests overlap, fail and repeat an old page's set: the reviewer is
\* connected to no bucket that nobody asked for (rows of set_reviewer_buckets).
THEOREM BucketsWereAskedFor ==
  Spec => [](Of(rows) \subseteq UNION {s.buckets : s \in sent})
  <1>1. AskedInv => Of(rows) \subseteq UNION {s.buckets : s \in sent}
    BY DEF AskedInv, SentBy, Of
  <1>2. Init => AskedInv
    BY BucketsBegin DEF Init
  <1>3. PagesInv /\ AskedInv /\ [Next]_pagesVars => AskedInv'
    BY OnePage, AskedStep DEF PagesInv
  <1> QED
    BY <1>1, <1>2, <1>3, PagesAlwaysInv, PTL DEF Spec

\* What set_reviewer_buckets says of itself, a request replaces the set, is true as
\* long as no two transactions overlap: overlap is the only way it fails.
THEOREM ReplacedWhenAlone == Spec /\ []Alone => []Replaces
  <1>1. ReplaceInv => Replaces
    BY DEF ReplaceInv, Replaces
  <1>2. Init => AskedInv /\ ReplaceInv
    BY BucketsBegin DEF Init
  <1>3. PagesInv /\ AskedInv /\ ReplaceInv /\ Alone /\ Alone' /\ [Next]_pagesVars
          => AskedInv' /\ ReplaceInv'
    BY OnePage, AskedStep, ReplaceStep DEF PagesInv
  <1> QED
    BY <1>1, <1>2, <1>3, PagesAlwaysInv, PTL DEF Spec
===========================================================================
