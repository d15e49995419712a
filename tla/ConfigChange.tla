---------------------------- MODULE ConfigChange -----------------------------
(***************************************************************************)
(* One setting of a bank, the changes staff propose to it and the services *)
(* that read it.  A change is a row an operations manager writes and an IT *)
(* administrator approves in a transaction that also writes the value in   *)
(* force and the audit entry.  Services read the value through a Redis     *)
(* cache.  The event an approval publishes names the setting without its   *)
(* module and so deletes a key nothing is cached under: it is left out.    *)
(***************************************************************************)
EXTENDS WebClient

CONSTANTS
  Changes,     \* the changes proposed, each with a value of its own
  Readers,     \* services that read the setting
  MaxFaults    \* bound on failures of the database and the audit trail, and on crashes

ASSUME ChangesAssumption == None \notin Changes
ASSUME FaultsAssumption == MaxFaults \in Nat

VARIABLES
  change,     \* the rows of platform.config_pending_changes
  value,      \* platform.config_values: the change whose value is in force
  approval,   \* each administrator's approval in progress
  audit,      \* the approvals the audit trail took
  cache,      \* the cached value
  reads,      \* what a service read from the database and has yet to cache
  faults

configVars == <<change, value, approval, audit, cache, reads, faults>>
readPath   == <<cache, reads>>

Absent    == [holds |-> FALSE, value |-> None, ttl |-> TRUE]
NoRead    == [on |-> FALSE, value |-> None]
NoApproval == [step |-> "idle", change |-> None]

ConfigInit ==
  /\ change = [c \in Changes |-> [status |-> "none", by |-> None, actioned |-> None]]
  /\ value = None
  /\ approval = [p \in People |-> NoApproval]
  /\ audit = {}
  /\ cache = Absent /\ reads = [r \in Readers |-> NoRead]
  /\ faults = 0

Fault   == faults < MaxFaults /\ faults' = faults + 1
Pending(c) == change[c].status = "PENDING_APPROVAL"
Entry(c, p) == [approved |-> c, by |-> p]

----------------------------------------------------------------------------
(* Proposing and rejecting: both are audited afterwards, which is left out. *)

(* A row that cannot be written is logged; the answer is the same.         *)
submit_threshold_change(c, m) ==
  /\ change[c].status = "none"
  /\ \/ /\ change' = [change EXCEPT ![c] = [status |-> "PENDING_APPROVAL", by |-> m,
                                           actioned |-> None]]
        /\ UNCHANGED faults
     \/ Fault /\ UNCHANGED change
  /\ UNCHANGED <<value, approval, audit, readPath>>

(* A transaction that has updated a row keeps everybody else from it, and  *)
(* from the row of the value in force.                                     *)
Locked    == \E p \in People : approval[p].step \in {"audit", "commit"}
LockedBy(c) == \E p \in People : approval[p].step \in {"audit", "commit"} /\ approval[p].change = c

(* Seeded bug: the row is rejected whatever its status.                    *)
RejectAnything(c, p) ==
  /\ change[c].status # "none" /\ ~LockedBy(c)
  /\ change' = [change EXCEPT ![c].status = "REJECTED", ![c].actioned = p]
  /\ UNCHANGED <<value, approval, audit, readPath, faults>>

reject_threshold_change(c, p) ==
  /\ Pending(c) /\ ~LockedBy(c)
  /\ \/ /\ change' = [change EXCEPT ![c].status = "REJECTED", ![c].actioned = p]
        /\ UNCHANGED faults
     \/ Fault /\ UNCHANGED change
  /\ UNCHANGED <<value, approval, audit, readPath>>

----------------------------------------------------------------------------
(* Approving *)

Goes(p, step) == approval' = [approval EXCEPT ![p].step = step]
Ends(p)       == approval' = [approval EXCEPT ![p] = NoApproval]

(* The transaction updates the row of a change that waits and is not the   *)
(* administrator's own; for any other the request is refused.  A database  *)
(* that fails is logged, and the request goes on to answer.                *)
Approvable(c, p) == Pending(c) /\ change[c].by # p

approve_threshold_change(c, p) ==
  /\ approval[p] = NoApproval /\ change[c].status # "none" /\ ~Locked
  /\ \/ Approvable(c, p) /\ UNCHANGED faults
        /\ approval' = [approval EXCEPT ![p] = [step |-> "audit", change |-> c]]
     \/ Fault /\ approval' = [approval EXCEPT ![p] = [step |-> "late", change |-> c]]
  /\ UNCHANGED <<change, value, audit, readPath>>

(* Seeded bug: the transaction commits what could not be audited.          *)
AuditLater(p) ==
  /\ approval[p].step = "audit"
  /\ Goes(p, "commit")
  /\ \/ audit' = audit \cup {Entry(approval[p].change, p)} /\ UNCHANGED faults
     \/ Fault /\ UNCHANGED audit
  /\ UNCHANGED <<change, value, readPath>>

(* Inside the transaction; what the audit trail does not take is undone.   *)
Audit(p) ==
  /\ approval[p].step = "audit"
  /\ \/ /\ audit' = audit \cup {Entry(approval[p].change, p)}
        /\ Goes(p, "commit") /\ UNCHANGED faults
     \/ Fault /\ Ends(p) /\ UNCHANGED audit
  /\ UNCHANGED <<change, value, readPath>>

(* A commit that fails is logged as well, and the answer is the same.      *)
Commit(p) ==
  /\ approval[p].step = "commit" /\ Ends(p)
  /\ LET c == approval[p].change IN
     /\ \/ /\ change' = [change EXCEPT ![c].status = "APPROVED", ![c].actioned = p]
           /\ value' = c
           /\ UNCHANGED faults
        \/ Fault /\ UNCHANGED <<change, value>>
  /\ UNCHANGED <<audit, readPath>>

(* Without a transaction the approval is audited, announced and answered.  *)
AuditAndAnswer(p) ==
  /\ approval[p].step = "late" /\ Ends(p)
  /\ \/ /\ audit' = audit \cup {Entry(approval[p].change, p)}
        /\ UNCHANGED faults
     \/ Fault /\ UNCHANGED audit
  /\ UNCHANGED <<change, value, readPath>>

(* The process dies; the database undoes what was not committed.           *)
Crash(p) ==
  /\ approval[p] # NoApproval /\ Fault /\ Ends(p)
  /\ UNCHANGED <<change, value, audit, readPath>>

----------------------------------------------------------------------------
(* Reading: config_service.get *)

get(r) ==
  /\ ~reads[r].on /\ ~cache.holds
  /\ reads' = [reads EXCEPT ![r] = [on |-> TRUE, value |-> value]]
  /\ UNCHANGED <<change, value, approval, audit, cache, faults>>

(* What was read goes into the cache, however long ago it was read.        *)
setex(r) ==
  /\ reads[r].on
  /\ reads' = [reads EXCEPT ![r] = NoRead]
  /\ cache' = [holds |-> TRUE, value |-> reads[r].value, ttl |-> TRUE]
  /\ UNCHANGED <<change, value, approval, audit, faults>>

Expire ==
  /\ cache.holds /\ cache.ttl
  /\ cache' = Absent
  /\ UNCHANGED <<change, value, approval, audit, reads, faults>>

----------------------------------------------------------------------------
ConfigNext ==
  \/ \E c \in Changes, p \in People :
       \/ submit_threshold_change(c, p) \/ reject_threshold_change(c, p)
       \/ approve_threshold_change(c, p)
  \/ \E p \in People : Audit(p) \/ Commit(p) \/ AuditAndAnswer(p) \/ Crash(p)
  \/ \E r \in Readers : get(r) \/ setex(r)
  \/ Expire

----------------------------------------------------------------------------
(* Properties *)

ConfigTypeOK ==
  /\ change \in [Changes -> [status : {"none", "PENDING_APPROVAL", "APPROVED", "REJECTED"},
                             by : People \cup {None}, actioned : People \cup {None}]]
  /\ value \in Changes \cup {None}
  /\ approval \in [People -> [step : {"idle", "audit", "commit", "late"},
                              change : Changes \cup {None}]]
  /\ audit \subseteq [approved : Changes, by : People]
  /\ cache \in [holds : BOOLEAN, value : Changes \cup {None}, ttl : BOOLEAN]
  /\ reads \in [Readers -> [on : BOOLEAN, value : Changes \cup {None}]]
  /\ faults \in 0..MaxFaults

(* What is in force was proposed by one person and approved by another,    *)
(* and the audit trail has the approval.  This is what the comment in the  *)
(* transaction promises: what cannot be audited is rolled back.            *)
InForceIsApproved ==
  value # None =>
    /\ change[value].status = "APPROVED" /\ change[value].actioned # change[value].by
    /\ Entry(value, change[value].actioned) \in audit

(* Once a change was approved or rejected it stays so, whatever requests   *)
(* for it were under way.                                                  *)
SettledOnce ==
  [][\A c \in Changes : change[c].status \in {"APPROVED", "REJECTED"} =>
                          change'[c] = change[c]]_configVars

(* Each change is the bank's decision of two people, as a checked decision *)
(* on a cheque is: somebody proposes it, somebody else approves it, once.  *)
(* The rule is never off here, and the system settles nothing.             *)
Rule(c) == INSTANCE FourEyes
             WITH Staff <- People, System <- None, Actions <- {"APPROVED"},
                  word <- [by |-> change[c].by,
                           action |-> IF change[c].by = None THEN None ELSE "APPROVED"],
                  filed <- IF change[c].status = "APPROVED"
                             THEN [times |-> 1, by |-> change[c].actioned, action |-> "APPROVED"]
                             ELSE [times |-> 0, by |-> None, action |-> None],
                  on <- TRUE
ApprovedByAnother ==
  /\ \A c \in Changes : Rule(c)!Nothing
  /\ [][\A c \in Changes : UNCHANGED Rule(c)!vars \/ Rule(c)!Next]_configVars

(* Both: a change is settled once, and if it is approved, by another.      *)
SettledByTwo == SettledOnce /\ ApprovedByAnother

(* The services come to read the value in force: a reader that cached an   *)
(* old value after the change spoils the cache for one time to live only.  *)
NewValueIsRead == cache.holds => cache.value = value
===========================================================================
