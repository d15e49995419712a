----------------------------- MODULE BucketDesk -----------------------------
(***************************************************************************)
(* The buckets one reviewer is connected to: rows of a table that two      *)
(* administrators replace from their allocation pages, each with the page  *)
(* they have, and that allocation reads through a Redis copy.  Replacing   *)
(* is a transaction of PostgreSQL's default kind: every statement works on *)
(* what was committed when it began, and waits for rows others are at.     *)
(***************************************************************************)
EXTENDS WebClient

CONSTANTS
  Buckets,     \* the buckets reviewers are connected to
  Allocators,  \* processes that allocate
  MaxPuts      \* bound on the sets of buckets sent

ASSUME MaxPutsAssumption == MaxPuts \in Nat

VARIABLES
  rows,     \* the committed rows: a bucket and the number of the request that wrote it
  put,      \* each administrator's request
  sent,     \* history: the sets sent so far, in order
  copy,     \* the Redis copy
  lookup,   \* what an allocator read from the table and has yet to copy
  connected \* each administrator's page: the reviewer's buckets

bucketVars == <<rows, put, sent, copy, lookup, connected>>

Row    == [bucket : Buckets, no : 1..MaxPuts]
NoPut  == [step |-> "idle", no |-> 0, wanted |-> {}, snapshot |-> {}, gone |-> {}, new |-> {}]
NoCopy == [on |-> FALSE, value |-> {}]
Of(R)  == {row.bucket : row \in R}

BucketInit ==
  /\ rows = {} /\ sent = {}
  /\ put = [p \in People |-> NoPut]
  /\ copy = NoCopy
  /\ lookup = [a \in Allocators |-> NoCopy]
  /\ connected = [p \in People |-> {}]

----------------------------------------------------------------------------
(* The page *)

(* Every 30 seconds: the overview comes from the copy, too.                *)
fetchBuckets(p) ==
  /\ connected' = [connected EXCEPT ![p] = IF copy.on THEN copy.value ELSE Of(rows)]
  /\ copy' = IF copy.on THEN copy ELSE [on |-> TRUE, value |-> Of(rows)]
  /\ UNCHANGED <<rows, put, sent, lookup>>

(* A tick changes one bucket of the set the page has and sends the set.    *)
(* All boxes are disabled until the answer is there.                       *)
toggleBucket(p, b) ==
  /\ put[p] = NoPut /\ Cardinality(sent) < MaxPuts
  /\ LET next == IF b \in connected[p] THEN connected[p] \ {b} ELSE connected[p] \cup {b}
         no   == Cardinality(sent) + 1 IN
     /\ put' = [put EXCEPT ![p] = [NoPut EXCEPT !.step = "begin", !.no = no, !.wanted = next]]
     /\ sent' = sent \cup {[no |-> no, buckets |-> next]}
  /\ UNCHANGED <<rows, copy, lookup, connected>>

----------------------------------------------------------------------------
(* set_reviewer_buckets: what it reads first is for the audit entry only   *)

OthersAt(p) == UNION {put[q].gone \cup put[q].new : q \in People \ {p}}

(* SQL_DELETE_FOR_REVIEWER begins: these are the rows it will delete.      *)
BeginDelete(p) ==
  /\ put[p].step = "begin"
  /\ put' = [put EXCEPT ![p].step = "delete", ![p].snapshot = rows]
  /\ UNCHANGED <<rows, sent, copy, lookup, connected>>

Deletes(p) == put[p].snapshot \cap rows

Delete(p) ==
  /\ put[p].step = "delete" /\ put[p].snapshot \cap OthersAt(p) = {}
  /\ put' = [put EXCEPT ![p].step = "insert", ![p].gone = Deletes(p)]
  /\ UNCHANGED <<rows, sent, copy, lookup, connected>>

(* SQL_INSERT for each bucket: ON CONFLICT DO NOTHING.                     *)
Insert(p) ==
  /\ put[p].step = "insert" /\ put[p].wanted \cap Of(OthersAt(p)) = {}
  /\ put' = [put EXCEPT ![p].step = "commit",
               ![p].new = [bucket : put[p].wanted \ Of(rows \ put[p].gone), no : {put[p].no}]]
  /\ UNCHANGED <<rows, sent, copy, lookup, connected>>

CommitPut(p) ==
  /\ put[p].step = "commit"
  /\ rows' = (rows \ put[p].gone) \cup put[p].new
  /\ put' = [put EXCEPT ![p] = [NoPut EXCEPT !.step = "drop"]]
  /\ UNCHANGED <<sent, copy, lookup, connected>>

(* Then the copy is dropped, unless Redis fails; the answer has the page   *)
(* asked for again.                                                        *)
DropCopy(p) ==
  /\ put[p].step = "drop"
  /\ put' = [put EXCEPT ![p] = NoPut]
  /\ copy' \in {copy, NoCopy}
  /\ UNCHANGED <<rows, sent, lookup, connected>>

(* The request or its transaction fails.                                   *)
PutFails(p) ==
  /\ put[p].step \in {"begin", "delete", "insert", "commit"}
  /\ put' = [put EXCEPT ![p] = NoPut]
  /\ UNCHANGED <<rows, sent, copy, lookup, connected>>

----------------------------------------------------------------------------
(* Allocation: get_all reads the table when there is no copy *)

get_all(a) ==
  /\ ~copy.on /\ ~lookup[a].on
  /\ lookup' = [lookup EXCEPT ![a] = [on |-> TRUE, value |-> Of(rows)]]
  /\ UNCHANGED <<rows, put, sent, copy, connected>>

cache_put(a) ==
  /\ lookup[a].on
  /\ copy' = lookup[a]
  /\ lookup' = [lookup EXCEPT ![a] = NoCopy]
  /\ UNCHANGED <<rows, put, sent, connected>>

CopyExpires ==
  /\ copy.on /\ copy' = NoCopy
  /\ UNCHANGED <<rows, put, sent, lookup, connected>>

----------------------------------------------------------------------------
Put(p) == BeginDelete(p) \/ Delete(p) \/ Insert(p) \/ CommitPut(p) \/ DropCopy(p)

BucketNext ==
  \/ \E p \in People : Put(p) \/ PutFails(p) \/ fetchBuckets(p)
                       \/ \E b \in Buckets : toggleBucket(p, b)
  \/ \E a \in Allocators : get_all(a) \/ cache_put(a)
  \/ CopyExpires

BucketSpec == BucketInit /\ [][BucketNext]_bucketVars

----------------------------------------------------------------------------
(* Properties *)

BucketTypeOK ==
  /\ rows \subseteq Row
  /\ put \in [People -> [step : {"idle", "begin", "delete", "insert", "commit", "drop"},
                         no : 0..MaxPuts, wanted : SUBSET Buckets,
                         snapshot : SUBSET Row, gone : SUBSET Row, new : SUBSET Row]]
  /\ sent \subseteq [no : 1..MaxPuts, buckets : SUBSET Buckets]
  /\ copy \in [on : BOOLEAN, value : SUBSET Buckets]
  /\ lookup \in [Allocators -> [on : BOOLEAN, value : SUBSET Buckets]]
  /\ connected \in [People -> SUBSET Buckets]

(* What both pages come to, and every allocator with them, once the        *)
(* administrators stop: the buckets the table has, although a page may     *)
(* send an old set, a copy may be overwritten by an older one and may fail *)
(* to be dropped.                                                          *)
PagesAgree == \A p \in People : connected[p] = Of(rows)

(* What set_reviewer_buckets and its endpoint say: a request replaces the  *)
(* set.  So when none is under way the reviewer has a set that was sent.   *)
Replaces ==
  (\A p \in People : put[p] = NoPut) /\ rows # {} =>
    \E s \in sent : s.buckets = Of(rows)
===========================================================================
