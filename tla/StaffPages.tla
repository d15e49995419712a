----------------------------- MODULE StaffPages -----------------------------
(***************************************************************************)
(* The pages of reviewers, of the keepers of the paper originals and of    *)
(* administrators, each with the part of the server it works on, behind    *)
(* the router of the web application: what a page keeps is gone when       *)
(* another one is opened, so each works alone.                             *)
(***************************************************************************)
EXTENDS ReviewScreen, HoldDesk, ConfigChange, ConfigScreen, Custody, BucketDesk

VARIABLE route

StaffRoutes == {"inward-review", "holds", "changes", "settings", "custody", "buckets"}

pagesVars == <<route, reviewVars, holdVars, configVars, configScreenVars,
               custodyVars, bucketVars>>

Init ==
  /\ route \in StaffRoutes
  /\ ReviewInit /\ HoldInit /\ ConfigInit /\ ConfigScreenInit /\ CustodyInit /\ BucketInit

OnReview   == /\ route = "inward-review" /\ ReviewNext
              /\ UNCHANGED <<route, holdVars, configVars, configScreenVars, custodyVars, bucketVars>>
OnHolds    == /\ route = "holds" /\ HoldNext
              /\ UNCHANGED <<route, reviewVars, configVars, configScreenVars, custodyVars, bucketVars>>
OnChanges  == /\ route = "changes" /\ ConfigNext
              /\ UNCHANGED <<route, reviewVars, holdVars, configScreenVars, custodyVars, bucketVars>>
OnSettings == /\ route = "settings" /\ ConfigScreenNext
              /\ UNCHANGED <<route, reviewVars, holdVars, configVars, custodyVars, bucketVars>>
OnCustody  == /\ route = "custody" /\ CustodyNext
              /\ UNCHANGED <<route, reviewVars, holdVars, configVars, configScreenVars, bucketVars>>
OnBuckets  == /\ route = "buckets" /\ BucketNext
              /\ UNCHANGED <<route, reviewVars, holdVars, configVars, configScreenVars, custodyVars>>

Next == OnReview \/ OnHolds \/ OnChanges \/ OnSettings \/ OnCustody \/ OnBuckets

(* The list is asked for at its interval; the escalation's timers fire and *)
(* its activities run; requests go on; cached values expire.               *)
Fairness ==
  /\ WF_reviewVars(route = "inward-review" /\ Refresh)
  /\ WF_holdVars(route = "holds" /\ Workflow) /\ WF_holdVars(route = "holds" /\ Requests)
  /\ WF_configVars(route = "changes" /\ Expire)
  /\ \A r \in Readers : WF_configVars(route = "changes" /\ setex(r))
  /\ \A p \in People : /\ WF_bucketVars(route = "buckets" /\ Put(p))
                       /\ WF_bucketVars(route = "buckets" /\ fetchBuckets(p))
  /\ \A a \in Allocators : WF_bucketVars(route = "buckets" /\ cache_put(a))
  /\ WF_bucketVars(route = "buckets" /\ CopyExpires)

Spec == Init /\ [][Next]_pagesVars /\ Fairness

(* The pages and their servers keep their shape.                           *)
TypeOK ==
  /\ ReviewTypeOK /\ HoldTypeOK /\ ConfigTypeOK /\ ConfigScreenTypeOK
  /\ CustodyTypeOK /\ BucketTypeOK

(* Nobody stays behind: a review that has ended leaves the list, whatever  *)
(* its reviewer does, two administrators who are done come to see the same *)
(* buckets, and the services come to read the value in force.              *)
PagesCatchUp == EndedLeaveList /\ <>[](PagesAgree /\ NewValueIsRead)
===========================================================================
