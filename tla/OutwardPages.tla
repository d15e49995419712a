---------------------------- MODULE OutwardPages ----------------------------
(***************************************************************************)
(* The pages on which a branch scans outward cheques and staff decide,     *)
(* check and file them, behind the router of the web application: a tab    *)
(* shows the page of its route, and what a page keeps is gone when another *)
(* one is opened, so each page works alone.                                *)
(***************************************************************************)
EXTENDS OutwardScreen, ValidationScreen, SubmissionScreen, ScannerScreen

VARIABLE route

OutwardRoutes == {"outward-queue", "validation", "submission", "scanner"}

pagesVars == <<route, outwardVars, validationVars, submissionVars, scannerVars>>

Init ==
  /\ route \in OutwardRoutes
  /\ OutwardInit /\ ValidationInit /\ SubmissionInit /\ ScannerInit

OnQueue      == /\ route = "outward-queue" /\ OutwardNext
                /\ UNCHANGED <<route, validationVars, submissionVars, scannerVars>>
OnValidation == /\ route = "validation" /\ ValidationNext
                /\ UNCHANGED <<route, outwardVars, submissionVars, scannerVars>>
OnSubmission == /\ route = "submission" /\ SubmissionNext
                /\ UNCHANGED <<route, outwardVars, validationVars, scannerVars>>
OnScanner    == /\ route = "scanner" /\ ScannerNext
                /\ UNCHANGED <<route, outwardVars, validationVars, submissionVars>>

Next == OnQueue \/ OnValidation \/ OnSubmission \/ OnScanner

(* Polls go on at their intervals, and lists that were asked for come.     *)
Fairness ==
  /\ WF_outwardVars(route = "outward-queue" /\ fetchLiveQueue)
  /\ \A a \in SUBSET Items :
       WF_outwardVars(route = "outward-queue" /\ a \in answers /\ setReview(a))
  /\ WF_validationVars(route = "validation" /\ useOutwardStagedQueue)
  /\ WF_validationVars(route = "validation" /\ \E a \in arriving : setInstruments(a))
  /\ WF_submissionVars(route = "submission" /\ useOutwardQueue)
  /\ WF_scannerVars(route = "scanner" /\ poll)
  /\ \A n \in 0..MaxScans : WF_scannerVars(route = "scanner" /\ setScans(n))

Spec == Init /\ [][Next]_pagesVars /\ Fairness

(* The pages keep their shape.                                             *)
TypeOK == OutwardTypeOK /\ ValidationTypeOK /\ SubmissionTypeOK /\ ScannerTypeOK

(* No page stays behind its server: a cheque that was staged, settled or   *)
(* decided elsewhere leaves the page that lists it for good, and a branch  *)
(* comes to see all it scanned, although lists arrive late and in any      *)
(* order.                                                                  *)
PagesCatchUp == StagedLeaves /\ SettledLeaves /\ DecidedLeave /\ FeedCatchesUp
===========================================================================
