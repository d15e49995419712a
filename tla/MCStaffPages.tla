---------------------------- MODULE MCStaffPages ----------------------------
(* Two cheques under review, one cheque held twice, two changes of one      *)
(* setting and two services that read it, two originals in two batches,     *)
(* one reviewer and two buckets.                                            *)
EXTENDS StaffPages
===========================================================================
