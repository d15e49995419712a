--------------------------- MODULE MCOutwardStage ---------------------------
(* One outward cheque, two reviewers, two requests at once and two API       *)
(* processes that sweep.                                                     *)
EXTENDS OutwardStage
=============================================================================
