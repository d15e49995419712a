--------------------------- MODULE MCOutwardPages ---------------------------
(* Two cheques on each page of the outward side; three scanner sessions.    *)
EXTENDS OutwardPages
===========================================================================
