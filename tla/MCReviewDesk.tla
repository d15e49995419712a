--------------------------- MODULE MCReviewDesk ---------------------------
(* Reviewers are interchangeable.                                          *)
EXTENDS ReviewDesk, TLC

Symmetry == Permutations(Reviewers)
===========================================================================
