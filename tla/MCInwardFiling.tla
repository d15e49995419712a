-------------------------- MODULE MCInwardFiling --------------------------
(* The instance TLC checks: a deadline six minutes away.                   *)
EXTENDS InwardFiling

ReviewTimeoutsMC == {1, 4}
===========================================================================
