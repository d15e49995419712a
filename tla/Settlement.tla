---------------------------- MODULE Settlement ----------------------------
(***************************************************************************)
(* What the inward side of CTS promises about one presented cheque, with   *)
(* no workflow in sight.  The clearing house holds at most one decision    *)
(* for the cheque and never a second one; if the platform could not get a  *)
(* decision filed it says so by raising an alarm.  InwardFiling implements *)
(* this specification.                                                     *)
(***************************************************************************)
CONSTANTS Decisions,    \* what may be filed: CONFIRM or RETURN
          Pending       \* the register before anything was filed

VARIABLES outcome,      \* the decision the clearing house holds
          alarmed       \* an audited "emergency filing failed"

vars == <<outcome, alarmed>>

Init == outcome = Pending /\ alarmed = FALSE

(* The first filing that reaches the clearing house wins for ever.         *)
Settle(d) == outcome = Pending /\ outcome' = d /\ UNCHANGED alarmed

(* The alarm can also be a false one: the failed attempt may have landed.  *)
Alarm == alarmed' = TRUE /\ UNCHANGED outcome

Next == Alarm \/ \E d \in Decisions : Settle(d)

(* The cheque never stays unsettled in silence.                            *)
Resolved == outcome # Pending \/ alarmed

Safe == Init /\ [][Next]_vars

Spec == Safe /\ <>Resolved
===========================================================================
