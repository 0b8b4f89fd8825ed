---------------------------- MODULE MCSalesClose -----------------------------
(* Small instances of SalesClose. *)
EXTENDS SalesClose

CONSTANTS r1, r2, old, new, i1

MCNew == {"new_from_sales"}
MCHandedBack == {"handed_back"}
MCOne == {r1}
MCTwo == {r1, r2}
MCRates == {old, new}
MCNoRates == {}
MCConfigured == {old, new}

\* A construction commission: one row, its amount unknown until billing.
MCInstall == {i1}
MCInstallBuilt == [i \in MCInstall |-> [status |-> "pending_billing_data", known |-> FALSE]]
=============================================================================
