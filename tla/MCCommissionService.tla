------------------------ MODULE MCCommissionService -------------------------
(* Small instances of CommissionService. *)
EXTENDS CommissionService

CONSTANTS t1, t2, i1, i2, i3

\* Two transactions already collide in every pair of operations.
MCTxn == {t1, t2}

\* Payments 1 to 3 of a maintenance commission: one due at once, one whose
\* amount is known before it may be paid, one that waits for its amount.
MCMaintenance == {i1, i2, i3}
MCMaintenanceBuilt ==
    [i \in MCMaintenance |->
        CASE i = i1 -> [status |-> "scheduled", known |-> TRUE]
          [] i = i2 -> [status |-> "pending_billing_data", known |-> TRUE]
          [] i = i3 -> [status |-> "pending_billing_data", known |-> FALSE]]
=============================================================================
