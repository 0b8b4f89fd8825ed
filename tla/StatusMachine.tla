---------------------------- MODULE StatusMachine ----------------------------
(***************************************************************************)
(* The estimate status machine both transitions.ts and estimating.py name  *)
(* as the one place lifecycle rules live: what a status change may be,     *)
(* each change one step.                                                   *)
(***************************************************************************)

CONSTANT
    InitialStatus   \* statuses a created estimate may have (body.status)

VARIABLES
    status,     \* estimates.status
    lifecycle   \* estimates.lifecycle; aspire_owner is written along with it

machineVars == <<status, lifecycle>>

Status == {"new_from_sales", "queued", "in_progress", "review", "pending_approval",
           "approved", "handed_back", "won", "lost"}

Lifecycle == {"bidding", "won"}

STATUS_TRANSITIONS ==
    [s \in Status |->
        CASE s = "new_from_sales"   -> {"queued", "in_progress"}
          [] s = "queued"           -> {"in_progress"}
          [] s = "in_progress"      -> {"review", "pending_approval", "approved"}
          [] s = "review"           -> {"in_progress", "pending_approval", "approved"}
          [] s = "pending_approval" -> {"in_progress", "approved"}
          [] s = "approved"         -> {"handed_back"}
          [] s = "handed_back"      -> {"won", "lost"}
          [] OTHER                  -> {}]

CanTransition(from, to) == to \in STATUS_TRANSITIONS[from]

CanApproveAndHandBack(s) == s = "approved" \/ CanTransition(s, "approved")

ASSUME InitialStatusAssumption == InitialStatus \subseteq Status

-----------------------------------------------------------------------------

Init ==
    /\ status \in InitialStatus
    /\ lifecycle = "bidding"

\* One legal edge; entering won transfers the estimate to the CRM.
Transition(to) ==
    /\ CanTransition(status, to)
    /\ status' = to
    /\ lifecycle' = IF to = "won" THEN "won" ELSE lifecycle

\* The approval CTA chains approved -> handed_back in one merged patch.
ApproveAndHandBack ==
    /\ CanApproveAndHandBack(status)
    /\ status' = "handed_back"
    /\ UNCHANGED lifecycle

\* Bidding <-> Won, set on its own.
FlipLifecycle ==
    /\ lifecycle' \in Lifecycle
    /\ UNCHANGED status

Next ==
    \/ \E to \in Status : Transition(to)
    \/ ApproveAndHandBack
    \/ FlipLifecycle

Spec == Init /\ [][Next]_machineVars
=============================================================================
