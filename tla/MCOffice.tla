------------------------------- MODULE MCOffice -------------------------------
(* An estimate is asked for, or reviewed.  Asked for: for a property with a lead   *)
(* and for one that is created.  Reviewed: by a manager and a chief executive over *)
(* a ladder of two bands, with an unbounded row below them, as migration 068 adds  *)
(* for administrators.  In the third scene a management company is made or edited. *)
EXTENDS ApprovalReview, TLC

CONSTANTS
  \* what is asked for
  Properties, Fresh, Leads, LeadOf, Blank, Deadlines, Window, Fallback, FileKinds,
  MaxTypings, MaxOpens, MaxCreates, MaxDrafts, MaxFaults,
  \* the panel
  Sites, Names, Titles, Empty, MaxTyped, MaxClicks, MaxLosses,
  \* model values
  p1, fresh, l1, mgr, boss, manager, ceo, admin, maintenance, install

VARIABLES scene, type, page, lookups, making, run, creates, drafts, wires, typings, opens, faults, last, spoilt,
  mode, company, list, fetch, shown, stage, fields, sent, requests, told, typed, clicks, losses

Asking == INSTANCE Intake WITH
  Types <- {"maintenance", "install"}, None <- Blank, Overlap <- FALSE, MaxEdits <- MaxTypings, MaxMishaps <- MaxFaults,
  form <- page, calls <- wires, edits <- typings, mishaps <- faults

Panel == INSTANCE CompanyPanel WITH Overlap <- FALSE

MCLeadOf == p1 :> l1 @@ fresh :> Blank
MCDeadlines == {-1, 1}
MCTypings == "maintenance" :> 2 @@ "install" :> 1
MCOpens == "maintenance" :> 1 @@ "install" :> 2
MCCreates == "maintenance" :> 2 @@ "install" :> 1

MCDesks == {mgr, boss}
MCRoleOf == [s \in MCDesks |-> IF s = mgr THEN manager ELSE ceo]
MCCanonical == <<manager, ceo, admin>>
MCTabs == {manager, ceo}
MCOrder == [r \in Roles |-> CASE r = manager -> 1 [] r = ceo -> 2 [] OTHER -> 3]
MCFloor == [r \in Roles |-> IF r = ceo THEN 110 ELSE 0]
MCDrafted == [status |-> "in_progress", value |-> 105, margin |-> 20, comp |-> 0]
MCSeed == [r \in Roles |-> IF r = manager THEN 110 ELSE Unbounded]

ASSUME OfficeAssumption == Asking!IntakeAssumption /\ Panel!PanelAssumption

asking == <<type, page, lookups, making, run, creates, drafts, wires, typings, opens, faults, last, spoilt>>

paneling == <<mode, company, list, fetch, shown, stage, fields, sent, requests, told, typed, clicks, losses>>

OfficeInit ==
  /\ scene \in {"asking", "review", "company"}
  /\ Init /\ Asking!Init /\ Panel!Init
  /\ scene # "asking" => type = "install"
  /\ scene # "company" => mode = "create"
OfficeNext ==
  /\ UNCHANGED scene
  /\ \/ scene = "asking" /\ Asking!Next /\ UNCHANGED <<vars, paneling>>
     \/ scene = "review" /\ Next /\ UNCHANGED <<asking, paneling>>
     \/ scene = "company" /\ Panel!Next /\ UNCHANGED <<vars, asking>>
OfficeSpec == OfficeInit /\ [][OfficeNext]_<<scene, vars, asking, paneling>>

\* What a form was told is stored: an estimate is built in order and is whole once its form heard
\* of it, the draft that was saved last is the one draft there is, and the contacts of a company
\* are the rows of the panel that was saved, each as often as it was typed.
RequestsAreKept == Asking!EstimateIsWhole /\ Asking!DraftsFollow /\ Panel!SavedIsStored
\* What leaves the form is what it showed.
SentAsShown == Asking!SentAsShown
===============================================================================
