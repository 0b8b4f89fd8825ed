-------------------------- MODULE EstimateLifecycle --------------------------
(***************************************************************************)
(* One estimate's status as the API changes it: PATCH, approve-handback and*)
(* the lifecycle toggle are request handlers that read the row, then issue *)
(* several autocommitted statements with no lock or transaction around     *)
(* them.  Handlers interleave between statements, an administrator changes *)
(* the branch crew rate at any time, and the process may crash.            *)
(***************************************************************************)
EXTENDS StatusMachine

CONSTANTS
    Request,        \* concurrent HTTP requests on this estimate
    Rate,           \* crew rates an administrator may configure
    InitialRate,    \* the branch rates an estimate may be created under
    NoRate,         \* SQL NULL in a crew-rate column
    Maintenance,    \* estimate_type = 'maintenance' (else an install); immutable
    MayCrash        \* whether the API process may die

ASSUME LifecycleAssumption ==
    /\ NoRate \notin Rate
    /\ InitialRate \subseteq Rate \cup {NoRate}
    /\ Maintenance \in BOOLEAN /\ MayCrash \in BOOLEAN

VARIABLES
    crew,           \* estimates.crew_rate_cents_per_hour, the frozen snapshot
    prior,          \* estimates.prior_crew_rate_cents_per_hour
    branchRate,     \* branch_settings.crew_rate_cents_per_hour
    lead,           \* leads.status of the linked lead
    trail,          \* the estimate_status_transitions rows, as <<from, to>>
    tasks,          \* commission tasks in the process's memory
    pc,             \* the statement each request executes next
    to,             \* the target status (or lifecycle) of each request
    seen,           \* what its first SELECT returned
    seenRate,       \* the branch rate its snapshot SELECT returned
    draft,          \* the lifecycle an open maintenance editor has loaded
    submitted,      \* history: the rate frozen at the last submission, if any
    mishap          \* history: whether a crash has cut anything short

rowVars == <<status, lifecycle, crew, prior>>
requestVars == <<pc, to, seen, seenRate>>
vars == <<rowVars, branchRate, lead, trail, tasks, requestVars, draft, submitted, mishap>>

OptRate == Rate \cup {NoRate}

FREEZE_STATES == {"review", "pending_approval", "approved"}

LeadStatus == {"estimating", "op_review", "approved"}

\* Mutant of ESTIMATE_TO_LEAD_STATUS: a pending approval shows as approved.
LeadStatusTooEarly ==
    [s \in FREEZE_STATES |-> IF s = "review" THEN "op_review" ELSE "approved"]

ESTIMATE_TO_LEAD_STATUS ==
    [s \in FREEZE_STATES |-> IF s = "approved" THEN "approved" ELSE "op_review"]

Task == {"create_on_won", "cancel_for_estimate"}

Edge == Status \X Status

Step == {"idle",
         "patch_update", "patch_snapshot", "patch_freeze", "patch_tasks",
         "approve_update", "approve_first", "approve_last", "approve_lead",
         "flip_update", "flip_trail"}

LifecycleTypeOK ==
    /\ status \in Status
    /\ lifecycle \in Lifecycle
    /\ crew \in OptRate /\ prior \in OptRate /\ branchRate \in OptRate
    /\ lead \in LeadStatus
    /\ trail \subseteq Edge
    /\ tasks \subseteq Task
    /\ pc \in [Request -> Step]
    /\ to \in [Request -> Status \cup Lifecycle]
    /\ seen \in [Request -> [status : Status, crew : OptRate, lifecycle : Lifecycle]]
    /\ seenRate \in [Request -> OptRate]
    /\ draft \in Lifecycle
    /\ submitted \in OptRate
    /\ mishap \in BOOLEAN

Row == [status |-> status, crew |-> crew, lifecycle |-> lifecycle]

NoRow == [status |-> "new_from_sales", crew |-> NoRate, lifecycle |-> "bidding"]

\* A new estimate; a maintenance one has the live branch rate from create on.
LifecycleInit ==
    /\ Init
    /\ branchRate \in InitialRate
    /\ crew = IF Maintenance THEN branchRate ELSE NoRate
    /\ prior = NoRate
    /\ lead = "estimating"
    /\ trail = {} /\ tasks = {}
    /\ submitted = crew
    /\ draft = lifecycle
    /\ mishap = FALSE
    /\ pc = [r \in Request |-> "idle"]
    /\ to = [r \in Request |-> "new_from_sales"]
    /\ seen = [r \in Request |-> NoRow]
    /\ seenRate = [r \in Request |-> NoRate]

-----------------------------------------------------------------------------

Goto(r, step) == pc' = [pc EXCEPT ![r] = step]

\* The response is sent (or the request raised): its local variables go.
Respond(r) ==
    /\ Goto(r, "idle")
    /\ to' = [to EXCEPT ![r] = "new_from_sales"]
    /\ seen' = [seen EXCEPT ![r] = NoRow]
    /\ seenRate' = [seenRate EXCEPT ![r] = NoRate]

\* The first SELECT of a handler.
ReadRow(r, step, target) ==
    /\ pc[r] = "idle"
    /\ Goto(r, step)
    /\ to' = [to EXCEPT ![r] = target]
    /\ seen' = [seen EXCEPT ![r] = Row]
    /\ UNCHANGED <<rowVars, branchRate, lead, trail, tasks, seenRate, draft, submitted, mishap>>

Changes(r) == to[r] # seen[r].status

(* PATCH /estimates/{id} ----------------------------------------------------*)

\* Mutant of PatchRead: no 409 guard.
PatchReadAny(r, target) == ReadRow(r, "patch_update", target)

\* SELECT and the 409 guard: a legal edge, or the same status re-sent.
PatchRead(r, target) ==
    /\ target = status \/ CanTransition(status, target)
    /\ ReadRow(r, "patch_update", target)

\* The one UPDATE: no condition on the status that was read.
PatchUpdate(r) ==
    /\ pc[r] = "patch_update"
    /\ status' = to[r]
    /\ lifecycle' = IF to[r] = "won" THEN "won" ELSE lifecycle
    /\ submitted' = IF status \notin FREEZE_STATES /\ to[r] \in FREEZE_STATES
                    THEN crew ELSE submitted
    /\ Goto(r, IF Changes(r) THEN "patch_snapshot" ELSE "patch_tasks")
    /\ UNCHANGED <<crew, prior, branchRate, lead, trail, tasks, to, seen, seenRate, draft, mishap>>

\* Mutant of ClearSnapshot: the rate is cleared and not kept in prior.
ClearWithoutPrior(r) ==
    /\ pc[r] = "patch_snapshot"
    /\ to[r] = "in_progress"
    /\ crew' = NoRate
    /\ Goto(r, "patch_tasks")
    /\ UNCHANGED <<status, lifecycle, prior, branchRate, lead, trail, tasks, to, seen,
                   seenRate, draft, submitted, mishap>>

\* CLEAR: one atomic UPDATE from the row's own column.
ClearSnapshot(r) ==
    /\ pc[r] = "patch_snapshot"
    /\ to[r] = "in_progress"
    /\ prior' = crew
    /\ crew' = NoRate
    /\ Goto(r, "patch_tasks")
    /\ UNCHANGED <<status, lifecycle, branchRate, lead, trail, tasks, to, seen, seenRate,
                   draft, submitted, mishap>>

\* Mutant of ReadBranchRate: the rate is frozen anew on every entry.
ReadBranchRateAgain(r) ==
    /\ pc[r] = "patch_snapshot"
    /\ to[r] \in FREEZE_STATES
    /\ branchRate # NoRate
    /\ seenRate' = [seenRate EXCEPT ![r] = branchRate]
    /\ Goto(r, "patch_freeze")
    /\ UNCHANGED <<rowVars, branchRate, lead, trail, tasks, to, seen, draft, submitted, mishap>>

\* FREEZE, first half: SELECT the branch rate unless the row READ had one.
ReadBranchRate(r) ==
    /\ pc[r] = "patch_snapshot"
    /\ to[r] \in FREEZE_STATES
    /\ seen[r].crew = NoRate
    /\ branchRate # NoRate
    /\ seenRate' = [seenRate EXCEPT ![r] = branchRate]
    /\ Goto(r, "patch_freeze")
    /\ UNCHANGED <<rowVars, branchRate, lead, trail, tasks, to, seen, draft, submitted, mishap>>

\* FREEZE, second half.
FreezeRate(r) ==
    /\ pc[r] = "patch_freeze"
    /\ crew' = seenRate[r]
    /\ submitted' = seenRate[r]
    /\ Goto(r, "patch_tasks")
    /\ UNCHANGED <<status, lifecycle, prior, branchRate, lead, trail, tasks, to, seen, seenRate, draft, mishap>>

\* Mutant of KeepSnapshot: nothing is ever frozen.
KeepAnySnapshot(r) ==
    /\ pc[r] = "patch_snapshot"
    /\ to[r] # "in_progress"
    /\ Goto(r, "patch_tasks")
    /\ UNCHANGED <<rowVars, branchRate, lead, trail, tasks, to, seen, seenRate,
                   draft, submitted, mishap>>

\* PRESERVE: already frozen, no configured rate, or no frozen state at all.
KeepSnapshot(r) ==
    /\ pc[r] = "patch_snapshot"
    /\ to[r] # "in_progress"
    /\ \/ to[r] \notin FREEZE_STATES
       \/ seen[r].crew # NoRate
       \/ branchRate = NoRate
    /\ Goto(r, "patch_tasks")
    /\ UNCHANGED <<rowVars, branchRate, lead, trail, tasks, to, seen, seenRate,
                   draft, submitted, mishap>>

\* Mutant of PatchRespond: winning schedules no commission task.
PatchRespondOnly(r) ==
    /\ pc[r] = "patch_tasks"
    /\ lead' = IF Changes(r) /\ to[r] \in FREEZE_STATES
               THEN ESTIMATE_TO_LEAD_STATUS[to[r]] ELSE lead
    /\ Respond(r)
    /\ UNCHANGED <<rowVars, branchRate, trail, tasks, draft, submitted, mishap>>

\* The lead write-back, then the response; the commission task starts after it.
PatchRespond(r) ==
    /\ pc[r] = "patch_tasks"
    /\ lead' = IF Changes(r) /\ to[r] \in FREEZE_STATES
               THEN ESTIMATE_TO_LEAD_STATUS[to[r]] ELSE lead
    /\ tasks' = tasks \cup
                  (IF Changes(r) /\ to[r] = "won" THEN {"create_on_won"}
                   ELSE IF Changes(r) /\ to[r] = "lost" THEN {"cancel_for_estimate"}
                   ELSE {})
    /\ Respond(r)
    /\ UNCHANGED <<rowVars, branchRate, trail, draft, submitted, mishap>>

(* POST /estimates/{id}/approve-handback -------------------------------------*)

ApproveRead(r) ==
    /\ CanApproveAndHandBack(status)
    /\ ReadRow(r, "approve_update", "handed_back")

ApproveUpdate(r) ==
    /\ pc[r] = "approve_update"
    /\ status' = "handed_back"
    /\ Goto(r, IF seen[r].status = "approved" THEN "approve_last" ELSE "approve_first")
    /\ UNCHANGED <<lifecycle, crew, prior, branchRate, lead, trail, tasks, to, seen,
                   seenRate, draft, submitted, mishap>>

\* INSERT of the x -> approved row.
ApproveInsertFirst(r) ==
    /\ pc[r] = "approve_first"
    /\ trail' = trail \cup {<<seen[r].status, "approved">>}
    /\ Goto(r, "approve_last")
    /\ UNCHANGED <<rowVars, branchRate, lead, tasks, to, seen, seenRate, draft, submitted, mishap>>

\* INSERT of the approved -> handed_back row.
ApproveInsertLast(r) ==
    /\ pc[r] = "approve_last"
    /\ trail' = trail \cup {<<"approved", "handed_back">>}
    /\ Goto(r, "approve_lead")
    /\ UNCHANGED <<rowVars, branchRate, lead, tasks, to, seen, seenRate, draft, submitted, mishap>>

ApproveRespond(r) ==
    /\ pc[r] = "approve_lead"
    /\ lead' = IF seen[r].status = "approved" THEN lead ELSE "approved"
    /\ Respond(r)
    /\ UNCHANGED <<rowVars, branchRate, trail, tasks, draft, submitted, mishap>>

(* POST /estimates/{id}/lifecycle -------------------------------------------*)

FlipRead(r, target) ==
    /\ target # lifecycle
    /\ ReadRow(r, "flip_update", target)

FlipUpdate(r) ==
    /\ pc[r] = "flip_update"
    /\ lifecycle' = to[r]
    /\ Goto(r, "flip_trail")
    /\ UNCHANGED <<status, crew, prior, branchRate, lead, trail, tasks, to, seen, seenRate,
                   draft, submitted, mishap>>

\* The lifecycle: row is not a status edge; it leaves the status trail alone.
FlipRespond(r) ==
    /\ pc[r] = "flip_trail"
    /\ Respond(r)
    /\ UNCHANGED <<rowVars, branchRate, lead, trail, tasks, draft, submitted, mishap>>

(* The maintenance editor, in some estimator's browser ------------------------*)

LoadDraft ==
    /\ Maintenance
    /\ draft' = lifecycle
    /\ UNCHANGED <<rowVars, branchRate, lead, trail, tasks, requestVars, submitted,
                   mishap>>

\* Save PATCHes the header with the draft's lifecycle and owner, however old:
\* no status, so one UPDATE and nothing else.
SaveDraft ==
    /\ Maintenance
    /\ lifecycle' = draft
    /\ UNCHANGED <<status, crew, prior, branchRate, lead, trail, tasks, requestVars,
                   draft, submitted, mishap>>

(* The surroundings ---------------------------------------------------------*)

\* patch_branch_settings: a configured rate changes, it is never unset.
SetBranchRate(rate) ==
    /\ rate # branchRate
    /\ branchRate' = rate
    /\ UNCHANGED <<rowVars, lead, trail, tasks, requestVars, draft, submitted, mishap>>

\* The process dies: requests and background tasks are lost, rows are not.
Crash ==
    /\ MayCrash
    /\ tasks # {} \/ \E r \in Request : pc[r] # "idle"
    /\ tasks' = {}
    /\ mishap' = TRUE
    /\ pc' = [r \in Request |-> "idle"]
    /\ to' = [r \in Request |-> "new_from_sales"]
    /\ seen' = [r \in Request |-> NoRow]
    /\ seenRate' = [r \in Request |-> NoRate]
    /\ UNCHANGED <<rowVars, branchRate, lead, trail, draft, submitted>>

Patch(r) ==
    \/ PatchUpdate(r) \/ ClearSnapshot(r) \/ ReadBranchRate(r) \/ FreezeRate(r)
    \/ KeepSnapshot(r) \/ PatchRespond(r)

Approve(r) ==
    ApproveUpdate(r) \/ ApproveInsertFirst(r) \/ ApproveInsertLast(r) \/ ApproveRespond(r)

Flip(r) == FlipUpdate(r) \/ FlipRespond(r)

\* The statements of an accepted request.
Proceed(r) == Patch(r) \/ Approve(r) \/ Flip(r)

Accept(r) ==
    \/ \E s \in Status : PatchRead(r, s)
    \/ ApproveRead(r)
    \/ \E l \in Lifecycle : FlipRead(r, l)

LifecycleNext ==
    \/ \E r \in Request : Accept(r) \/ Proceed(r)
    \/ \E rate \in Rate : SetBranchRate(rate)
    \/ LoadDraft \/ SaveDraft
    \/ Crash

LifecycleSpec == LifecycleInit /\ [][LifecycleNext]_vars

-----------------------------------------------------------------------------

\* What a handler is about to write fits its column.
TargetFits(r) ==
    /\ pc[r] = "patch_update" => to[r] \in Status
    /\ pc[r] = "flip_update" => to[r] \in Lifecycle

TypeInv == LifecycleTypeOK /\ \A r \in Request : TargetFits(r)

-----------------------------------------------------------------------------
(* What holds as long as the requests of one estimate do not overlap, and   *)
(* which of it two overlapping requests break.                              *)

\* The refinement mapping: the machine sees the two columns of the row and none of
\* the statements between which a handler may be.
Machine == INSTANCE StatusMachine WITH status <- status, lifecycle <- lifecycle

\* "Every status write goes through the transition machine": a status the row
\* has leaves it only over an edge of STATUS_TRANSITIONS (or the approve chain),
\* whatever was read, however long ago, and wherever the process crashed.
GoesThroughMachine == Machine!Spec

Quiet == \A r \in Request : pc[r] = "idle"

\* "so the submitted-at rate is never lost": after a hand-back the row still
\* has the rate of the last submission, in prior or (not cleared yet) in crew.
SubmittedRateKept ==
    Quiet /\ status = "in_progress" /\ crew = NoRate /\ submitted # NoRate =>
        prior = submitted

\* "a mid-review branch-rate change never restates the margin": a frozen rate
\* is cleared or kept, never replaced.
FrozenRateNotRestated ==
    [][crew # NoRate /\ crew' # NoRate => crew' = crew]_vars

PastApproval == {"approved", "handed_back", "won", "lost"}

\* What is recorded about an approval outside the row never outlives it: the
\* lead shows Approved, and the audit trail a hand-back, only for an estimate
\* that is past its approval.
\* Code: the write-back and the INSERTs that follow the estimate's own UPDATE.
ApprovalRecordsFollowStatus ==
    lead = "approved" \/ trail # {} => status \in PastApproval

\* What the columns and tables beside the status remember of a submission and of an
\* approval agrees with it, across hand-backs and crashes.
SubmissionRemembered == SubmittedRateKept /\ ApprovalRecordsFollowStatus

\* No step of a handler leaves the state machine or exchanges a frozen rate.
StepsAreLegal == GoesThroughMachine /\ FrozenRateNotRestated

\* An estimate at rest under review has its crew rate frozen, whatever edge
\* it came over (unless the process died on the way, or no rate is configured).
\* Code: "FREEZE on entry to review / pending_approval / approved".
FrozenUnderReview ==
    Quiet /\ ~mishap /\ status \in FREEZE_STATES => crew # NoRate

\* It does not hold: approve_handback does not call the snapshot (README).
\* The same comment of the estimates that entered approved on their way back
\* to Sales: "approved -> handed_back -> won | lost keep it".
FrozenAfterApproval ==
    Quiet /\ status \in PastApproval => crew # NoRate

\* It does not hold: PATCH writes no such row (README).
\* "every edge is persisted to estimate_status_transitions": a lost estimate
\* has the row that says so (the one the lost-deals reports are joined on).
LostIsOnTrail ==
    Quiet /\ status = "lost" => <<"handed_back", "lost">> \in trail

\* It does not hold: a maintenance editor saves the lifecycle it loaded (README).
\* "WON is the Aspire milestone where ownership transfers to the CRM", and
\* "the Bidding<->Won toggle persists here": it goes back to Estimating only by
\* the toggle.
OnlyToggleReopens ==
    [][status = "won" /\ lifecycle = "won" /\ lifecycle' = "bidding" =>
        \E r \in Request : pc[r] = "flip_update"]_vars

-----------------------------------------------------------------------------
(* Why it holds one request at a time: nothing moves between the SELECT of  *)
(* a handler and its last statement.                                        *)

\* Only one request works on the estimate at any time.
OneAtATime == \A r, s \in Request : r = s

\* What a handler may rely on at each statement.
Knows(r) ==
    /\ pc[r] = "patch_update" =>
          /\ seen[r].status = status /\ seen[r].crew = crew
          /\ to[r] = status \/ CanTransition(status, to[r])
    /\ pc[r] \in {"patch_snapshot", "patch_freeze", "patch_tasks"} => to[r] = status
    /\ pc[r] = "patch_snapshot" =>
          /\ seen[r].crew = crew
          /\ to[r] = "in_progress" /\ crew = NoRate => submitted = NoRate
    /\ pc[r] = "patch_freeze" => crew = NoRate
    /\ pc[r] = "approve_update" => CanApproveAndHandBack(status)
    /\ pc[r] \in {"approve_first", "approve_last", "approve_lead"} =>
          status = "handed_back"

BeforeHandBack == {"new_from_sales", "queued"} \cup FREEZE_STATES

\* Where the rate of the last submission is.
SubmittedIsSomewhere ==
    /\ crew # NoRate => crew = submitted
    /\ crew = NoRate /\ submitted # NoRate => prior = submitted
    /\ crew = NoRate /\ status \in BeforeHandBack => submitted = NoRate

SerialInv ==
    /\ TypeInv
    /\ \A r \in Request : Knows(r)
    /\ SubmittedIsSomewhere
    /\ ApprovalRecordsFollowStatus
=============================================================================
