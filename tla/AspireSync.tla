------------------------------ MODULE AspireSync ------------------------------
(***************************************************************************)
(* Pushing a property and the estimates submitted for it to Aspire, the    *)
(* external CRM.  Pushes are single attempts made by background tasks and  *)
(* by a periodic sweep, all of one event loop: each reads rows, awaits     *)
(* Aspire, and writes the outcome back unconditionally.                    *)
(***************************************************************************)
EXTENDS Naturals, Sequences, FiniteSets

CONSTANTS
    Estimate,       \* estimates submitted for the one property modelled
    Worker,         \* background tasks that may run at the same time
    Sweeper,        \* the sweep loop of the process
    BatchLimit,     \* rows a sweep handles (50 in the code)
    Environment     \* the surroundings the process may run in

ASSUME SyncAssumption ==
    /\ Sweeper \notin Worker /\ IsFiniteSet(Worker)
    /\ BatchLimit \in Nat \ {0}
    /\ Environment \subseteq
          [answers : SUBSET {"id", "refused", "lost"}, \* what a POST may come to
           enabled : BOOLEAN,    \* ASPIRE_SYNC_ENABLED at first
           sweeping : BOOLEAN,   \* whether the sweep loop runs
           tasks : Nat,          \* background tasks at a time
           estimates : Nat,      \* estimates submitted
           crashes : BOOLEAN]    \* whether the process may die and restart

VARIABLES
    env,            \* the surroundings of this behaviour
    enabled,        \* ASPIRE_SYNC_ENABLED, read from the environment
    property,       \* the properties row: sync status, has an aspire_property_id
    est,            \* the estimates rows
    age,            \* the estimates by updated_at, oldest first
    task,           \* where each background task and the sweep are
    batch,          \* rows the running sweep has selected and not handled yet
    aspireProps,    \* Aspire: Properties created for the property (2: several)
    opportunities,  \* Aspire: Opportunities created for each estimate (2: several)
    history         \* what has gone wrong or crossed, of the property and the estimates

vars == <<env, enabled, property, est, age, task, batch, aspireProps, opportunities, history>>

rows == <<property, est, age>>
aspire == <<aspireProps, opportunities>>
switches == <<env, enabled>>

Proc == Worker \cup {Sweeper}

SyncStatus == {"pending", "failed", "synced"}

Step == {"idle", "prop_check", "prop_mark", "prop_post", "prop_persist",
         "opp_read", "opp_post", "opp_persist", "status_read", "status_persist"}

\* What a push returned; "disabled" and "pending" without asking Aspire.
Result == {"synced", "failed", "pending", "disabled"}

Due == [est : Estimate, linked : BOOLEAN, terminal : BOOLEAN]

Idle == [at |-> "idle", est |-> CHOOSE e \in Estimate : TRUE, result |-> "pending"]

SyncTypeOK ==
    /\ env \in Environment
    /\ enabled \in BOOLEAN
    /\ property \in [status : SyncStatus \cup {"unsynced"}, linked : BOOLEAN]
    /\ est \in [Estimate -> [exists : BOOLEAN, status : SyncStatus, linked : BOOLEAN,
                             terminal : BOOLEAN]]
    /\ age \in Seq(Estimate)
    /\ task \in [Proc -> [at : Step, est : Estimate, result : Result]]
    /\ batch \in Seq(Due)
    /\ aspireProps \in 0..2
    /\ opportunities \in [Estimate -> 0..2]
    /\ history \in [crossed : SUBSET Estimate, propertyCrossed : BOOLEAN, stranded : BOOLEAN]

Init ==
    /\ env \in Environment
    /\ enabled = env.enabled
    /\ property = [status |-> "unsynced", linked |-> FALSE]
    /\ est = [e \in Estimate |-> [exists |-> FALSE, status |-> "pending",
                                  linked |-> FALSE, terminal |-> FALSE]]
    /\ age = <<>> /\ batch = <<>>
    /\ task = [p \in Proc |-> Idle]
    /\ aspireProps = 0
    /\ opportunities = [e \in Estimate |-> 0]
    /\ history = [crossed |-> {}, propertyCrossed |-> FALSE, stranded |-> FALSE]

-----------------------------------------------------------------------------

Start(p, step, e) ==
    /\ task[p].at = "idle"
    /\ p \in Worker => Cardinality({w \in Worker : task[w].at # "idle"}) < env.tasks
    /\ task' = [task EXCEPT ![p] = [at |-> step, est |-> e, result |-> "pending"]]

Goto(p, step) == task' = [task EXCEPT ![p].at = step]

GotoWith(p, step, result) ==
    task' = [task EXCEPT ![p].at = step, ![p].result = result]

End(p) == task' = [task EXCEPT ![p] = Idle]

\* updated_at = CURRENT_TIMESTAMP: the row becomes the youngest.
Touched(e) ==
    LET i == CHOOSE j \in 1..Len(age) : age[j] = e
    IN  [k \in 1..Len(age) |-> IF k < i THEN age[k] ELSE IF k = Len(age) THEN e ELSE age[k + 1]]

OneMore(n) == IF n = 2 THEN 2 ELSE n + 1

\* _sync_status_col: disabled is stored as pending.
SyncStatusCol(result) == IF result \in {"synced", "failed"} THEN result ELSE "pending"

(* History -------------------------------------------------------------------*)

\* A task that pushes estimate e, or will when it is through with the property; a row of
\* the sweep that will be pushed.
Pushes(p, e) ==
    /\ task[p].est = e
    /\ task[p].at \in {"prop_check", "prop_mark", "prop_post", "prop_persist",
                      "opp_read", "opp_post", "opp_persist"}
PushesProperty(p) == task[p].at \in {"prop_mark", "prop_post", "prop_persist"}
Selected(e) == \E k \in DOMAIN batch : batch[k].est = e /\ ~batch[k].linked

\* Two pushes of one estimate, or of the property, at a time.
Rivals(e) ==
    \/ \E p, q \in Proc : p # q /\ Pushes(p, e) /\ Pushes(q, e)
    \/ Selected(e) /\ \E p \in Proc : Pushes(p, e)
PropertyRivals == \E p, q \in Proc : p # q /\ PushesProperty(p) /\ PushesProperty(q)

\* Rivals are remembered, and the pushes whose answer was lost: of the property, of the
\* estimates unheard.  stranded: a push of the property was dropped after its mark.
Remember(unheard, propertyUnheard, stranded) ==
    history' = [crossed |-> history.crossed \cup unheard \cup {e \in Estimate : Rivals(e)'},
                propertyCrossed |-> history.propertyCrossed \/ propertyUnheard \/ PropertyRivals',
                stranded |-> history.stranded \/ stranded]

(* Requests -----------------------------------------------------------------*)

\* create_estimate: the row, then one background task for property and estimate.
CreateEstimate(p, e) ==
    /\ ~est[e].exists
    /\ Len(age) < env.estimates
    /\ Start(p, "prop_check", e)
    /\ est' = [est EXCEPT ![e].exists = TRUE]
    /\ age' = Append(age, e)
    /\ UNCHANGED <<switches, property, batch, aspire>>

\* PATCH to won or lost schedules the status write-back.
CloseEstimate(p, e) ==
    /\ est[e].exists /\ ~est[e].terminal
    /\ Start(p, "status_read", e)
    /\ est' = [est EXCEPT ![e].terminal = TRUE]
    /\ age' = Touched(e)
    /\ UNCHANGED <<switches, property, batch, aspire>>

\* Mutant of Retry: an estimate that has its id is pushed again.
RetryAnyway(p, e) ==
    /\ est[e].exists /\ Start(p, "opp_read", e)
    /\ UNCHANGED <<switches, rows, batch, aspire>>

\* retry-aspire-sync; neither case: not_needed.
Retry(p, e) ==
    /\ est[e].exists
    /\ \/ ~est[e].linked /\ Start(p, "opp_read", e)
       \/ est[e].linked /\ est[e].terminal /\ Start(p, "status_read", e)
    /\ UNCHANGED <<switches, rows, batch, aspire>>

(* sync_property_if_needed and _sync_property_bg ------------------------------*)

CheckProperty(p) ==
    /\ task[p].at = "prop_check"
    /\ Goto(p, IF property.status \in {"unsynced", "failed"} THEN "prop_mark" ELSE "opp_read")
    /\ UNCHANGED <<switches, rows, batch, aspire>>

\* Mark the push in flight; a disabled port answers at once.
MarkProperty(p) ==
    /\ task[p].at = "prop_mark"
    /\ property' = [property EXCEPT !.status = "pending"]
    /\ IF enabled THEN Goto(p, "prop_post") ELSE GotoWith(p, "prop_persist", "disabled")
    /\ UNCHANGED <<switches, est, age, batch, aspire>>

\* "lost": Aspire created it, but the answer timed out.
PostProperty(p, answer) ==
    /\ task[p].at = "prop_post"
    /\ aspireProps' = IF answer = "refused" THEN aspireProps ELSE OneMore(aspireProps)
    /\ GotoWith(p, "prop_persist", IF answer = "id" THEN "synced" ELSE "failed")
    /\ UNCHANGED <<switches, rows, batch, opportunities>>

PersistProperty(p) ==
    /\ task[p].at = "prop_persist"
    /\ property' = [status |-> SyncStatusCol(task[p].result),
                    linked |-> property.linked \/ task[p].result = "synced"]
    /\ Goto(p, "opp_read")
    /\ UNCHANGED <<switches, est, age, batch, aspire>>

(* _sync_new_opportunity_bg ---------------------------------------------------*)

\* Mutant of ReadForOpportunity: posted without an aspire_property_id.
ReadUnchained(p) ==
    /\ task[p].at = "opp_read"
    /\ IF enabled THEN Goto(p, "opp_post") ELSE GotoWith(p, "opp_persist", "disabled")
    /\ UNCHANGED <<switches, rows, batch, aspire>>

\* Reads the rows and builds the input; no look at an aspire_opportunity_id.
ReadForOpportunity(p) ==
    /\ task[p].at = "opp_read"
    /\ IF enabled /\ property.linked
       THEN Goto(p, "opp_post")
       ELSE GotoWith(p, "opp_persist", IF enabled THEN "pending" ELSE "disabled")
    /\ UNCHANGED <<switches, rows, batch, aspire>>

PostOpportunity(p, answer) ==
    /\ task[p].at = "opp_post"
    /\ opportunities' = [opportunities EXCEPT ![task[p].est] =
                            IF answer = "refused" THEN @ ELSE OneMore(@)]
    /\ GotoWith(p, "opp_persist", IF answer = "id" THEN "synced" ELSE "failed")
    /\ UNCHANGED <<switches, rows, batch, aspireProps>>

PersistOpportunity(p) ==
    /\ task[p].at = "opp_persist"
    /\ LET e == task[p].est IN
       /\ est' = [est EXCEPT ![e].status = SyncStatusCol(task[p].result),
                             ![e].linked = @ \/ task[p].result = "synced"]
       /\ age' = Touched(e)
    /\ End(p)
    /\ UNCHANGED <<switches, property, batch, aspire>>

(* _sync_status_bg: Aspire has no endpoint for it, so an attempt fails --------*)

ReadForStatus(p) ==
    /\ task[p].at = "status_read"
    /\ GotoWith(p, "status_persist",
                IF ~enabled THEN "disabled"
                ELSE IF est[task[p].est].linked THEN "failed" ELSE "pending")
    /\ UNCHANGED <<switches, rows, batch, aspire>>

PersistStatus(p) ==
    /\ task[p].at = "status_persist"
    /\ est' = [est EXCEPT ![task[p].est].status = SyncStatusCol(task[p].result)]
    /\ age' = Touched(task[p].est)
    /\ End(p)
    /\ UNCHANGED <<switches, property, batch, aspire>>

(* sweep_once -----------------------------------------------------------------*)

\* Mutant of DueRow: only the failed rows are swept.
FailedRow(e) == est[e].exists /\ est[e].status = "failed"

DueRow(e) == est[e].exists /\ est[e].status \in {"pending", "failed"}

Older(e, f) == \E i, j \in 1..Len(age) : i < j /\ age[i] = e /\ age[j] = f

\* ORDER BY updated_at LIMIT: the oldest rows that are due, as they are now.
IsSelection(b) ==
    /\ \A k \in DOMAIN b :
          /\ DueRow(b[k].est)
          /\ b[k].linked = est[b[k].est].linked /\ b[k].terminal = est[b[k].est].terminal
    /\ \A k \in DOMAIN b, e \in Estimate :
          DueRow(e) => (Older(e, b[k].est) <=> \E j \in 1..(k - 1) : b[j].est = e)
    /\ Len(b) < BatchLimit =>
          \A e \in Estimate : DueRow(e) => \E k \in DOMAIN b : b[k].est = e

SweepSelect ==
    /\ env.sweeping /\ enabled
    /\ task[Sweeper].at = "idle" /\ batch = <<>>
    /\ \E n \in 1..BatchLimit : \E b \in [1..n -> Due] : IsSelection(b) /\ batch' = b
    /\ UNCHANGED <<switches, rows, task, aspire>>

\* The next row, as it was when the batch was selected.
SweepNext ==
    /\ task[Sweeper].at = "idle" /\ batch # <<>>
    /\ batch' = Tail(batch)
    /\ LET row == Head(batch) IN
       \/ ~row.linked /\ Start(Sweeper, "opp_read", row.est)
       \/ row.linked /\ row.terminal /\ Start(Sweeper, "status_read", row.est)
       \/ row.linked /\ ~row.terminal /\ UNCHANGED task
    /\ UNCHANGED <<switches, rows, aspire>>

(* The process ----------------------------------------------------------------*)

\* Tasks are lost, rows and Aspire are not; a restart may turn the sync on.
Crash ==
    /\ env.crashes
    /\ task' = [p \in Proc |-> Idle]
    /\ batch' = <<>>
    /\ enabled' \in {enabled, TRUE}
    /\ Remember({e \in Estimate : \E p \in Proc : Pushes(p, e) /\ task[p].at = "opp_persist"}, FALSE,
                \E p \in Proc : task[p].at \in {"prop_post", "prop_persist"})
    /\ UNCHANGED <<env, rows, aspire>>

Request ==
    /\ \E p \in Worker, e \in Estimate :
          CreateEstimate(p, e) \/ CloseEstimate(p, e) \/ Retry(p, e)
    /\ Remember({}, FALSE, FALSE)

\* A step of p that does not depend on what Aspire answers.
Advance(p) ==
    /\ \/ CheckProperty(p) \/ MarkProperty(p) \/ PersistProperty(p)
       \/ ReadForOpportunity(p) \/ PersistOpportunity(p)
       \/ ReadForStatus(p) \/ PersistStatus(p)
    /\ Remember({}, FALSE, task[p].at = "prop_persist" /\ task[p].result = "disabled")

Post(p, answer) ==
    \/ /\ PostProperty(p, answer)
       /\ Remember({}, answer = "lost", FALSE)
    \/ /\ PostOpportunity(p, answer)
       /\ Remember(IF answer = "lost" THEN {task[p].est} ELSE {}, FALSE, FALSE)

Sweep == (SweepSelect \/ SweepNext) /\ Remember({}, FALSE, FALSE)

Next ==
    \/ Request
    \/ \E p \in Proc : Advance(p) \/ \E answer \in env.answers : Post(p, answer)
    \/ Sweep
    \/ Crash

Spec == Init /\ [][Next]_vars

\* The event loop runs every task; every POST comes to some answer, and Aspire
\* does not refuse for ever.
FairSpec ==
    /\ Spec
    /\ \A p \in Proc :
          /\ WF_vars(Advance(p))
          /\ WF_vars(\E answer \in env.answers : Post(p, answer))
          /\ SF_vars(Post(p, "id"))
    /\ WF_vars(Sweep)

-----------------------------------------------------------------------------

\* synced means that the row has the id of something that exists in Aspire, and
\* an Opportunity exists only under a Property that was there first, however
\* tasks, sweeps and crashes overlap and answers get lost.
\* Code: _persist_sync_result and _persist_property_result, and the pending
\* answer of push_new_opportunity while aspire_property_id is None.
SyncedIsInAspire ==
    /\ SyncTypeOK
    /\ property.status = "synced" => property.linked
    /\ property.linked => aspireProps > 0
    /\ \A e \in Estimate :
          /\ est[e].status = "synced" => est[e].linked
          /\ est[e].linked => opportunities[e] > 0
          /\ opportunities[e] > 0 => property.linked

-----------------------------------------------------------------------------

\* "losing the id would make the sweep re-POST and create a duplicate": one
\* Opportunity for an estimate.  It does not hold, not even with one task at a time,
\* answers that arrive and a process that stays up, once the sweep runs beside the task of
\* the same estimate (README).
Calm == env.tasks = 1 /\ env.enabled /\ ~env.crashes /\ "lost" \notin env.answers
AtMostOneOpportunity == Calm => \A e \in Estimate : opportunities[e] < 2

\* "'synced' must never re-push": Aspire has a second Property only if two tasks pushed it
\* at once or an answer was lost, and a second Opportunity for an estimate only if two
\* pushes of it crossed, its answer was lost or the process died between the POST and the
\* UPDATE.  A task, a retry or a sweep that comes after the push of another makes none.
\* Code: the status test of sync_property_if_needed, the one UPDATE of
\* _persist_sync_result, the tests of retry-aspire-sync and sweep_once.
CreatedOnce ==
    /\ aspireProps = 2 => history.propertyCrossed
    /\ \A e \in Estimate : opportunities[e] = 2 => e \in history.crossed

\* What is on its way is on the way of some task: a pending property is going to be
\* settled by one, unless the push was dropped after the mark (by a crash, or because the
\* sync was off); an Opportunity its estimate does not know is about to be stored, unless
\* its answer was lost, the process died or its push crossed another.
\* Code: the mark and the persisted result of _sync_property_bg, the one UPDATE
\* of _persist_sync_result.
InFlightIsCarried ==
    /\ property.status = "pending" =>
          history.stranded \/ \E p \in Proc : task[p].at \in {"prop_post", "prop_persist"}
    /\ \A e \in Estimate : opportunities[e] > 0 /\ ~est[e].linked =>
          \/ e \in history.crossed
          \/ \E p \in Proc : /\ task[p].at = "opp_persist"
                             /\ task[p].est = e /\ task[p].result = "synced"

\* What Aspire has of a property and its estimates it has once, and the rows know
\* or are about to, but for pushes that crossed or broke off.
OnceAndKnown == CreatedOnce /\ InFlightIsCarried

\* Once its property is in Aspire, a submitted estimate gets there, where the
\* sweep runs and Aspire's answers arrive.
\* Code: "the caller's background sweep re-pushing pending/failed rows".
SweepReachesEveryRow ==
    \A e \in Estimate :
        env.sweeping /\ est[e].exists /\ property.linked ~> est[e].linked

\* It does not hold: the sweep pushes estimates, never the property (README).
\* "a prerequisite isn't ready yet ...; the sweep will resolve the chain".
ChainResolves ==
    \A e \in Estimate : env.sweeping /\ est[e].exists ~> est[e].linked
=============================================================================
