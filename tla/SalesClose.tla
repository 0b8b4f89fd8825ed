------------------------------ MODULE SalesClose -----------------------------
(***************************************************************************)
(* Closing a sale: the estimate's lifecycle and the commission ledger      *)
(* together.  A PATCH to won or lost leaves a background task in the       *)
(* process's memory; the task runs after the response, concurrently with   *)
(* later requests, and calls create_on_won or cancel_for_estimate.  The    *)
(* ledger operations are the atomic ones of CommissionBook, which the      *)
(* locking transactions of CommissionService implement.                    *)
(***************************************************************************)
EXTENDS EstimateLifecycle

CONSTANTS Installment, Built

VARIABLES commission, inst, closedAt, paidAt

Book == INSTANCE CommissionBook
        WITH commission <- commission, inst <- inst,
             closedAt <- closedAt, paidAt <- paidAt

bookVars == <<commission, inst, closedAt, paidAt>>

lifecycleRest == <<rowVars, branchRate, lead, trail, requestVars, draft, submitted>>

CloseTypeOK == LifecycleTypeOK /\ Book!TypeOK

CloseInit == LifecycleInit /\ Book!Init /\ commission = "none"

Finish(task) ==
    /\ task \in tasks
    /\ tasks' = tasks \ {task}
    /\ UNCHANGED lifecycleRest

\* INSERT IGNORE: the UNIQUE key makes a second won a no-op.
CreateOnWon ==
    /\ Finish("create_on_won") /\ UNCHANGED mishap
    /\ \/ Book!Create
       \/ commission # "none" /\ UNCHANGED bookVars

\* The task does not look at the status the estimate has by now.
CancelForEstimate ==
    /\ Finish("cancel_for_estimate") /\ UNCHANGED mishap
    /\ \/ Book!Cancel
       \/ commission \in {"none", "cancelled"} /\ UNCHANGED bookVars

\* A background task raises (a deadlock victim, a lost connection): nothing
\* stores it and nothing runs it again.
TaskFails(task) ==
    /\ MayCrash
    /\ Finish(task)
    /\ mishap' = TRUE
    /\ UNCHANGED bookVars

\* Accounting pays out meanwhile.
Payout ==
    /\ \/ Book!PayCommission
       \/ \E i \in Installment : Book!PayInstallment(i) \/ Book!BillingDataKnown(i)
    /\ UNCHANGED vars

CloseNext ==
    \/ LifecycleNext /\ UNCHANGED bookVars
    \/ CreateOnWon
    \/ CancelForEstimate
    \/ \E task \in Task : TaskFails(task)
    \/ Payout

closeVars == <<vars, bookVars>>

CloseSpec == CloseInit /\ [][CloseNext]_closeVars

\* The event loop runs every handler and every background task to its end.
FairCloseSpec ==
    /\ CloseSpec
    /\ \A r \in Request : WF_closeVars(Proceed(r) /\ UNCHANGED bookVars)
    /\ WF_closeVars(CreateOnWon)
    /\ WF_closeVars(CancelForEstimate)

-----------------------------------------------------------------------------

AtRest == Quiet /\ tasks = {}

\* A commission exists only for a won estimate: no request, task or crash
\* leaves money owed on an estimate that is still open or was lost.
\* Code: the tasks PATCH schedules "only on the actual transition".
CommissionOnlyIfWon == commission # "none" => status = "won"

\* It holds for requests that do not overlap only: of two PATCHes to won and
\* lost, the cancel task may run before the create task (README).
\* "Cancel every open commission on an estimate that was marked lost."
LostOwesNothing == AtRest /\ status = "lost" => commission \in {"none", "cancelled"}

\* It does not hold when the process dies before the task has run (README).
\* "Insert a commission and its payout installments when an estimate is won."
WonHasCommission == AtRest /\ status = "won" => commission # "none"

\* A won estimate gets its commission, unless a crash or a failure takes the task.
\* Code: background.add_task(create_on_won), the only caller.
WonGetsCommission == status = "won" ~> commission # "none" \/ mishap
=============================================================================
