------------------------- MODULE CommissionService --------------------------
(***************************************************************************)
(* commission_service.py as it runs: every operation is a database         *)
(* transaction whose SELECT ... FOR UPDATE and UPDATE statements take row  *)
(* locks one statement at a time, so requests interleave between           *)
(* statements.  A transaction's writes become visible at its commit (the   *)
(* rows are locked until then); an error, a deadlock or a crash of the     *)
(* process rolls it back.                                                  *)
(***************************************************************************)
EXTENDS CommissionBook

CONSTANTS
    Txn,        \* concurrent requests and background tasks on this commission
    NoTxn       \* the owner of a free row lock

ASSUME TxnAssumption == NoTxn \notin Txn

VARIABLES
    op,         \* the operation each transaction runs
    pc,         \* the statement it executes next
    target,     \* the installment id of a mark-installment-paid request
    seenStatus, \* the commission status it has read under its lock
    seenRow,    \* the installment rows it has read under their locks
    commLock,   \* the transaction that has the commissions row locked
    rowLock     \* the transaction that has each installment row locked

txVars == <<op, pc, target, seenStatus, seenRow>>
lockVars == <<commLock, rowLock>>
vars == <<bookVars, txVars, lockVars>>

Op == {"create_on_won", "cancel_for_estimate", "mark_installment_paid",
       "mark_commission_paid"}

Step == {"idle", "insert", "insert_rows", "lookup", "installment", "commission",
         "siblings", "commit"}

ServiceTypeOK ==
    /\ TypeOK
    /\ op \in [Txn -> Op]
    /\ pc \in [Txn -> Step]
    /\ target \in [Txn -> Installment]
    /\ seenStatus \in [Txn -> CommissionStatus]
    /\ seenRow \in [Txn -> [Installment -> Row]]
    /\ commLock \in Txn \cup {NoTxn}
    /\ rowLock \in [Installment -> Txn \cup {NoTxn}]

FirstStep == [o \in Op |->
    CASE o = "create_on_won"         -> "insert"
      [] o = "cancel_for_estimate"   -> "lookup"
      [] o = "mark_installment_paid" -> "installment"
      [] o = "mark_commission_paid"  -> "commission"]

\* The target of an operation that has none: any value of its type.
NoTarget == CHOOSE i \in Installment : TRUE

Unread == [i \in Installment |-> Absent]

ServiceInit ==
    /\ Init
    /\ op = [t \in Txn |-> "create_on_won"]
    /\ pc = [t \in Txn |-> "idle"]
    /\ target = [t \in Txn |-> NoTarget]
    /\ seenStatus = [t \in Txn |-> "none"]
    /\ seenRow = [t \in Txn |-> Unread]
    /\ commLock = NoTxn
    /\ rowLock = [i \in Installment |-> NoTxn]

-----------------------------------------------------------------------------

Goto(t, step) == pc' = [pc EXCEPT ![t] = step]

\* Mutant of End: the commissions row stays locked.
EndKeepingLock(t) ==
    /\ Goto(t, "idle")
    /\ op' = [op EXCEPT ![t] = "create_on_won"]
    /\ target' = [target EXCEPT ![t] = NoTarget]
    /\ seenStatus' = [seenStatus EXCEPT ![t] = "none"]
    /\ seenRow' = [seenRow EXCEPT ![t] = Unread]
    /\ rowLock' = [i \in Installment |-> IF rowLock[i] = t THEN NoTxn ELSE rowLock[i]]
    /\ UNCHANGED commLock

\* Commit, rollback or an operation that never opened a transaction: the
\* locks go and the connection returns to the pool.
End(t) ==
    /\ Goto(t, "idle")
    /\ op' = [op EXCEPT ![t] = "create_on_won"]
    /\ target' = [target EXCEPT ![t] = NoTarget]
    /\ seenStatus' = [seenStatus EXCEPT ![t] = "none"]
    /\ seenRow' = [seenRow EXCEPT ![t] = Unread]
    /\ commLock' = IF commLock = t THEN NoTxn ELSE commLock
    /\ rowLock' = [i \in Installment |-> IF rowLock[i] = t THEN NoTxn ELSE rowLock[i]]

RollBack(t) == End(t) /\ UNCHANGED bookVars

\* A request or a background task calls the operation.
Begin(t, o, i) ==
    /\ pc[t] = "idle"
    /\ Goto(t, FirstStep[o])
    /\ op' = [op EXCEPT ![t] = o]
    /\ target' = [target EXCEPT ![t] =
                    IF o = "mark_installment_paid" THEN i ELSE target[t]]
    /\ UNCHANGED <<bookVars, lockVars, seenStatus, seenRow>>

\* Mutant of InsertCommission: without IGNORE's check.
InsertUnchecked(t) ==
    /\ pc[t] = "insert"
    /\ commLock = NoTxn
    /\ commLock' = t
    /\ Goto(t, "insert_rows")
    /\ UNCHANGED <<bookVars, op, target, seenStatus, seenRow, rowLock>>

\* INSERT IGNORE INTO commissions: a committed row makes it a no-op, an
\* uncommitted one of a concurrent create makes it wait.
InsertCommission(t) ==
    /\ pc[t] = "insert"
    /\ \/ commission # "none" /\ RollBack(t)
       \/ /\ commission = "none"
          /\ commLock = NoTxn
          /\ commLock' = t
          /\ Goto(t, "insert_rows")
          /\ UNCHANGED <<bookVars, op, target, seenStatus, seenRow, rowLock>>

InsertInstallments(t) ==
    /\ pc[t] = "insert_rows"
    /\ Goto(t, "commit")
    /\ UNCHANGED <<bookVars, lockVars, op, target, seenStatus, seenRow>>

\* cancel_for_estimate's SELECT outside any transaction: no lock.
LookUp(t) ==
    /\ pc[t] = "lookup"
    /\ \/ commission \in {"none", "cancelled"} /\ RollBack(t)
       \/ /\ commission \in {"approved", "paid"}
          /\ Goto(t, "commission")
          /\ UNCHANGED <<bookVars, lockVars, op, target, seenStatus, seenRow>>

\* The first row of mark_installment_paid's locking join; 404 without it.
LockInstallment(t) ==
    /\ pc[t] = "installment"
    /\ \/ ~Present(inst[target[t]]) /\ RollBack(t)
       \/ /\ Present(inst[target[t]])
          /\ rowLock[target[t]] = NoTxn
          /\ rowLock' = [rowLock EXCEPT ![target[t]] = t]
          /\ seenRow' = [seenRow EXCEPT ![t][target[t]] = inst[target[t]]]
          /\ Goto(t, "commission")
          /\ UNCHANGED <<bookVars, op, target, seenStatus, commLock>>

\* Refused once the commission row is read: 404, or 409 for a cancelled
\* commission or an unpayable installment.  A cancel is never refused.
Refused(t) ==
    \/ op[t] = "mark_commission_paid" /\ commission \in {"none", "cancelled"}
    \/ op[t] = "mark_installment_paid" /\ Unpayable(seenRow[t][target[t]], commission)

\* The commissions row: FOR UPDATE in the mark-paid operations, the first
\* UPDATE in cancel_commission.
LockCommission(t) ==
    /\ pc[t] = "commission"
    /\ commLock = NoTxn
    /\ \/ Refused(t) /\ RollBack(t)
       \/ /\ ~Refused(t)
          /\ commLock' = t
          /\ seenStatus' = [seenStatus EXCEPT ![t] = commission]
          /\ Goto(t, "siblings")
          /\ UNCHANGED <<bookVars, op, target, seenRow, rowLock>>

\* Rows of the commission this transaction has not locked yet.
Unlocked(t) == {i \in Installment : Present(inst[i]) /\ rowLock[i] # t}

\* WHERE commission_id = ... FOR UPDATE (or the UPDATE of cancel_commission)
\* reads and locks the rows one after another.
LockSibling(t, i) ==
    /\ pc[t] = "siblings"
    /\ i \in Unlocked(t)
    /\ rowLock[i] = NoTxn
    /\ rowLock' = [rowLock EXCEPT ![i] = t]
    /\ seenRow' = [seenRow EXCEPT ![t][i] = inst[i]]
    /\ UNCHANGED <<bookVars, op, pc, target, seenStatus, commLock>>

\* All rows are read: mark_commission_paid refuses when one is unpayable.
CheckSiblings(t) ==
    /\ pc[t] = "siblings"
    /\ Unlocked(t) = {}
    /\ IF /\ op[t] = "mark_commission_paid"
          /\ \E i \in Installment :
                Present(seenRow[t][i]) /\ Unpayable(seenRow[t][i], seenStatus[t])
       THEN RollBack(t)
       ELSE /\ Goto(t, "commit")
            /\ UNCHANGED <<bookVars, lockVars, op, target, seenStatus, seenRow>>

-----------------------------------------------------------------------------
(* What each operation has written when it commits, from what it READ.      *)

\* _close_if_all_paid(status, siblings): the rows as the transaction sees them.
Close(t, rows) ==
    IF seenStatus[t] \notin {"paid", "cancelled"} /\ AllPaid(rows)
    THEN commission' = "paid" /\ closedAt' = closedAt + 1
    ELSE UNCHANGED <<commission, closedAt>>

CommitCreate(t) ==
    /\ op[t] = "create_on_won"
    /\ commission' = "approved"
    /\ inst' = Built
    /\ UNCHANGED <<closedAt, paidAt>>

CommitCancel(t) ==
    /\ op[t] = "cancel_for_estimate"
    /\ commission' = "cancelled"
    /\ inst' = [i \in Installment |-> CancelledRow(inst[i])]
    /\ UNCHANGED <<closedAt, paidAt>>

\* Mutant of CommitPayInstallment: the siblings are read before the target's UPDATE.
CommitPaySiblingsFirst(t) ==
    /\ op[t] = "mark_installment_paid"
    /\ inst' = [inst EXCEPT ![target[t]] = PaidRow(@)]
    /\ paidAt' = Stamped(paidAt, inst, inst')
    /\ Close(t, seenRow[t])

CommitPayInstallment(t) ==
    /\ op[t] = "mark_installment_paid"
    /\ inst' = [inst EXCEPT ![target[t]] =
                  IF seenRow[t][target[t]].status = "paid" THEN @ ELSE PaidRow(@)]
    /\ paidAt' = Stamped(paidAt, inst, inst')
    /\ Close(t, [seenRow[t] EXCEPT ![target[t]] = PaidRow(@)])

CommitPayCommission(t) ==
    /\ op[t] = "mark_commission_paid"
    /\ inst' = [i \in Installment |-> PaidRow(inst[i])]
    /\ paidAt' = Stamped(paidAt, inst, inst')
    /\ Close(t, [i \in Installment |-> PaidRow(seenRow[t][i])])

Commit(t) ==
    /\ pc[t] = "commit"
    /\ \/ CommitCreate(t)
       \/ CommitCancel(t)
       \/ CommitPayInstallment(t)
       \/ CommitPayCommission(t)
    /\ End(t)

-----------------------------------------------------------------------------
(* The database and the outside world.                                      *)

\* t's next statement needs a lock that u holds.
WaitsFor(t, u) ==
    /\ t # u
    /\ \/ pc[t] = "insert" /\ commission = "none" /\ commLock = u
       \/ pc[t] = "installment" /\ rowLock[target[t]] = u
       \/ pc[t] = "commission" /\ commLock = u
       \/ pc[t] = "siblings" /\ \E i \in Unlocked(t) : rowLock[i] = u

\* InnoDB rolls one transaction of a cycle back; its request fails.
DeadlockVictim(t) ==
    /\ \E u \in Txn : WaitsFor(t, u) /\ WaitsFor(u, t)
    /\ RollBack(t)

\* The process dies: every open transaction is rolled back by the database.
Crash ==
    /\ \E t \in Txn : pc[t] # "idle"
    /\ pc' = [t \in Txn |-> "idle"]
    /\ op' = [t \in Txn |-> "create_on_won"]
    /\ target' = [t \in Txn |-> NoTarget]
    /\ seenStatus' = [t \in Txn |-> "none"]
    /\ seenRow' = [t \in Txn |-> Unread]
    /\ commLock' = NoTxn
    /\ rowLock' = [i \in Installment |-> NoTxn]
    /\ UNCHANGED bookVars

\* The external UPDATE of one pending row, which needs that row's lock.
BillingUpdate(i) ==
    /\ rowLock[i] = NoTxn
    /\ BillingDataKnown(i)
    /\ UNCHANGED <<txVars, lockVars>>

Advance(t) ==
    \/ InsertCommission(t)
    \/ InsertInstallments(t)
    \/ LookUp(t)
    \/ LockInstallment(t)
    \/ LockCommission(t)
    \/ \E i \in Installment : LockSibling(t, i)
    \/ CheckSiblings(t)
    \/ Commit(t)

ServiceNext ==
    \/ \E t \in Txn :
          \/ \E o \in Op, i \in Installment : Begin(t, o, i)
          \/ Advance(t)
          \/ DeadlockVictim(t)
    \/ \E i \in Installment : BillingUpdate(i)
    \/ Crash

ServiceSpec == ServiceInit /\ [][ServiceNext]_vars

\* A lock wait ends: InnoDB queues waiters, and detects every cycle.
FairServiceSpec ==
    /\ ServiceSpec
    /\ \A t \in Txn : SF_vars(Advance(t)) /\ WF_vars(DeadlockVictim(t))

-----------------------------------------------------------------------------

ReadsAreCurrent(t) ==
    /\ pc[t] \in {"siblings", "commit"} /\ op[t] # "create_on_won" =>
          seenStatus[t] = commission
    /\ \A i \in Installment : Present(seenRow[t][i]) => seenRow[t][i] = inst[i]

\* What a transaction decided on is still what it overwrites: a row read under
\* a lock does not change before the transaction ends.
\* Code: the FOR UPDATE of both mark-paid operations.
LockedReadsAreCurrent == \A t \in Txn : ReadsAreCurrent(t)

\* Whatever the interleaving, a settled installment keeps its row: a paid one
\* is not cancelled, a cancelled one is not paid, and a cancelled commission
\* is not reopened by a payment that began before the cancel.
\* Code: cancel_commission against both mark-paid operations.
SettledIsFinal ==
    [][/\ \A i \in Installment : Settled(inst[i]) => inst'[i] = inst[i]
       /\ commission = "cancelled" => commission' = "cancelled"]_vars

\* A won estimate never gets a commission without its payout schedule, not even
\* when the process dies between the two INSERTs.
\* Code: _persist_won_commission's one transaction.
CreatedWithSchedule ==
    [][commission = "none" /\ commission' # "none" => inst' = Built]_vars

\* No request hangs: lock waits end in a commit, a refusal or a deadlock error.
EveryRequestEnds == \A t \in Txn : pc[t] # "idle" ~> pc[t] = "idle"

\* Which locks a transaction has at each statement, and what it has found out.
HoldsLocks(t) ==
    /\ pc[t] \in {"insert", "insert_rows"} => op[t] = "create_on_won"
    /\ pc[t] = "lookup" => op[t] = "cancel_for_estimate"
    /\ pc[t] = "installment" => op[t] = "mark_installment_paid"
    /\ pc[t] \in {"commission", "siblings"} => op[t] # "create_on_won"
    /\ pc[t] \in {"insert_rows", "siblings", "commit"} => commLock = t
    /\ pc[t] \in {"insert_rows", "commit"} /\ op[t] = "create_on_won" =>
          commission = "none"
    /\ pc[t] \in {"commission", "siblings", "commit"} /\ op[t] = "cancel_for_estimate" =>
          commission # "none"
    /\ pc[t] \in {"siblings", "commit"}
          /\ op[t] \in {"mark_installment_paid", "mark_commission_paid"} =>
          commission \notin {"none", "cancelled"}
    /\ pc[t] \in {"commission", "siblings", "commit"} /\ op[t] = "mark_installment_paid" =>
          rowLock[target[t]] = t
    /\ pc[t] \in {"siblings", "commit"} /\ op[t] = "mark_installment_paid" =>
          ~Unpayable(inst[target[t]], commission)
    /\ pc[t] = "commit" /\ op[t] # "create_on_won" => Unlocked(t) = {}
    /\ pc[t] = "commit" /\ op[t] = "mark_commission_paid" =>
          \A i \in Installment : Present(inst[i]) => ~Unpayable(inst[i], commission)
    /\ \A i \in Installment :
          /\ rowLock[i] = t => Present(seenRow[t][i])
          /\ rowLock[i] # t => seenRow[t][i] = Absent

LocksHeld == \A t \in Txn : HoldsLocks(t)

\* The inductive invariant.
IInv == ServiceTypeOK /\ Promises /\ LockedReadsAreCurrent /\ LocksHeld

\* The refinement mapping: the ledger's rows are the committed rows; locks, program
\* points and what a transaction has read are not seen.
Book == INSTANCE CommissionBook
        WITH commission <- commission, inst <- inst,
             closedAt <- closedAt, paidAt <- paidAt

\* The locking transactions implement the one-step ledger.
ImplementsBook == Book!Spec

\* It does not hold: cancel_for_estimate asks for status != 'cancelled' (README).
\* "Cancel every open commission on an estimate that was marked lost"
\* (cancel_for_estimate): a paid commission is not open.
OnlyOpenCommissionsAreCancelled ==
    [][commission' = "cancelled" => commission \in {"approved", "cancelled"}]_vars
=============================================================================
