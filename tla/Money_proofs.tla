---------------------------- MODULE Money_proofs -----------------------------
(***************************************************************************)
(* The locking transactions of CommissionService keep the promises of      *)
(* CommissionBook and implement it, for any number of requests and any     *)
(* payout schedule.  A step of the service is first shown to be a step of  *)
(* the book (given the inductive invariant IInv); the promises then follow *)
(* from the book alone.  Then the places of MCMoney where what was entered *)
(* is stored: the takeoff tab, cell by cell and PATCH by PATCH, its panel, *)
(* the discrepancy review; and the orders of the materials calculator.     *)
(***************************************************************************)
EXTENDS CommissionService, MCMoney, SequenceTheorems, TLAPS

-----------------------------------------------------------------------------
(* The one-step ledger keeps its promises, for every payout schedule.       *)

\* The row helpers keep the row type.
LEMMA RowTypes ==
  /\ Absent \in Row
  /\ Built \in [Installment -> Row]
  /\ \A r \in Row : PaidRow(r) \in Row /\ CancelledRow(r) \in Row
<1>1. Absent \in Row /\ Built \in [Installment -> Row]
  BY BuiltAssumption DEF Absent, Row, RowStatus, BuiltRow
<1>2. ASSUME NEW r \in Row PROVE PaidRow(r) \in Row /\ CancelledRow(r) \in Row
  BY DEF Row, RowStatus, PaidRow, CancelledRow
<1> QED BY <1>1, <1>2

\* What the helpers do to the status of a row.
LEMMA RowStatuses ==
  ASSUME NEW r \in Row
  PROVE  /\ PaidRow(r).status = IF Present(r) /\ ~Settled(r) THEN "paid" ELSE r.status
         /\ CancelledRow(r).status =
              IF Present(r) /\ r.status # "paid" THEN "cancelled" ELSE r.status
  BY DEF Row, RowStatus, PaidRow, CancelledRow

\* Counting stamps keeps the type and counts the rows that become paid.
LEMMA StampedType ==
  ASSUME NEW c \in [Installment -> Nat], NEW old, NEW new
  PROVE  Stamped(c, old, new) \in [Installment -> Nat]
  BY DEF Stamped

\* Every operation keeps the types.
LEMMA BookTypeStep ==
  ASSUME TypeOK, [Next]_bookVars
  PROVE  TypeOK'
<1>1. CASE Create
  BY <1>1, RowTypes DEF Create, TypeOK, CommissionStatus
<1>2. ASSUME NEW i \in Installment, BillingDataKnown(i) PROVE TypeOK'
  BY <1>2 DEF BillingDataKnown, TypeOK, Row, RowStatus
<1>3. ASSUME NEW i \in Installment, PayInstallment(i) PROVE TypeOK'
  BY <1>3 DEF PayInstallment, TypeOK, Row, RowStatus, CommissionStatus
<1>4. CASE PayCommission
  BY <1>4, RowTypes, StampedType DEF PayCommission, TypeOK, CommissionStatus
<1>5. CASE Cancel
  BY <1>5, RowTypes DEF Cancel, TypeOK, CommissionStatus
<1>6. CASE UNCHANGED bookVars
  BY <1>6 DEF bookVars, TypeOK
<1> QED BY <1>1, <1>2, <1>3, <1>4, <1>5, <1>6 DEF Next

\* Every operation keeps the promises.
LEMMA BookPromisesStep ==
  ASSUME TypeOK, Promises, [Next]_bookVars
  PROVE  Promises'
<1> USE DEF Promises
<1>1. CASE Create
  <2>1. /\ commission = "none" /\ commission' = "approved" /\ inst' = Built
        /\ closedAt' = closedAt /\ paidAt' = paidAt
    BY <1>1 DEF Create
  <2>2. \A i \in Installment :
           /\ Present(inst'[i]) /\ ~Settled(inst'[i])
           /\ inst[i].status = "absent"
    BY <2>1, BuiltAssumption DEF BuiltRow, Row, RowStatus, Present, Settled, ScheduleComplete
  <2>3. ScheduleComplete'
    BY <2>1, <2>2 DEF ScheduleComplete
  <2>4. ClosedWithLastInstallment'
    BY <2>1, <2>2, BuiltAssumption DEF ClosedWithLastInstallment, AllPaid, Settled
  <2>5. CancelledWhole'
    BY <2>1, <2>2 DEF CancelledWhole, Settled
  <2>6. PaidOnce'
    BY <2>1, <2>2 DEF PaidOnce, Settled
  <2> QED BY <2>3, <2>4, <2>5, <2>6
<1>2. ASSUME NEW i \in Installment, BillingDataKnown(i) PROVE Promises'
  <2>1. /\ commission' = commission /\ closedAt' = closedAt /\ paidAt' = paidAt
        /\ inst[i].status = "pending_billing_data" /\ inst'[i].status = "scheduled"
        /\ \A j \in Installment \ {i} : inst'[j] = inst[j]
    BY <1>2 DEF BillingDataKnown, TypeOK
  <2> QED
    BY <2>1
    DEF ScheduleComplete, ClosedWithLastInstallment, CancelledWhole, PaidOnce,
        AllPaid, Present, Settled
<1>3. ASSUME NEW i \in Installment, PayInstallment(i) PROVE Promises'
  <2>1. /\ inst[i].status = "scheduled" /\ inst'[i].status = "paid"
        /\ \A j \in Installment \ {i} : inst'[j] = inst[j]
        /\ paidAt'[i] = paidAt[i] + 1
        /\ \A j \in Installment \ {i} : paidAt'[j] = paidAt[j]
    BY <1>3 DEF PayInstallment, TypeOK, Row
  <2>2. commission = "approved"
    BY <1>3, <2>1 DEF PayInstallment, ClosedWithLastInstallment, AllPaid, Present
  <2>3. IF AllPaid(inst') THEN commission' = "paid" /\ closedAt' = closedAt + 1
                          ELSE commission' = "approved" /\ closedAt' = closedAt
    BY <1>3, <2>2 DEF PayInstallment
  <2>4. ScheduleComplete'
    BY <2>1, <2>2, <2>3 DEF ScheduleComplete, Present
  <2>5. ClosedWithLastInstallment'
    BY <2>1, <2>2, <2>3 DEF ClosedWithLastInstallment
  <2>6. CancelledWhole'
    BY <2>1, <2>2, <2>3 DEF CancelledWhole, Present, Settled
  <2>7. PaidOnce'
    BY <2>1, <2>2, <2>3 DEF PaidOnce, TypeOK
  <2> QED BY <2>4, <2>5, <2>6, <2>7
<1>4. CASE PayCommission
  <2>1. /\ commission = "approved" /\ commission' = "paid" /\ closedAt' = closedAt + 1
        /\ paidAt' = Stamped(paidAt, inst, inst')
        /\ inst' = [j \in Installment |-> PaidRow(inst[j])]
    BY <1>4 DEF PayCommission
  <2>2. \A j \in Installment :
           inst'[j].status = IF Present(inst[j]) THEN "paid" ELSE inst[j].status
    BY <1>4, <2>1, RowStatuses DEF PayCommission, TypeOK, Unpayable, Settled
  <2>3. ScheduleComplete'
    BY <2>1, <2>2 DEF ScheduleComplete, Present
  <2>4. ClosedWithLastInstallment'
    BY <2>1, <2>2 DEF ClosedWithLastInstallment, AllPaid, Present
  <2>5. CancelledWhole'
    BY <2>1, <2>2 DEF CancelledWhole, Present
  <2>6. PaidOnce'
    BY <2>1, <2>2 DEF PaidOnce, Stamped, Present, TypeOK
  <2> QED BY <2>3, <2>4, <2>5, <2>6
<1>5. CASE Cancel
  <2>1. /\ commission # "none" /\ commission' = "cancelled" /\ closedAt' = closedAt
        /\ paidAt' = paidAt /\ inst' = [j \in Installment |-> CancelledRow(inst[j])]
    BY <1>5 DEF Cancel
  <2>2. \A j \in Installment :
           inst'[j].status = IF Present(inst[j]) /\ inst[j].status # "paid"
                             THEN "cancelled" ELSE inst[j].status
    BY <2>1, RowStatuses DEF TypeOK
  <2>3. ScheduleComplete'
    BY <2>1, <2>2 DEF ScheduleComplete, Present
  <2>4. ClosedWithLastInstallment' /\ CancelledWhole'
    BY <2>1, <2>2 DEF ClosedWithLastInstallment, CancelledWhole, Settled, Present
  <2>5. PaidOnce'
    BY <2>1, <2>2 DEF PaidOnce, Present
  <2> QED BY <2>3, <2>4, <2>5
<1>6. CASE UNCHANGED bookVars
  BY <1>6
  DEF bookVars, ScheduleComplete, ClosedWithLastInstallment, CancelledWhole,
      PaidOnce, AllPaid, Present, Settled
<1> QED BY <1>1, <1>2, <1>3, <1>4, <1>5, <1>6 DEF Next

\* The initial book keeps the promises.
LEMMA BookInit == Init => TypeOK /\ Promises
  BY RowTypes
  DEF Init, TypeOK, CommissionStatus, Promises, ScheduleComplete,
      ClosedWithLastInstallment, CancelledWhole, PaidOnce, Absent, Present, Settled, AllPaid

\* The ledger keeps all its promises: whole schedules, a parent closed exactly
\* with its last installment, nothing payable after a cancel, one paid_at each.
THEOREM BookKeepsPromises == Spec => [](TypeOK /\ Promises)
<1>1. TypeOK /\ Promises /\ [Next]_bookVars => (TypeOK /\ Promises)'
  BY BookTypeStep, BookPromisesStep
<1> QED BY BookInit, <1>1, PTL DEF Spec

-----------------------------------------------------------------------------
(* The transactions.                                                        *)

\* The default target is an installment number.
LEMMA NoTargetType == NoTarget \in Installment
  BY BuiltAssumption DEF NoTarget

-----------------------------------------------------------------------------
(* Type correctness.                                                        *)

\* Rolling a transaction back keeps the types.
LEMMA RollBackType ==
  ASSUME NEW t \in Txn, ServiceTypeOK, RollBack(t)
  PROVE  ServiceTypeOK'
  BY NoTargetType, RowTypes
  DEF RollBack, End, Goto, Unread, ServiceTypeOK, TypeOK, bookVars, Op, Step,
      CommissionStatus

\* Every step keeps the types.
LEMMA TypeStep ==
  ASSUME ServiceTypeOK, [ServiceNext]_vars
  PROVE  ServiceTypeOK'
<1> USE NoTargetType, RowTypes
<1>1. ASSUME NEW t \in Txn, NEW o \in Op, NEW i \in Installment, Begin(t, o, i)
      PROVE  ServiceTypeOK'
  BY <1>1 DEF Begin, Goto, FirstStep, Op, Step, ServiceTypeOK, TypeOK, bookVars, lockVars
<1>2. ASSUME NEW t \in Txn, InsertCommission(t) PROVE ServiceTypeOK'
  BY <1>2, RollBackType
  DEF InsertCommission, Goto, Step, ServiceTypeOK, TypeOK, bookVars
<1>3. ASSUME NEW t \in Txn, InsertInstallments(t) PROVE ServiceTypeOK'
  BY <1>3 DEF InsertInstallments, Goto, Step, ServiceTypeOK, TypeOK, bookVars, lockVars
<1>4. ASSUME NEW t \in Txn, LookUp(t) PROVE ServiceTypeOK'
  BY <1>4, RollBackType
  DEF LookUp, Goto, Step, ServiceTypeOK, TypeOK, bookVars, lockVars
<1>5. ASSUME NEW t \in Txn, LockInstallment(t) PROVE ServiceTypeOK'
  <2>1. CASE RollBack(t)
    BY <2>1, RollBackType
  <2>2. CASE ~RollBack(t)
    <3>1. target[t] \in Installment /\ inst[target[t]] \in Row
      BY DEF ServiceTypeOK, TypeOK
    <3>2. rowLock' \in [Installment -> Txn \cup {NoTxn}]
      BY <1>5, <2>2, <3>1 DEF LockInstallment, ServiceTypeOK
    <3>3. seenRow' \in [Txn -> [Installment -> Row]]
      <4>1. PICK i \in Installment : i = target[t]
        BY <3>1
      <4>2. seenRow' = [seenRow EXCEPT ![t][i] = inst[i]]
        BY <1>5, <2>2, <4>1 DEF LockInstallment
      <4> QED BY <3>1, <4>1, <4>2 DEF ServiceTypeOK
    <3> QED
      BY <1>5, <2>2, <3>2, <3>3
      DEF LockInstallment, Goto, Step, ServiceTypeOK, TypeOK, bookVars
  <2> QED BY <2>1, <2>2
<1>6. ASSUME NEW t \in Txn, LockCommission(t) PROVE ServiceTypeOK'
  BY <1>6, RollBackType
  DEF LockCommission, Goto, Step, ServiceTypeOK, TypeOK, bookVars
<1>7. ASSUME NEW t \in Txn, NEW i \in Installment, LockSibling(t, i)
      PROVE  ServiceTypeOK'
  BY <1>7 DEF LockSibling, ServiceTypeOK, TypeOK, bookVars
<1>8. ASSUME NEW t \in Txn, CheckSiblings(t) PROVE ServiceTypeOK'
  BY <1>8, RollBackType
  DEF CheckSiblings, Goto, Step, ServiceTypeOK, TypeOK, bookVars, lockVars
<1>9. ASSUME NEW t \in Txn, Commit(t) PROVE ServiceTypeOK'
  <2>1. TypeOK'
    <3>1. CASE CommitCreate(t)
      BY <3>1 DEF CommitCreate, ServiceTypeOK, TypeOK, CommissionStatus
    <3>2. CASE CommitCancel(t)
      BY <3>2 DEF CommitCancel, ServiceTypeOK, TypeOK, CommissionStatus
    <3>3. CASE CommitPayInstallment(t)
      <4>1. inst' \in [Installment -> Row]
        BY <3>3 DEF CommitPayInstallment, ServiceTypeOK, TypeOK
      <4>2. paidAt' \in [Installment -> Nat]
        BY <3>3 DEF CommitPayInstallment, Stamped, ServiceTypeOK, TypeOK
      <4>3. commission' \in CommissionStatus /\ closedAt' \in Nat
        BY <3>3 DEF CommitPayInstallment, Close, ServiceTypeOK, TypeOK, CommissionStatus
      <4> QED BY <4>1, <4>2, <4>3 DEF TypeOK
    <3>4. CASE CommitPayCommission(t)
      <4>1. inst' \in [Installment -> Row]
        BY <3>4 DEF CommitPayCommission, ServiceTypeOK, TypeOK
      <4>2. paidAt' \in [Installment -> Nat]
        BY <3>4 DEF CommitPayCommission, Stamped, ServiceTypeOK, TypeOK
      <4>3. commission' \in CommissionStatus /\ closedAt' \in Nat
        BY <3>4 DEF CommitPayCommission, Close, ServiceTypeOK, TypeOK, CommissionStatus
      <4> QED BY <4>1, <4>2, <4>3 DEF TypeOK
    <3> QED BY <1>9, <3>1, <3>2, <3>3, <3>4 DEF Commit
  <2> QED
    BY <1>9, <2>1
    DEF Commit, End, Goto, Unread, ServiceTypeOK, Op, Step, CommissionStatus
<1>10. ASSUME NEW t \in Txn, DeadlockVictim(t) PROVE ServiceTypeOK'
  BY <1>10, RollBackType DEF DeadlockVictim
<1>11. ASSUME NEW i \in Installment, BillingUpdate(i) PROVE ServiceTypeOK'
  BY <1>11
  DEF BillingUpdate, BillingDataKnown, ServiceTypeOK, TypeOK, txVars, lockVars, Row, RowStatus
<1>12. CASE Crash
  BY <1>12
  DEF Crash, Unread, ServiceTypeOK, TypeOK, bookVars, Op, Step, CommissionStatus
<1>13. CASE UNCHANGED vars
  BY <1>13 DEF vars, bookVars, txVars, lockVars, ServiceTypeOK, TypeOK
<1> QED
  BY <1>1, <1>2, <1>3, <1>4, <1>5, <1>6, <1>7, <1>8, <1>9, <1>10, <1>11, <1>12, <1>13
  DEF ServiceNext, Advance

\* Every variable keeps its type, whatever requests run.
THEOREM TypeCorrect == ServiceSpec => []ServiceTypeOK
<1>1. ServiceInit => ServiceTypeOK
  BY NoTargetType, RowTypes
  DEF ServiceInit, Init, ServiceTypeOK, TypeOK, Op, Step, CommissionStatus, Unread
<1>2. ServiceTypeOK /\ [ServiceNext]_vars => ServiceTypeOK'
  BY TypeStep
<1> QED BY <1>1, <1>2, PTL DEF ServiceSpec

-----------------------------------------------------------------------------
(* A step of the service is a step of the book, or none.                    *)

\* At its commit a transaction that locked the whole commission has read it:
\* what it sees of a row is the row, or there is no row.
LEMMA SeenIsCurrent ==
  ASSUME IInv, NEW t \in Txn, pc[t] = "commit", op[t] # "create_on_won"
  PROVE  /\ seenStatus[t] = commission
         /\ \A i \in Installment :
               IF Present(inst[i]) THEN rowLock[i] = t /\ seenRow[t][i] = inst[i]
                                   ELSE ~Present(seenRow[t][i])
<1>1. seenStatus[t] = commission /\ Unlocked(t) = {}
  BY DEF IInv, LockedReadsAreCurrent, ReadsAreCurrent, LocksHeld, HoldsLocks
<1>2. ASSUME NEW i \in Installment, Present(inst[i])
      PROVE  rowLock[i] = t /\ seenRow[t][i] = inst[i]
  <2>1. rowLock[i] = t
    BY <1>1, <1>2 DEF Unlocked
  <2>2. Present(seenRow[t][i])
    BY <2>1 DEF IInv, LocksHeld, HoldsLocks
  <2> QED BY <2>1, <2>2 DEF IInv, LockedReadsAreCurrent, ReadsAreCurrent
<1>3. ASSUME NEW i \in Installment, ~Present(inst[i]) PROVE ~Present(seenRow[t][i])
  BY <1>3 DEF IInv, LockedReadsAreCurrent, ReadsAreCurrent
<1> QED BY <1>1, <1>2, <1>3

\* A committed hand-out of one installment is PayInstallment, or repeats it.
LEMMA CommitPayInstallmentStep ==
  ASSUME IInv, NEW t \in Txn, pc[t] = "commit", CommitPayInstallment(t)
  PROVE  [Next]_bookVars
<1> DEFINE j == target[t]
           schedule == [seenRow[t] EXCEPT ![j] = PaidRow(@)]
<1>1. /\ op[t] = "mark_installment_paid"
      /\ j \in Installment
      /\ inst[j] \in Row
      /\ inst \in [Installment -> Row]
      /\ seenRow[t] \in [Installment -> Row]
      /\ paidAt \in [Installment -> Nat]
  BY DEF IInv, ServiceTypeOK, TypeOK, CommitPayInstallment
<1>2. /\ seenStatus[t] = commission
      /\ \A i \in Installment :
            IF Present(inst[i]) THEN rowLock[i] = t /\ seenRow[t][i] = inst[i]
                                ELSE ~Present(seenRow[t][i])
  BY <1>1, SeenIsCurrent
<1>3. /\ ~Unpayable(inst[j], commission)
      /\ rowLock[j] = t
      /\ commission \in {"approved", "paid"}
  BY <1>1 DEF IInv, LocksHeld, HoldsLocks, ServiceTypeOK, TypeOK, CommissionStatus
<1>4. Present(inst[j]) /\ seenRow[t][j] = inst[j]
  <2>1. Present(seenRow[t][j])
    BY <1>1, <1>3 DEF IInv, LocksHeld, HoldsLocks
  <2> QED BY <1>1, <1>2, <2>1
<1>5. inst[j].status \in {"scheduled", "paid"}
  BY <1>1, <1>3, <1>4 DEF Unpayable, Present, Row, RowStatus
<1>6. CASE inst[j].status = "scheduled"
  <2>1. PaidRow(inst[j]) = [inst[j] EXCEPT !.status = "paid"]
    BY <1>6 DEF PaidRow, Present, Settled
  <2>2. inst' = [inst EXCEPT ![j].status = "paid"]
    BY <1>1, <1>4, <1>6, <2>1 DEF CommitPayInstallment
  <2>3. /\ inst'[j].status = "paid"
        /\ \A i \in Installment \ {j} : inst'[i] = inst[i]
    BY <1>1, <2>2 DEF Row
  <2>4. paidAt' = [paidAt EXCEPT ![j] = @ + 1]
    BY <1>1, <1>6, <2>3 DEF CommitPayInstallment, Stamped
  <2>5. AllPaid(schedule) <=> AllPaid(inst')
    <3>1. schedule[j] = inst'[j]
      BY <1>1, <1>4, <2>1, <2>2
    <3>2. \A i \in Installment \ {j} : schedule[i] = seenRow[t][i]
      BY <1>1
    <3> HIDE DEF schedule, j
    <3> QED BY <1>1, <1>2, <2>3, <3>1, <3>2 DEF AllPaid
  <2>6. IF AllPaid(inst') /\ commission = "approved"
        THEN commission' = "paid" /\ closedAt' = closedAt + 1
        ELSE UNCHANGED <<commission, closedAt>>
    BY <1>2, <1>3, <2>5 DEF CommitPayInstallment, Close
  <2>7. PayInstallment(j)
    BY <1>3, <1>6, <2>2, <2>4, <2>6 DEF PayInstallment
  <2> QED BY <1>1, <2>7 DEF Next
<1>7. CASE inst[j].status = "paid"
  <2>1. inst' = inst
    BY <1>1, <1>4, <1>7 DEF CommitPayInstallment
  <2>2. paidAt' = paidAt
    BY <1>1, <2>1 DEF CommitPayInstallment, Stamped
  <2>3. schedule[j] = inst[j]
    BY <1>1, <1>4, <1>7 DEF PaidRow, Settled
  <2>4. AllPaid(schedule) => AllPaid(inst)
    <3>1. \A i \in Installment \ {j} : schedule[i] = seenRow[t][i]
      BY <1>1
    <3> HIDE DEF schedule, j
    <3> QED BY <1>1, <1>2, <2>3, <3>1 DEF AllPaid
  <2>5. ~(commission = "approved" /\ AllPaid(schedule))
    BY <1>1, <1>4, <2>4 DEF IInv, Promises, ClosedWithLastInstallment
  <2>6. UNCHANGED <<commission, closedAt>>
    BY <1>2, <1>3, <2>5 DEF CommitPayInstallment, Close
  <2> QED BY <2>1, <2>2, <2>6 DEF bookVars
<1> QED BY <1>5, <1>6, <1>7

\* A committed hand-out of the whole commission is PayCommission, or repeats it.
LEMMA CommitPayCommissionStep ==
  ASSUME IInv, NEW t \in Txn, pc[t] = "commit", CommitPayCommission(t)
  PROVE  [Next]_bookVars
<1> DEFINE schedule == [i \in Installment |-> PaidRow(seenRow[t][i])]
<1>1. /\ op[t] = "mark_commission_paid"
      /\ inst \in [Installment -> Row]
      /\ seenRow[t] \in [Installment -> Row]
      /\ paidAt \in [Installment -> Nat]
  BY DEF IInv, ServiceTypeOK, TypeOK, CommitPayCommission
<1>2. /\ seenStatus[t] = commission
      /\ \A i \in Installment :
            IF Present(inst[i]) THEN rowLock[i] = t /\ seenRow[t][i] = inst[i]
                                ELSE ~Present(seenRow[t][i])
  BY <1>1, SeenIsCurrent
<1>3. /\ commission \in {"approved", "paid"}
      /\ \A i \in Installment : Present(inst[i]) => ~Unpayable(inst[i], commission)
  BY <1>1 DEF IInv, LocksHeld, HoldsLocks, ServiceTypeOK, TypeOK, CommissionStatus
<1>4. CASE commission = "approved"
  <2>1. AllPaid(schedule)
    <3>1. ASSUME NEW i \in Installment, Present(schedule[i]) PROVE schedule[i].status = "paid"
      <4>1. Present(seenRow[t][i])
        BY <1>1, <3>1, RowStatuses DEF Present
      <4>2. seenRow[t][i] = inst[i] /\ ~Unpayable(inst[i], commission)
        BY <1>2, <1>3, <4>1
      <4> QED BY <1>1, <4>1, <4>2, RowStatuses DEF Unpayable, Settled
    <3> QED BY <3>1 DEF AllPaid
  <2>2. commission' = "paid" /\ closedAt' = closedAt + 1
    BY <1>2, <1>4, <2>1 DEF CommitPayCommission, Close
  <2> QED BY <1>3, <1>4, <2>2 DEF CommitPayCommission, PayCommission, Next
<1>5. CASE commission = "paid"
  <2>1. \A i \in Installment : PaidRow(inst[i]) = inst[i]
    BY <1>5 DEF IInv, Promises, ClosedWithLastInstallment, AllPaid, PaidRow, Settled
  <2>2. inst' = inst
    BY <1>1, <2>1 DEF CommitPayCommission
  <2>3. paidAt' = paidAt
    BY <1>1, <2>2 DEF CommitPayCommission, Stamped
  <2>4. UNCHANGED <<commission, closedAt>>
    BY <1>2, <1>5 DEF CommitPayCommission, Close
  <2> QED BY <2>2, <2>3, <2>4 DEF bookVars
<1> QED BY <1>3, <1>4, <1>5

\* A committed cancel is Cancel, or repeats it.
LEMMA CommitCancelStep ==
  ASSUME IInv, NEW t \in Txn, pc[t] = "commit", CommitCancel(t)
  PROVE  [Next]_bookVars
<1>1. /\ inst \in [Installment -> Row]
      /\ commission \in {"approved", "paid", "cancelled"}
  BY DEF IInv, LocksHeld, HoldsLocks, ServiceTypeOK, TypeOK, CommissionStatus, CommitCancel
<1>2. CASE commission = "cancelled"
  <2>1. ASSUME NEW i \in Installment PROVE CancelledRow(inst[i]) = inst[i]
    <3>1. inst[i] \in Row /\ (Present(inst[i]) => Settled(inst[i]))
      BY <1>1, <1>2 DEF IInv, Promises, CancelledWhole
    <3> QED BY <3>1 DEF CancelledRow, Settled, Row
  <2>2. inst' = inst
    BY <1>1, <2>1 DEF CommitCancel
  <2> QED BY <1>2, <2>2 DEF CommitCancel, bookVars
<1>3. CASE commission # "cancelled"
  BY <1>1, <1>3 DEF CommitCancel, Cancel, Next
<1> QED BY <1>2, <1>3

\* Every step of the service is a step of the book or leaves it alone.
LEMMA RefinementStep ==
  ASSUME IInv, [ServiceNext]_vars
  PROVE  [Next]_bookVars
<1>1. ASSUME NEW t \in Txn, Commit(t) PROVE [Next]_bookVars
  <2>1. CASE CommitCreate(t)
    BY <1>1, <2>1 DEF Commit, CommitCreate, IInv, LocksHeld, HoldsLocks, Create, Next
  <2> QED
    BY <1>1, <2>1, CommitCancelStep, CommitPayInstallmentStep, CommitPayCommissionStep
    DEF Commit
<1>2. ASSUME NEW t \in Txn, Advance(t), ~Commit(t) PROVE UNCHANGED bookVars
  BY <1>2
  DEF Advance, InsertCommission, InsertInstallments, LookUp, LockInstallment,
      LockCommission, LockSibling, CheckSiblings, RollBack
<1>3. ASSUME NEW i \in Installment, BillingUpdate(i) PROVE Next
  BY <1>3 DEF BillingUpdate, Next
<1>4. CASE Crash \/ UNCHANGED vars
  BY <1>4 DEF Crash, vars
<1>5. ASSUME NEW t \in Txn,
             DeadlockVictim(t) \/ \E o \in Op, i \in Installment : Begin(t, o, i)
      PROVE  UNCHANGED bookVars
  BY <1>5 DEF DeadlockVictim, RollBack, Begin
<1> QED BY <1>1, <1>2, <1>3, <1>4, <1>5 DEF ServiceNext
-----------------------------------------------------------------------------
(* Locks.                                                                   *)

\* A step that leaves the book alone, and a transaction's own variables and
\* locks, leaves what that transaction knows.
LEMMA OthersKeepLocks ==
  ASSUME ServiceTypeOK, NEW u \in Txn, ReadsAreCurrent(u), HoldsLocks(u),
         UNCHANGED bookVars,
         /\ pc'[u] = pc[u] /\ op'[u] = op[u] /\ target'[u] = target[u]
         /\ seenStatus'[u] = seenStatus[u] /\ seenRow'[u] = seenRow[u],
         commLock' = u <=> commLock = u,
         \A i \in Installment : rowLock'[i] = u <=> rowLock[i] = u
  PROVE  ReadsAreCurrent(u)' /\ HoldsLocks(u)'
<1>1. commission' = commission /\ inst' = inst
  BY DEF bookVars
<1>2. target[u] \in Installment
  BY DEF ServiceTypeOK
<1>3. ReadsAreCurrent(u)'
  BY <1>1 DEF ReadsAreCurrent
<1>4. Unlocked(u)' = Unlocked(u)
  BY <1>1 DEF Unlocked
<1>5. HoldsLocks(u)'
  BY <1>1, <1>2, <1>4 DEF HoldsLocks
<1> QED BY <1>3, <1>5

\* After a rollback the transaction holds nothing and knows nothing.
LEMMA EndLocks ==
  ASSUME ServiceTypeOK, NEW t \in Txn, End(t)
  PROVE  /\ ReadsAreCurrent(t)' /\ HoldsLocks(t)'
         /\ \A u \in Txn \ {t} :
               /\ pc'[u] = pc[u] /\ op'[u] = op[u] /\ target'[u] = target[u]
               /\ seenStatus'[u] = seenStatus[u] /\ seenRow'[u] = seenRow[u]
               /\ commLock' = u <=> commLock = u
               /\ \A i \in Installment : rowLock'[i] = u <=> rowLock[i] = u
<1>1. /\ pc'[t] = "idle" /\ op'[t] = "create_on_won"
      /\ \A i \in Installment : seenRow'[t][i] = Absent /\ rowLock'[i] # t
  BY TxnAssumption DEF End, Goto, Unread, ServiceTypeOK
<1>2. ReadsAreCurrent(t)' /\ HoldsLocks(t)'
  BY <1>1 DEF ReadsAreCurrent, HoldsLocks, Present, Absent
<1> QED BY <1>2, TxnAssumption DEF End, Goto, ServiceTypeOK

\* A rollback keeps every transaction's knowledge.
LEMMA RollBackLocks ==
  ASSUME IInv, NEW t \in Txn, RollBack(t)
  PROVE  LockedReadsAreCurrent' /\ LocksHeld'
<1>1. ServiceTypeOK /\ End(t) /\ UNCHANGED bookVars
  BY DEF IInv, RollBack
<1>2. ASSUME NEW u \in Txn, u # t PROVE ReadsAreCurrent(u)' /\ HoldsLocks(u)'
  BY <1>1, <1>2, EndLocks, OthersKeepLocks DEF IInv, LockedReadsAreCurrent, LocksHeld
<1> QED BY <1>1, <1>2, EndLocks DEF LockedReadsAreCurrent, LocksHeld

\* A commit finds no other transaction with a row lock, and at no statement
\* that relies on one.
LEMMA CommitLocks ==
  ASSUME IInv, NEW t \in Txn, Commit(t)
  PROVE  LockedReadsAreCurrent' /\ LocksHeld'
<1>1. ServiceTypeOK /\ End(t) /\ pc[t] = "commit" /\ commLock = t
  BY DEF IInv, Commit, LocksHeld, HoldsLocks
<1>2. [Next]_bookVars
  BY RefinementStep DEF ServiceNext, Advance
<1>3. ASSUME NEW i \in Installment, Present(inst[i]) PROVE rowLock[i] = t
  BY <1>1, <1>3 DEF IInv, Promises, ScheduleComplete, LocksHeld, HoldsLocks, Unlocked
<1>4. ASSUME NEW u \in Txn, u # t PROVE ReadsAreCurrent(u)' /\ HoldsLocks(u)'
  <2>1. /\ pc'[u] = pc[u] /\ op'[u] = op[u] /\ target'[u] = target[u]
        /\ seenRow'[u] = seenRow[u] /\ target[u] \in Installment
        /\ \A i \in Installment : rowLock'[i] = u <=> rowLock[i] = u
    BY <1>1, <1>4, EndLocks DEF ServiceTypeOK
  <2>2. ReadsAreCurrent(u) /\ HoldsLocks(u)
    BY DEF IInv, LockedReadsAreCurrent, LocksHeld
  <2>3. \A i \in Installment : rowLock[i] # u /\ seenRow[u][i] = Absent
    <3>1. ASSUME NEW i \in Installment, rowLock[i] = u PROVE FALSE
      <4>1. seenRow[u][i] = inst[i] /\ Present(seenRow[u][i])
        BY <2>2, <3>1 DEF HoldsLocks, ReadsAreCurrent
      <4> QED BY <1>3, <1>4, <3>1, <4>1
    <3> QED BY <2>2, <3>1 DEF HoldsLocks
  <2>4. pc[u] \notin {"insert_rows", "siblings", "commit"}
    BY <1>1, <1>4, <2>2 DEF HoldsLocks
  <2>5. commission # "none" => commission' # "none"
    BY <1>2
    DEF Next, Create, BillingDataKnown, PayInstallment, PayCommission, Cancel, bookVars
  <2>6. ReadsAreCurrent(u)'
    BY <2>1, <2>3, <2>4 DEF ReadsAreCurrent, Present, Absent
  <2>7. HoldsLocks(u)'
    BY <2>1, <2>2, <2>3, <2>4, <2>5 DEF HoldsLocks
  <2> QED BY <2>6, <2>7
<1> QED BY <1>1, <1>4, EndLocks DEF LockedReadsAreCurrent, LocksHeld

\* Every step keeps what the transactions know.
LEMMA LocksStep ==
  ASSUME IInv, [ServiceNext]_vars
  PROVE  LockedReadsAreCurrent' /\ LocksHeld'
<1>1. ServiceTypeOK /\ Promises /\ LockedReadsAreCurrent /\ LocksHeld
  BY DEF IInv
<1> DEFINE Mine(t) == ReadsAreCurrent(t)' /\ HoldsLocks(t)'
           Elsewhere(t) ==
              /\ UNCHANGED bookVars
              /\ \A u \in Txn \ {t} :
                    /\ pc'[u] = pc[u] /\ op'[u] = op[u] /\ target'[u] = target[u]
                    /\ seenStatus'[u] = seenStatus[u] /\ seenRow'[u] = seenRow[u]
                    /\ commLock' = u <=> commLock = u
                    /\ \A i \in Installment : rowLock'[i] = u <=> rowLock[i] = u
<1>2. ASSUME NEW t \in Txn, Mine(t), Elsewhere(t)
      PROVE  LockedReadsAreCurrent' /\ LocksHeld'
  <2>1. ASSUME NEW u \in Txn, u # t PROVE ReadsAreCurrent(u)' /\ HoldsLocks(u)'
    BY <1>1, <1>2, <2>1, OthersKeepLocks DEF LockedReadsAreCurrent, LocksHeld
  <2> QED BY <1>2, <2>1 DEF LockedReadsAreCurrent, LocksHeld
<1>3. ASSUME NEW t \in Txn, NEW o \in Op, NEW i \in Installment, Begin(t, o, i)
      PROVE  LockedReadsAreCurrent' /\ LocksHeld'
  <2>1. /\ pc'[t] = FirstStep[o] /\ op'[t] = o
        /\ seenRow' = seenRow /\ seenStatus' = seenStatus
        /\ commLock' = commLock /\ rowLock' = rowLock
        /\ inst' = inst /\ commission' = commission
    BY <1>1, <1>3 DEF Begin, Goto, ServiceTypeOK, bookVars, lockVars
  <2>2. /\ o = "create_on_won" => pc'[t] = "insert"
        /\ o = "cancel_for_estimate" => pc'[t] = "lookup"
        /\ o = "mark_installment_paid" => pc'[t] = "installment"
        /\ o = "mark_commission_paid" => pc'[t] = "commission"
    BY <2>1 DEF FirstStep, Op
  <2>3. Mine(t)
    BY <1>1, <2>1, <2>2
    DEF Op, LockedReadsAreCurrent, LocksHeld, ReadsAreCurrent, HoldsLocks
  <2>4. Elsewhere(t)
    BY <1>1, <1>3 DEF Begin, Goto, ServiceTypeOK, lockVars
  <2> HIDE DEF Mine, Elsewhere
  <2> QED BY <1>2, <2>3, <2>4
<1>4. ASSUME NEW t \in Txn, InsertCommission(t), ~RollBack(t)
      PROVE  LockedReadsAreCurrent' /\ LocksHeld'
  <2>1. /\ pc[t] = "insert" /\ pc'[t] = "insert_rows" /\ op' = op
        /\ seenRow' = seenRow /\ seenStatus' = seenStatus
        /\ commLock = NoTxn /\ commLock' = t /\ rowLock' = rowLock
        /\ commission = "none" /\ inst' = inst /\ commission' = commission
    BY <1>1, <1>4 DEF InsertCommission, Goto, ServiceTypeOK, bookVars
  <2>2. Mine(t)
    BY <1>1, <2>1 DEF LockedReadsAreCurrent, LocksHeld, ReadsAreCurrent, HoldsLocks
  <2>3. Elsewhere(t)
    BY <1>1, <1>4, TxnAssumption DEF InsertCommission, Goto, ServiceTypeOK
  <2> HIDE DEF Mine, Elsewhere
  <2> QED BY <1>2, <2>2, <2>3
<1>5. ASSUME NEW t \in Txn, InsertInstallments(t)
      PROVE  LockedReadsAreCurrent' /\ LocksHeld'
  <2>1. /\ pc[t] = "insert_rows" /\ pc'[t] = "commit" /\ op' = op
        /\ seenRow' = seenRow /\ seenStatus' = seenStatus
        /\ commLock' = commLock /\ rowLock' = rowLock
        /\ inst' = inst /\ commission' = commission
    BY <1>1, <1>5 DEF InsertInstallments, Goto, ServiceTypeOK, bookVars, lockVars
  <2>2. Mine(t)
    BY <1>1, <2>1 DEF LockedReadsAreCurrent, LocksHeld, ReadsAreCurrent, HoldsLocks
  <2>3. Elsewhere(t)
    BY <1>1, <1>5 DEF InsertInstallments, Goto, ServiceTypeOK, lockVars
  <2> HIDE DEF Mine, Elsewhere
  <2> QED BY <1>2, <2>2, <2>3
<1>6. ASSUME NEW t \in Txn, LookUp(t), ~RollBack(t)
      PROVE  LockedReadsAreCurrent' /\ LocksHeld'
  <2>1. /\ pc[t] = "lookup" /\ pc'[t] = "commission" /\ op' = op
        /\ seenRow' = seenRow /\ seenStatus' = seenStatus
        /\ commLock' = commLock /\ rowLock' = rowLock
        /\ commission # "none" /\ inst' = inst /\ commission' = commission
    BY <1>1, <1>6 DEF LookUp, Goto, ServiceTypeOK, bookVars, lockVars
  <2>2. Mine(t)
    BY <1>1, <2>1 DEF LockedReadsAreCurrent, LocksHeld, ReadsAreCurrent, HoldsLocks
  <2>3. Elsewhere(t)
    BY <1>1, <1>6 DEF LookUp, Goto, ServiceTypeOK, lockVars
  <2> HIDE DEF Mine, Elsewhere
  <2> QED BY <1>2, <2>2, <2>3
<1>7. ASSUME NEW t \in Txn, LockInstallment(t), ~RollBack(t)
      PROVE  LockedReadsAreCurrent' /\ LocksHeld'
  <2>1. PICK j \in Installment : j = target[t]
    BY <1>1 DEF ServiceTypeOK
  <2>2. /\ pc[t] = "installment" /\ pc'[t] = "commission" /\ op' = op /\ target' = target
        /\ Present(inst[j]) /\ rowLock[j] = NoTxn
        /\ rowLock' = [rowLock EXCEPT ![j] = t]
        /\ seenRow' = [seenRow EXCEPT ![t][j] = inst[j]]
        /\ seenStatus' = seenStatus /\ commLock' = commLock
        /\ inst' = inst /\ commission' = commission /\ UNCHANGED bookVars
    BY <1>1, <1>7, <2>1 DEF LockInstallment, Goto, ServiceTypeOK, bookVars
  <2>3. /\ rowLock'[j] = t /\ seenRow'[t][j] = inst[j]
        /\ \A i \in Installment \ {j} :
              rowLock'[i] = rowLock[i] /\ seenRow'[t][i] = seenRow[t][i]
    BY <1>1, <2>2 DEF ServiceTypeOK
  <2>4. Mine(t)
    BY <1>1, <2>1, <2>2, <2>3
    DEF LockedReadsAreCurrent, LocksHeld, ReadsAreCurrent, HoldsLocks
  <2>5. Elsewhere(t)
    BY <1>1, <1>7, <2>2, TxnAssumption DEF LockInstallment, Goto, ServiceTypeOK
  <2> HIDE DEF Mine, Elsewhere
  <2> QED BY <1>2, <2>4, <2>5
<1>8. ASSUME NEW t \in Txn, LockCommission(t), ~RollBack(t)
      PROVE  LockedReadsAreCurrent' /\ LocksHeld'
  <2>1. /\ pc[t] = "commission" /\ pc'[t] = "siblings" /\ op' = op /\ target' = target
        /\ ~Refused(t) /\ commLock = NoTxn /\ commLock' = t /\ rowLock' = rowLock
        /\ seenRow' = seenRow /\ seenStatus'[t] = commission
        /\ inst' = inst /\ commission' = commission
    BY <1>1, <1>8 DEF LockCommission, Goto, ServiceTypeOK, bookVars
  <2>2. op[t] = "mark_installment_paid" =>
           /\ rowLock[target[t]] = t /\ target[t] \in Installment
           /\ Present(inst[target[t]]) /\ ~Unpayable(inst[target[t]], commission)
    BY <1>1, <2>1
    DEF LockedReadsAreCurrent, ReadsAreCurrent, LocksHeld, HoldsLocks, Refused, ServiceTypeOK
  <2>3. op[t] \in {"mark_installment_paid", "mark_commission_paid"} =>
           commission \notin {"none", "cancelled"}
    BY <1>1, <2>1, <2>2 DEF Promises, ScheduleComplete, Refused, Unpayable
  <2>4. Mine(t)
    BY <1>1, <2>1, <2>2, <2>3
    DEF LockedReadsAreCurrent, LocksHeld, ReadsAreCurrent, HoldsLocks
  <2>5. Elsewhere(t)
    BY <1>1, <1>8, TxnAssumption DEF LockCommission, Goto, ServiceTypeOK
  <2> HIDE DEF Mine, Elsewhere
  <2> QED BY <1>2, <2>4, <2>5
<1>9. ASSUME NEW t \in Txn, NEW j \in Installment, LockSibling(t, j)
      PROVE  LockedReadsAreCurrent' /\ LocksHeld'
  <2>1. /\ pc[t] = "siblings" /\ pc' = pc /\ op' = op /\ target' = target
        /\ Present(inst[j]) /\ rowLock[j] = NoTxn /\ commLock' = commLock
        /\ seenStatus' = seenStatus /\ inst' = inst /\ commission' = commission
    BY <1>1, <1>9 DEF LockSibling, Unlocked, bookVars
  <2>2. /\ rowLock'[j] = t /\ seenRow'[t][j] = inst[j]
        /\ \A i \in Installment \ {j} :
              rowLock'[i] = rowLock[i] /\ seenRow'[t][i] = seenRow[t][i]
    BY <1>1, <1>9 DEF LockSibling, ServiceTypeOK
  <2>3. target[t] \in Installment
    BY <1>1 DEF ServiceTypeOK
  <2>4. Mine(t)
    BY <1>1, <2>1, <2>2, <2>3, TxnAssumption
    DEF LockedReadsAreCurrent, LocksHeld, ReadsAreCurrent, HoldsLocks
  <2>5. Elsewhere(t)
    BY <1>1, <1>9, TxnAssumption DEF LockSibling, ServiceTypeOK
  <2> HIDE DEF Mine, Elsewhere
  <2> QED BY <1>2, <2>4, <2>5
<1>10. ASSUME NEW t \in Txn, CheckSiblings(t), ~RollBack(t)
       PROVE  LockedReadsAreCurrent' /\ LocksHeld'
  <2>1. /\ pc[t] = "siblings" /\ pc'[t] = "commit" /\ op' = op /\ target' = target
        /\ Unlocked(t) = {} /\ Unlocked(t)' = {} /\ commLock' = commLock /\ rowLock' = rowLock
        /\ seenRow' = seenRow /\ seenStatus' = seenStatus
        /\ inst' = inst /\ commission' = commission
    BY <1>1, <1>10 DEF CheckSiblings, Goto, ServiceTypeOK, Unlocked, bookVars, lockVars
  <2>2. op[t] = "mark_commission_paid" =>
           \A i \in Installment : Present(inst[i]) => ~Unpayable(inst[i], commission)
    <3> SUFFICES ASSUME op[t] = "mark_commission_paid",
                        NEW i \in Installment, Present(inst[i])
                 PROVE  ~Unpayable(inst[i], commission)
      OBVIOUS
    <3>1. rowLock[i] = t
      BY <2>1 DEF Unlocked
    <3>2. Present(seenRow[t][i]) /\ seenRow[t][i] = inst[i] /\ seenStatus[t] = commission
      BY <1>1, <2>1, <3>1
      DEF LockedReadsAreCurrent, LocksHeld, ReadsAreCurrent, HoldsLocks
    <3> QED BY <1>10, <3>2 DEF CheckSiblings
  <2>3. Mine(t)
    BY <1>1, <2>1, <2>2 DEF LockedReadsAreCurrent, LocksHeld, ReadsAreCurrent, HoldsLocks
  <2>4. Elsewhere(t)
    BY <1>1, <1>10 DEF CheckSiblings, Goto, ServiceTypeOK, lockVars
  <2> HIDE DEF Mine, Elsewhere
  <2> QED BY <1>2, <2>3, <2>4
<1>11. ASSUME NEW j \in Installment, BillingUpdate(j)
       PROVE  LockedReadsAreCurrent' /\ LocksHeld'
  <2> SUFFICES ASSUME NEW u \in Txn PROVE ReadsAreCurrent(u)' /\ HoldsLocks(u)'
    BY DEF LockedReadsAreCurrent, LocksHeld
  <2>1. /\ rowLock[j] = NoTxn /\ Present(inst[j]) /\ Present(inst'[j])
        /\ inst'[j] = [status |-> "scheduled", known |-> TRUE]
        /\ \A i \in Installment \ {j} : inst'[i] = inst[i]
        /\ commission' = commission /\ pc' = pc /\ op' = op /\ target' = target
        /\ seenRow' = seenRow /\ seenStatus' = seenStatus
        /\ commLock' = commLock /\ rowLock' = rowLock
    BY <1>1, <1>11
    DEF BillingUpdate, BillingDataKnown, txVars, lockVars, ServiceTypeOK, TypeOK, Present
  <2>2. ReadsAreCurrent(u) /\ HoldsLocks(u) /\ target[u] \in Installment
    BY <1>1 DEF LockedReadsAreCurrent, LocksHeld, ServiceTypeOK
  <2>3. rowLock[j] # u /\ ~Present(seenRow[u][j])
    BY <2>1, <2>2, TxnAssumption DEF HoldsLocks, Present, Absent
  <2>4. ReadsAreCurrent(u)'
    BY <2>1, <2>2, <2>3 DEF ReadsAreCurrent
  <2>5. Unlocked(u)' = Unlocked(u)
    BY <2>1 DEF Unlocked
  <2>6. HoldsLocks(u)'
    BY <2>1, <2>2, <2>3, <2>5 DEF HoldsLocks, Unpayable
  <2> QED BY <2>4, <2>6
<1>12. ASSUME Crash PROVE LockedReadsAreCurrent' /\ LocksHeld'
  BY <1>12, TxnAssumption
  DEF Crash, Unread, LockedReadsAreCurrent, LocksHeld, ReadsAreCurrent, HoldsLocks, Present, Absent
<1>13. ASSUME UNCHANGED vars PROVE LockedReadsAreCurrent' /\ LocksHeld'
  BY <1>1, <1>13, OthersKeepLocks
  DEF LockedReadsAreCurrent, LocksHeld, vars, txVars, lockVars
<1>14. ASSUME NEW t \in Txn, RollBack(t) PROVE LockedReadsAreCurrent' /\ LocksHeld'
  BY <1>14, RollBackLocks
<1>15. ASSUME NEW t \in Txn, Commit(t) PROVE LockedReadsAreCurrent' /\ LocksHeld'
  BY <1>15, CommitLocks
<1>16. ASSUME NEW t \in Txn, DeadlockVictim(t) PROVE LockedReadsAreCurrent' /\ LocksHeld'
  BY <1>14, <1>16 DEF DeadlockVictim
<1> QED
  BY <1>3, <1>4, <1>5, <1>6, <1>7, <1>8, <1>9, <1>10, <1>11, <1>12, <1>13, <1>14,
     <1>15, <1>16
  DEF ServiceNext, Advance

-----------------------------------------------------------------------------
(* The theorems.                                                            *)

\* The inductive invariant of the service.
LEMMA Inductive == ServiceSpec => []IInv
<1>1. ServiceInit => IInv
  <2> SUFFICES ASSUME ServiceInit PROVE IInv
    OBVIOUS
  <2>1. ServiceTypeOK
    BY NoTargetType, RowTypes
    DEF ServiceInit, Init, ServiceTypeOK, TypeOK, Op, Step, CommissionStatus, Unread
  <2>2. Promises
    BY BookInit DEF ServiceInit
  <2>3. LockedReadsAreCurrent /\ LocksHeld
    BY TxnAssumption
    DEF ServiceInit, Unread, LockedReadsAreCurrent, ReadsAreCurrent, LocksHeld, HoldsLocks,
        Present, Absent
  <2> QED BY <2>1, <2>2, <2>3 DEF IInv
<1>2. IInv /\ [ServiceNext]_vars => IInv'
  <2> SUFFICES ASSUME IInv, [ServiceNext]_vars PROVE IInv'
    OBVIOUS
  <2>1. ServiceTypeOK'
    BY TypeStep DEF IInv
  <2>2. Promises'
    BY RefinementStep, BookPromisesStep DEF IInv, ServiceTypeOK
  <2> QED BY <2>1, <2>2, LocksStep DEF IInv
<1> QED BY <1>1, <1>2, PTL DEF ServiceSpec

\* However the requests interleave and crash, the schedule is complete, the parent commission is closed
\* exactly with its last installment, a cancelled one leaves nothing payable,
\* and every paid_at is written at most once.
THEOREM PromisesKept == ServiceSpec => []Promises
<1>1. IInv => Promises
  BY DEF IInv
<1> QED BY <1>1, Inductive, PTL

\* No transaction overwrites a row that changed after it read it.
THEOREM NoStaleWrite == ServiceSpec => []LockedReadsAreCurrent
<1>1. IInv => LockedReadsAreCurrent
  BY DEF IInv
<1> QED BY <1>1, Inductive, PTL

\* The locking transactions implement the one-step ledger.
THEOREM ServiceImplementsBook == ServiceSpec => ImplementsBook
<1>1. ServiceInit => Book!Init
  BY DEF ServiceInit, Init, Book!Init, Absent, Book!Absent
<1>2. IInv /\ [ServiceNext]_vars => [Book!Next]_<<commission, inst, closedAt, paidAt>>
  <2>1. Next => Book!Next
    BY DEF Next, Create, BillingDataKnown, PayInstallment, PayCommission, Cancel,
           AllPaid, Present, Settled, Unpayable, PaidRow, CancelledRow, Stamped,
           Book!Next, Book!Create, Book!BillingDataKnown, Book!PayInstallment,
           Book!PayCommission, Book!Cancel, Book!AllPaid, Book!Present, Book!Settled,
           Book!Unpayable, Book!PaidRow, Book!CancelledRow, Book!Stamped
  <2> QED BY <2>1, RefinementStep DEF bookVars
<1> QED BY <1>1, <1>2, Inductive, PTL DEF ServiceSpec, ImplementsBook, Book!Spec, Book!bookVars

\* A paid installment stays paid, a cancelled one and a cancelled commission
\* stay cancelled.
THEOREM SettledStays == ServiceSpec => SettledIsFinal
<1>1. IInv /\ [ServiceNext]_vars =>
         [/\ \A i \in Installment : Settled(inst[i]) => inst'[i] = inst[i]
          /\ commission = "cancelled" => commission' = "cancelled"]_vars
  <2> SUFFICES ASSUME IInv, [ServiceNext]_vars
               PROVE  /\ \A i \in Installment : Settled(inst[i]) => inst'[i] = inst[i]
                      /\ commission = "cancelled" => commission' = "cancelled"
    OBVIOUS
  <2>1. [Next]_bookVars
    BY RefinementStep
  <2>2. inst \in [Installment -> Row] /\ Promises
    BY DEF IInv, ServiceTypeOK, TypeOK
  <2>3. CASE Create
    BY <2>2, <2>3 DEF Create, Promises, ScheduleComplete, Settled, Present
  <2>4. ASSUME NEW i \in Installment, BillingDataKnown(i) \/ PayInstallment(i)
        PROVE  /\ \A j \in Installment : Settled(inst[j]) => inst'[j] = inst[j]
               /\ commission = "cancelled" => commission' = "cancelled"
    BY <2>2, <2>4 DEF BillingDataKnown, PayInstallment, Settled
  <2>5. CASE PayCommission
    BY <2>2, <2>5 DEF PayCommission, PaidRow
  <2>6. CASE Cancel
    BY <2>2, <2>6 DEF Cancel, CancelledRow, Promises, CancelledWhole, Present, Settled
  <2>7. CASE UNCHANGED bookVars
    BY <2>7 DEF bookVars
  <2> QED BY <2>1, <2>3, <2>4, <2>5, <2>6, <2>7 DEF Next
<1> QED BY <1>1, Inductive, PTL DEF ServiceSpec, SettledIsFinal

\* A commission appears only together with its whole payout schedule.
THEOREM NoHalfCommission == ServiceSpec => CreatedWithSchedule
<1>1. IInv /\ [ServiceNext]_vars =>
         [commission = "none" /\ commission' # "none" => inst' = Built]_vars
  <2> SUFFICES ASSUME IInv, [ServiceNext]_vars, commission = "none", commission' # "none"
               PROVE  inst' = Built
    OBVIOUS
  <2>1. [Next]_bookVars
    BY RefinementStep
  <2> QED
    BY <2>1
    DEF Next, Create, BillingDataKnown, PayInstallment, PayCommission, Cancel, bookVars
<1> QED BY <1>1, Inductive, PTL DEF ServiceSpec, CreatedWithSchedule

-----------------------------------------------------------------------------
(* The takeoff tab                                                           *)

Blue == {"turfAreaAcres", "curbMiles"}
Held == Numbers \cup {None}
Bodies == {<<>>} \cup UNION {[{f} -> Held] : f \in Blue}
UploadAt == {"presigning", "uploading", "confirming", "confirmed", "ended"}

\* A scan that is shown as persisted, or is about to be, is on file.
ScanInv ==
  /\ onFile \in Seq(Scans) /\ uploads \in Seq([file : Scans, at : UploadAt])
  /\ scan \in [file : Scans \cup {None}, persisted : BOOLEAN]
  /\ load \in Scans \cup {"asked", None}
  /\ scan.persisted => scan.file \in Tab!Numbered
  /\ load \notin {"asked", None} => load \in Tab!Numbered
  /\ \A u \in DOMAIN uploads : uploads[u].at = "confirmed" => uploads[u].file \in Tab!Numbered

TabTypeOK ==
  /\ estimate \in Tab!Copy /\ openEstimate \in Tab!Copy
  /\ draft \in [Blue -> Held \cup {Negative}]
  /\ touched \in [Blue -> Nat] /\ mishaps \in Nat
  /\ patches \in [1..2 -> [at : {"idle", "sent", "executed"}, handOff : BOOLEAN, body : Bodies,
                           answer : Tab!Copy \cup {None}]]
  /\ \A s \in 1..2 : patches[s].handOff => patches[s].body = <<>>

Carries(s, f) == f \in DOMAIN patches[s].body
\* Nobody has written the cell, and nobody is about to.
Untouched(f) ==
  /\ estimate.meta[f] = None /\ openEstimate.meta[f] = None
  /\ \A s \in 1..2 : ~Carries(s, f) /\ (patches[s].answer # None => patches[s].answer.meta[f] = None)
\* What the estimator put into the cell is stored, or on its way, and nothing else is.
OnItsWay(f, v) ==
  /\ \A s \in 1..2 : Carries(s, f) => patches[s].body[f] = v
  /\ estimate.meta[f] = v \/ \E s \in 1..2 : patches[s].at = "sent" /\ Carries(s, f)

CellInv ==
  TabTypeOK /\ (mishaps = 0 => \A f \in Blue :
    /\ touched[f] = 0 => draft[f] = None
    /\ touched[f] = 0 \/ (touched[f] = 1 /\ draft[f] = Negative) => Untouched(f)
    /\ touched[f] = 1 /\ draft[f] # Negative => OnItsWay(f, draft[f]))

Newest == Len(requests)
Shown == [id : Nat, remote : BOOLEAN, submitted : BOOLEAN]
Takeoff == [remote : BOOLEAN, submitted : BOOLEAN, billed : 0..2, cut : BOOLEAN]
Job == [kind : {"draft", "order"}, request : Nat, at : {"begin", "asking", "mark", "answered", "failed"}]
Panel == [shows : Shown, creating : Nat, ordering : Nat]

PanelTypeOK ==
  /\ requests \in Seq(Takeoff) /\ jobs \in Seq(Job) /\ panel \in [{window} -> Panel] /\ late \in BOOLEAN
  /\ panel[window].shows.remote => panel[window].shows.id \in DOMAIN requests
  /\ \A k \in DOMAIN jobs : jobs[k].kind = "order" \/ jobs[k].at \notin {"begin", "failed"} =>
        jobs[k].request \in DOMAIN requests

\* What the window offers to order is the newest request, and what was ordered stays offered.
OneShown ==
  LET shows == panel[window].shows IN
  ~late =>
    /\ shows.remote => Newest # 0 /\ shows.id = Newest /\ requests[Newest].remote
    /\ \A k \in DOMAIN jobs : jobs[k].kind = "order" => shows.remote /\ jobs[k].request = Newest
    /\ \A r \in DOMAIN requests : requests[r].billed > 0 => shows.remote /\ r = Newest

\* Order k of request r is between its guard and its mark.
Busy(k, r) == jobs[k].kind = "order" /\ jobs[k].request = r /\ jobs[k].at \in {"asking", "mark"}

\* A request whose orders neither crossed nor broke off is paid by the one that is about
\* to say so, or has.
PaidAs(r) ==
  ~requests[r].cut =>
    /\ requests[r].billed < 2
    /\ \A k \in DOMAIN jobs : Busy(k, r) =>
          ~requests[r].submitted /\ (jobs[k].at = "asking" => requests[r].billed = 0)
    /\ \A j, k \in DOMAIN jobs : Busy(j, r) /\ Busy(k, r) => j = k
    /\ requests[r].billed > 0 => requests[r].submitted \/ \E k \in DOMAIN jobs : Busy(k, r) /\ jobs[k].at = "mark"

PaidInv == PanelTypeOK /\ OneShown /\ \A r \in DOMAIN requests : PaidAs(r)

-----------------------------------------------------------------------------
(* The discrepancy review and the materials calculator                       *)

Cells == {"planQty", "addPct", "measuredQty"}
CellValues == Amounts \cup Percents \cup {0, Review!NewLine.planQty}

\* A cell that was typed into once is stored as typed, or its PATCH is under way.
KeyInv ==
  /\ tableStored \in [Lines -> [Cells -> CellValues]] /\ tableLines \in [Lines -> [Cells -> CellValues]]
  /\ typed \in [Lines -> [Cells -> Nat]] /\ keys \in Nat /\ failures \in Nat
  /\ sent \subseteq [line : Lines, body : UNION {[{c} -> CellValues] : c \in Cells}, key : Nat]
  /\ failures = 0 => \A l \in Lines, c \in Cells :
       LET pending == {p \in sent : p.line = l /\ c \in DOMAIN p.body} IN
       /\ typed[l][c] = 0 => pending = {} /\ tableStored[l][c] = tableLines[l][c]
       /\ typed[l][c] = 1 => /\ \A p \in pending : p.body[c] = tableLines[l][c]
                             /\ pending # {} \/ tableStored[l][c] = tableLines[l][c]

Card == [measure : Measures \cup {0}, depth : Depths \cup {None}, addPct : Percents \cup {0}]
IsOffered(r, e) == r.compute = "aggregate" /\ e.depth # None => e.depth \in DOMAIN r.table
CardInv ==
  /\ rows \in {BuiltIn, Configured}
  /\ inputs \in [DOMAIN inputs -> Card]
  /\ \A m \in DOMAIN inputs \cap DOMAIN rows : IsOffered(rows[m], inputs[m])
  /\ rows # Configured => \A m \in DOMAIN inputs : inputs[m].depth # None => m \in DOMAIN BuiltIn

EntryInv == ScanInv /\ CellInv /\ PaidInv /\ KeyInv

-----------------------------------------------------------------------------
(* The scan *)

LEMMA TabValues ==
  /\ None \notin Numbers /\ Negative \notin Held /\ Blue = Tab!Field /\ Held = Tab!CellValue
BY MoneyAssumption DEF Tab!TabAssumption, Blue, Held, Tab!Field, Tab!CellValue

LEMMA MoreOnFile ==
  ASSUME onFile \in Seq(Scans), NEW f \in Scans, onFile' = Append(onFile, f)
  PROVE  /\ onFile' \in Seq(Scans) /\ f \in Tab!Numbered'
         /\ \A g \in Tab!Numbered : g \in Tab!Numbered'
<1>1. /\ Len(onFile') = Len(onFile) + 1 /\ onFile'[Len(onFile) + 1] = f
      /\ \A i \in 1..Len(onFile) : onFile'[i] = onFile[i]
  OBVIOUS
<1>2. onFile' \in Seq(Scans) OBVIOUS
<1>3. DOMAIN onFile = 1..Len(onFile) /\ DOMAIN onFile' = 1..(Len(onFile) + 1) /\ Len(onFile) \in Nat
  BY <1>1, <1>2
<1> QED BY <1>1, <1>2, <1>3 DEF Tab!Numbered

Uploads == Seq([file : Scans, at : UploadAt])

LEMMA UploadMoves ==
  ASSUME uploads \in Uploads, NEW u \in DOMAIN uploads, NEW at \in UploadAt,
         uploads' = [uploads EXCEPT ![u].at = at]
  PROVE  /\ uploads' \in Uploads /\ DOMAIN uploads' = DOMAIN uploads /\ uploads[u].file \in Scans
         /\ \A v \in DOMAIN uploads : uploads'[v].file = uploads[v].file
         /\ uploads'[u].at = at /\ \A v \in DOMAIN uploads \ {u} : uploads'[v].at = uploads[v].at
<1>1. uploads[u] \in [file : Scans, at : UploadAt] /\ u \in 1..Len(uploads) BY ElementOfSeq, LenProperties DEF Uploads
<1>2. [uploads[u] EXCEPT !.at = at] \in [file : Scans, at : UploadAt] BY <1>1
<1>3. uploads' = [uploads EXCEPT ![u] = [uploads[u] EXCEPT !.at = at]] OBVIOUS
<1>4. uploads' \in Uploads BY <1>1, <1>2, <1>3, ExceptSeq DEF Uploads
<1>5. \A v \in DOMAIN uploads : uploads[v] \in [file : Scans, at : UploadAt]
  BY ElementOfSeq, LenProperties DEF Uploads
<1> QED BY <1>1, <1>3, <1>4, <1>5

LEMMA ScanSteps ==
  ASSUME ScanInv, Tab!ScanStep
  PROVE  ScanInv'
<1> USE DEF ScanInv
<1>1. CASE Tab!LoadScan
  <2>1. load' \in Scans \cup {None} /\ (load' # None => load' \in Tab!Numbered)
    <3>1. CASE onFile = <<>> BY <1>1, <3>1 DEF Tab!LoadScan
    <3>2. CASE onFile # <<>>
      <4>1. Len(onFile) \in DOMAIN onFile BY <3>2
      <4> QED BY <1>1, <3>2, <4>1 DEF Tab!LoadScan, Tab!Numbered
    <3> QED BY <3>1, <3>2
  <2> QED BY <1>1, <2>1 DEF Tab!LoadScan, Tab!Numbered
<1>2. CASE Tab!LoadAnswered
  BY <1>2 DEF Tab!LoadAnswered, Tab!Numbered, Tab!NoScan
<1>3. ASSUME NEW f \in Scans, Tab!ChooseScan(f) PROVE ScanInv'
  <2> DEFINE new == [file |-> f, at |-> "presigning"]
  <2>1. /\ scan' = [file |-> f, persisted |-> FALSE] /\ UNCHANGED <<onFile, load>>
        /\ uploads' = Append(uploads, new)
    BY <1>3 DEF Tab!ChooseScan
  <2>2. new \in [file : Scans, at : UploadAt] BY DEF UploadAt
  <2>3. /\ uploads' \in Uploads /\ DOMAIN uploads' = 1..(Len(uploads) + 1) /\ Len(uploads) \in Nat
        /\ DOMAIN uploads = 1..Len(uploads)
        /\ uploads'[Len(uploads) + 1] = new /\ \A u \in DOMAIN uploads : uploads'[u] = uploads[u]
    <3> HIDE DEF new
    <3>1. Append(uploads, new) \in Seq([file : Scans, at : UploadAt]) /\ Len(Append(uploads, new)) = Len(uploads) + 1
      BY <2>2, AppendProperties
    <3>2. \A u \in 1..Len(uploads) : Append(uploads, new)[u] = uploads[u] BY <2>2, AppendProperties
    <3>3. Append(uploads, new)[Len(uploads) + 1] = new BY <2>2, AppendProperties
    <3> QED BY <2>1, <3>1, <3>2, <3>3 DEF Uploads
  <2>4. ASSUME NEW u \in DOMAIN uploads', uploads'[u].at = "confirmed" PROVE uploads'[u].file \in Tab!Numbered'
    <3>1. u # Len(uploads) + 1 BY <2>3, <2>4
    <3>2. u \in DOMAIN uploads /\ uploads'[u] = uploads[u] BY <2>3, <3>1
    <3> QED BY <2>1, <2>4, <3>2 DEF Tab!Numbered
  <2> HIDE DEF new
  <2> QED BY <2>1, <2>3, <2>4 DEF Tab!Numbered, Uploads
<1>4. ASSUME NEW u \in DOMAIN uploads,
             Tab!UploadGoesOn(u) \/ Tab!Confirm(u) \/ Tab!UploadEnds(u) \/ Tab!UploadFails(u)
      PROVE  ScanInv'
  <2>0. uploads \in Uploads BY DEF Uploads
  <2>1. CASE Tab!UploadGoesOn(u)
    <3>1. PICK at \in {"uploading", "confirming"} : uploads' = [uploads EXCEPT ![u].at = at]
      BY <2>1 DEF Tab!UploadGoesOn
    <3>2. UNCHANGED <<onFile, scan, load>> BY <2>1 DEF Tab!UploadGoesOn
    <3>9. \A v \in DOMAIN uploads' : uploads'[v].at = "confirmed" => uploads'[v].file \in Tab!Numbered'
      BY <2>0, <3>1, <3>2, UploadMoves DEF UploadAt, Tab!Numbered
    <3>8. uploads' \in Uploads BY <2>0, <3>1, UploadMoves DEF UploadAt
    <3> QED BY <3>1, <3>2, <3>8, <3>9 DEF Uploads, Tab!Numbered
  <2>2. CASE Tab!Confirm(u)
    <3>1. onFile' = Append(onFile, uploads[u].file) /\ UNCHANGED <<scan, load>>
          /\ uploads' = [uploads EXCEPT ![u].at = "confirmed"]
      BY <2>2 DEF Tab!Confirm
    <3>2. uploads[u].file \in Scans BY <2>0, <3>1, UploadMoves DEF UploadAt
    <3>3. /\ onFile' \in Seq(Scans) /\ uploads[u].file \in Tab!Numbered'
          /\ \A g \in Tab!Numbered : g \in Tab!Numbered'
      BY <3>1, <3>2, MoreOnFile
    <3>4. \A v \in DOMAIN uploads' : uploads'[v].at = "confirmed" => uploads'[v].file \in Tab!Numbered'
      BY <2>0, <3>1, <3>3, UploadMoves DEF UploadAt
    <3> QED BY <2>0, <3>1, <3>3, <3>4, UploadMoves DEF Uploads, UploadAt
  <2>3. CASE Tab!UploadEnds(u)
    <3>1. /\ uploads' = [uploads EXCEPT ![u].at = "ended"] /\ UNCHANGED <<onFile, load>>
          /\ scan' = Tab!Saved(uploads[u].file) /\ uploads[u].file \in Tab!Numbered
      BY <2>3 DEF Tab!UploadEnds
    <3>2. /\ scan' \in [file : Scans \cup {None}, persisted : BOOLEAN]
          /\ scan'.persisted => scan'.file \in Tab!Numbered
      BY <3>1 DEF Tab!Saved
    <3>9. \A v \in DOMAIN uploads' : uploads'[v].at = "confirmed" => uploads'[v].file \in Tab!Numbered'
      BY <2>0, <3>1, <3>2, UploadMoves DEF UploadAt, Tab!Numbered
    <3>8. uploads' \in Uploads BY <2>0, <3>1, UploadMoves DEF UploadAt
    <3> QED BY <3>1, <3>2, <3>8, <3>9 DEF Uploads, Tab!Numbered
  <2>4. CASE Tab!UploadFails(u)
    <3>1. uploads' = [uploads EXCEPT ![u].at = "ended"] /\ UNCHANGED <<onFile, scan, load>>
      BY <2>4 DEF Tab!UploadFails
    <3>9. \A v \in DOMAIN uploads' : uploads'[v].at = "confirmed" => uploads'[v].file \in Tab!Numbered'
      BY <2>0, <3>1, UploadMoves DEF UploadAt, Tab!Numbered
    <3>8. uploads' \in Uploads BY <2>0, <3>1, UploadMoves DEF UploadAt
    <3> QED BY <3>1, <3>8, <3>9 DEF Uploads, Tab!Numbered
  <2> QED BY <1>4, <2>1, <2>2, <2>3, <2>4
<1> QED BY <1>1, <1>2, <1>3, <1>4 DEF Tab!ScanStep

LEMMA ScanStays ==
  ASSUME ScanInv, UNCHANGED Tab!scanVars
  PROVE  ScanInv'
BY DEF ScanInv, Tab!scanVars, Tab!Numbered

LEMMA SavedIsOnFile ==
  ASSUME ScanInv, None \notin {"Saved to estimate"}
  PROVE  Tab!SavedScanIsStored
BY DEF ScanInv, Tab!SavedScanIsStored, Tab!scanStatusLabel

-----------------------------------------------------------------------------
(* The cells *)

Patch == [at : {"idle", "sent", "executed"}, handOff : BOOLEAN, body : Bodies, answer : Tab!Copy \cup {None}]

LEMMA BodyType ==
  /\ \A f \in Blue, v \in Held : /\ Tab!Body(f, v) \in Bodies /\ DOMAIN Tab!Body(f, v) = {f}
                                 /\ Tab!Body(f, v)[f] = v
  /\ <<>> \in Bodies /\ DOMAIN <<>> = {}
  /\ \A b \in Bodies : DOMAIN b \subseteq Blue /\ \A f \in DOMAIN b : b[f] \in Held
<1>1. \A f \in Blue, v \in Held : Tab!Body(f, v) \in [{f} -> Held] BY DEF Tab!Body
<1>2. DOMAIN <<>> = {} OBVIOUS
<1>3. ASSUME NEW b \in Bodies PROVE DOMAIN b \subseteq Blue /\ \A f \in DOMAIN b : b[f] \in Held
  <2>1. CASE b = <<>> BY <1>2, <2>1
  <2>2. ASSUME NEW f \in Blue, b \in [{f} -> Held] PROVE DOMAIN b \subseteq Blue /\ \A g \in DOMAIN b : b[g] \in Held
    BY <2>2
  <2> QED BY <2>1, <2>2 DEF Bodies
<1>4. ASSUME NEW f \in Blue, NEW v \in Held
      PROVE  Tab!Body(f, v) \in Bodies /\ DOMAIN Tab!Body(f, v) = {f} /\ Tab!Body(f, v)[f] = v
  <2>1. DOMAIN Tab!Body(f, v) = {f} /\ Tab!Body(f, v)[f] = v BY DEF Tab!Body
  <2> QED BY <1>1, <2>1 DEF Bodies
<1> QED BY <1>2, <1>3, <1>4 DEF Bodies

LEMMA CellTypes ==
  ASSUME TabTypeOK, Tab!PatchStep
  PROVE  TabTypeOK'
<1> USE DEF TabTypeOK
<1>0. Tab!NoPatch \in Patch /\ ~Tab!NoPatch.handOff /\ Tab!NoPatch.body = <<>>
  BY BodyType DEF Tab!NoPatch, Patch
<1>1. ASSUME NEW s \in 1..2, NEW f \in Tab!Field, NEW v \in Tab!CellValue \cup {Negative}, Tab!LeaveCell(s, f, v)
      PROVE  TabTypeOK'
  <2>1. f \in Blue /\ v \in Held \cup {Negative} BY TabValues
  <2>2. UNCHANGED <<estimate, openEstimate, mishaps>> BY <1>1 DEF Tab!LeaveCell
  <2>3. draft' \in [Blue -> Held \cup {Negative}] /\ touched' \in [Blue -> Nat]
    BY <1>1, <2>1 DEF Tab!LeaveCell
  <2>4. patches' \in [1..2 -> Patch] /\ \A t \in 1..2 : patches'[t].handOff => patches'[t].body = <<>>
    <3>1. CASE UNCHANGED patches BY <3>1 DEF Patch
    <3>2. CASE v # Negative /\ Tab!Send(s, FALSE, Tab!Body(f, v))
      <4>1. [at |-> "sent", handOff |-> FALSE, body |-> Tab!Body(f, v), answer |-> None] \in Patch
        BY <2>1, <3>2, BodyType DEF Patch
      <4> QED BY <3>2, <4>1 DEF Tab!Send, Patch
    <3> QED BY <1>1, <3>1, <3>2 DEF Tab!LeaveCell
  <2> QED BY <2>2, <2>3, <2>4 DEF Patch
<1>2. ASSUME NEW s \in 1..2, Tab!AttachHandOff(s) PROVE TabTypeOK'
  <2>1. UNCHANGED <<estimate, openEstimate, mishaps, draft, touched>>
    BY <1>2 DEF Tab!AttachHandOff, Tab!metaVars
  <2>2. [at |-> "sent", handOff |-> TRUE, body |-> <<>>, answer |-> None] \in Patch BY BodyType DEF Patch
  <2>3. patches' = [patches EXCEPT ![s] = [at |-> "sent", handOff |-> TRUE, body |-> <<>>, answer |-> None]]
    BY <1>2 DEF Tab!AttachHandOff, Tab!Send
  <2> QED BY <2>1, <2>2, <2>3 DEF Patch
<1>3. ASSUME NEW s \in 1..2, Tab!Execute(s) PROVE TabTypeOK'
  <2> DEFINE p == patches[s]
             meta == [f \in Tab!Field |-> IF f \in DOMAIN p.body THEN p.body[f] ELSE estimate.meta[f]]
             row == [meta |-> meta, status |-> IF p.handOff THEN "handed_back" ELSE estimate.status]
             answer == IF p.handOff => estimate.status = "approved" THEN row ELSE None
  <2>1. p \in Patch BY DEF Patch
  <2>2. meta \in [Tab!Field -> Tab!CellValue]
    <3>1. \A f \in DOMAIN p.body : p.body[f] \in Held BY <2>1, BodyType DEF Patch
    <3> QED BY <3>1, TabValues DEF Tab!Copy
  <2>3. row \in Tab!Copy BY <2>2 DEF Tab!Copy
  <2>4. /\ estimate' \in {row, estimate} /\ UNCHANGED <<openEstimate, mishaps, draft, touched>>
        /\ patches' = [patches EXCEPT ![s].at = "executed", ![s].answer = answer]
    BY <1>3 DEF Tab!Execute, Tab!metaVars
  <2>5. answer \in Tab!Copy \cup {None} BY <2>3
  <2> HIDE DEF row, answer, meta
  <2> QED BY <2>1, <2>3, <2>4, <2>5 DEF Patch
<1>4. ASSUME NEW s \in 1..2, Tab!Answered(s) PROVE TabTypeOK'
  <2>1. patches[s].answer \in Tab!Copy \cup {None} OBVIOUS
  <2>2. openEstimate' \in Tab!Copy BY <1>4, <2>1 DEF Tab!Answered
  <2>3. /\ patches' = [patches EXCEPT ![s] = Tab!NoPatch]
        /\ UNCHANGED <<estimate, mishaps, draft, touched>>
    BY <1>4 DEF Tab!Answered, Tab!metaVars
  <2> QED BY <1>0, <2>2, <2>3 DEF Patch
<1>5. ASSUME NEW s \in 1..2, Tab!PatchFails(s) PROVE TabTypeOK'
  <2>1. /\ patches' = [patches EXCEPT ![s] = Tab!NoPatch] /\ mishaps' = mishaps + 1
        /\ UNCHANGED <<estimate, openEstimate, draft, touched>>
    BY <1>5 DEF Tab!PatchFails, Tab!metaVars, Tab!Mishap
  <2> QED BY <1>0, <2>1 DEF Patch
<1> QED BY <1>1, <1>2, <1>3, <1>4, <1>5 DEF Tab!PatchStep

\* What is known of a cell.
CellKnown(f) ==
  /\ touched[f] = 0 => draft[f] = None
  /\ touched[f] = 0 \/ (touched[f] = 1 /\ draft[f] = Negative) => Untouched(f)
  /\ touched[f] = 1 /\ draft[f] # Negative => OnItsWay(f, draft[f])

LEMMA CellSteps ==
  ASSUME CellInv, Tab!PatchStep
  PROVE  CellInv'
<1>1. TabTypeOK /\ TabTypeOK' BY CellTypes DEF CellInv
<1> SUFFICES ASSUME mishaps' = 0, NEW f \in Blue PROVE CellKnown(f)'
  BY <1>1 DEF CellInv, CellKnown
<1>2. mishaps \in Nat /\ mishaps' \in Nat BY <1>1 DEF TabTypeOK
<1>3. ASSUME mishaps = 0 PROVE CellKnown(f) BY <1>3 DEF CellInv, CellKnown
<1>4. Tab!NoPatch.body = <<>> /\ Tab!NoPatch.answer = None /\ Tab!NoPatch.at = "idle" /\ DOMAIN <<>> = {}
  BY BodyType DEF Tab!NoPatch
<1>5. \A s \in 1..2 : patches[s] \in Patch BY <1>1 DEF TabTypeOK, Patch
<1>6. ASSUME NEW s \in 1..2, NEW g \in Blue, NEW v \in Held \cup {Negative}, Tab!LeaveCell(s, g, v)
      PROVE  CellKnown(f)'
  <2>1. UNCHANGED <<estimate, openEstimate, mishaps>> BY <1>6 DEF Tab!LeaveCell
  <2>2. CellKnown(f) BY <1>3, <2>1
  <2>3. /\ draft' = [draft EXCEPT ![g] = v]
        /\ touched' = [touched EXCEPT ![g] = @ + (IF v = draft[g] THEN 0 ELSE 1)]
        /\ \/ (v = Negative \/ v = openEstimate.meta[g]) /\ UNCHANGED patches /\ v # draft[g]
           \/ /\ v # Negative /\ v # openEstimate.meta[g] /\ Tab!Idle(s)
              /\ patches' = [patches EXCEPT ![s] = [at |-> "sent", handOff |-> FALSE, body |-> Tab!Body(g, v), answer |-> None]]
    BY <1>6 DEF Tab!LeaveCell, Tab!Send
  <2>4. touched[f] \in Nat /\ touched[g] \in Nat /\ touched \in [Blue -> Nat] /\ draft \in [Blue -> Held \cup {Negative}]
        /\ patches \in [1..2 -> Patch]
    BY <1>1 DEF TabTypeOK, Patch
  <2>5. CASE f # g
    <3>1. touched'[f] = touched[f] /\ draft'[f] = draft[f] BY <2>3, <2>4, <2>5
    <3>2. CASE UNCHANGED patches BY <2>1, <2>2, <3>1, <3>2 DEF CellKnown, Untouched, OnItsWay, Carries
    <3>3. CASE v \in Held /\ Tab!Idle(s)
               /\ patches' = [patches EXCEPT ![s] = [at |-> "sent", handOff |-> FALSE, body |-> Tab!Body(g, v), answer |-> None]]
      <4>0. patches'[s].answer = None /\ patches'[s].body = Tab!Body(g, v) BY <2>4, <3>3
      <4>1. patches'[s].answer = None /\ ~Carries(s, f)'
        <5>1. DOMAIN Tab!Body(g, v) = {g} BY <3>3, BodyType
        <5>2. f \notin DOMAIN patches'[s].body BY <2>5, <4>0, <5>1
        <5> QED BY <4>0, <5>2 DEF Carries
      <4>2. \A t \in 1..2 \ {s} : patches'[t] = patches[t] BY <2>4, <3>3
      <4>3. patches[s].at # "sent" BY <3>3 DEF Tab!Idle
      <4> QED BY <2>1, <2>2, <3>1, <4>1, <4>2, <4>3 DEF CellKnown, Untouched, OnItsWay, Carries
    <3> QED BY <2>3, <3>2, <3>3
  <2>6. CASE f = g
    <3>1. draft'[f] = v /\ touched'[f] = touched[f] + (IF v = draft[f] THEN 0 ELSE 1) BY <2>3, <2>4, <2>6
    <3>2. CASE (v = Negative \/ v = openEstimate.meta[g]) /\ UNCHANGED patches /\ v # draft[g]
      <4>1. touched'[f] = touched[f] + 1 /\ touched'[f] # 0 BY <2>4, <2>6, <3>1, <3>2
      <4>2. CASE touched'[f] = 1
        <5>1. touched[f] = 0 BY <2>4, <4>1, <4>2
        <5>2. draft[f] = None /\ Untouched(f) BY <2>2, <5>1 DEF CellKnown
        <5>3. v = Negative BY <2>6, <3>2, <5>2 DEF Untouched
        <5>4. Untouched(f)' BY <2>1, <3>2, <5>2 DEF Untouched, Carries
        <5> QED BY <3>1, <4>1, <5>3, <5>4 DEF CellKnown
      <4>3. CASE touched'[f] # 1 BY <4>1, <4>3 DEF CellKnown
      <4> QED BY <4>2, <4>3
    <3>3. CASE v # Negative /\ v # openEstimate.meta[g] /\ Tab!Idle(s)
               /\ patches' = [patches EXCEPT ![s] = [at |-> "sent", handOff |-> FALSE, body |-> Tab!Body(g, v), answer |-> None]]
      <4>1. patches'[s].at = "sent" /\ Carries(s, f)' /\ patches'[s].body[f] = v
        BY <2>4, <2>6, <3>3, BodyType DEF Carries
      <4>2. \A t \in 1..2 \ {s} : patches'[t] = patches[t] BY <2>4, <3>3
      <4>3. touched'[f] # 0
        <5>1. CASE v = draft[f]
          <6>1. touched[f] # 0 BY <2>2, <2>6, <3>3, <5>1 DEF CellKnown, Untouched
          <6> QED BY <2>4, <3>1, <5>1, <6>1
        <5>2. CASE v # draft[f] BY <2>4, <3>1, <5>2
        <5> QED BY <5>1, <5>2
      <4>4. ASSUME touched'[f] = 1 PROVE \A t \in 1..2 : Carries(t, f) => patches[t].body[f] = v
        <5>1. CASE v = draft[f]
          <6>1. touched[f] = 1 BY <2>4, <3>1, <4>4, <5>1
          <6> QED BY <2>2, <3>3, <5>1, <6>1 DEF CellKnown, OnItsWay
        <5>2. CASE v # draft[f]
          <6>1. touched[f] = 0 BY <2>4, <3>1, <4>4, <5>2
          <6> QED BY <2>2, <6>1 DEF CellKnown, Untouched
        <5> QED BY <5>1, <5>2
      <4>5. touched'[f] = 1 => OnItsWay(f, v)' BY <4>1, <4>2, <4>4 DEF OnItsWay, Carries
      <4> QED BY <3>1, <3>3, <4>3, <4>5 DEF CellKnown, OnItsWay, Carries
    <3> QED BY <2>3, <3>2, <3>3
  <2> QED BY <2>5, <2>6
<1>7. ASSUME NEW s \in 1..2, Tab!AttachHandOff(s) PROVE CellKnown(f)'
  <2>1. UNCHANGED <<estimate, openEstimate, mishaps, draft, touched>> /\ Tab!Idle(s)
    BY <1>7 DEF Tab!AttachHandOff, Tab!Send, Tab!metaVars
  <2>2. patches' = [patches EXCEPT ![s] = [at |-> "sent", handOff |-> TRUE, body |-> <<>>, answer |-> None]]
    BY <1>7 DEF Tab!AttachHandOff, Tab!Send
  <2>3. patches'[s].answer = None /\ ~Carries(s, f)' /\ \A t \in 1..2 \ {s} : patches'[t] = patches[t]
    BY <1>1, <1>4, <2>2 DEF Carries, TabTypeOK
  <2>4. CellKnown(f) /\ patches[s].at # "sent" BY <1>3, <2>1 DEF Tab!Idle
  <2> QED BY <2>1, <2>3, <2>4 DEF CellKnown, Untouched, OnItsWay, Carries
<1>8. ASSUME NEW s \in 1..2, Tab!Execute(s) PROVE CellKnown(f)'
  <2> DEFINE p == patches[s]
             meta == [g \in Tab!Field |-> IF g \in DOMAIN p.body THEN p.body[g] ELSE estimate.meta[g]]
             row == [meta |-> meta, status |-> IF p.handOff THEN "handed_back" ELSE estimate.status]
             legal == p.handOff => estimate.status = "approved"
  <2>1. /\ UNCHANGED <<openEstimate, mishaps, draft, touched>> /\ p.at = "sent"
        /\ estimate' = IF legal THEN row ELSE estimate
        /\ patches' = [patches EXCEPT ![s].at = "executed", ![s].answer = IF legal THEN row ELSE None]
    BY <1>8 DEF Tab!Execute, Tab!metaVars
  <2>2. CellKnown(f) BY <1>3, <2>1
  <2>3. row.meta[f] = IF Carries(s, f) THEN patches[s].body[f] ELSE estimate.meta[f]
    BY TabValues DEF Carries
  <2>4. ~legal => ~Carries(s, f) BY <1>1, <1>4 DEF TabTypeOK, Carries
  <2>5. estimate'.meta[f] = IF Carries(s, f) THEN patches[s].body[f] ELSE estimate.meta[f] BY <2>1, <2>3, <2>4
  <2>6. patches'[s].answer # None => patches'[s].answer.meta[f] = estimate'.meta[f]
    <3> HIDE DEF row, legal
    <3>1. patches'[s].answer = IF legal THEN row ELSE None BY <1>1, <2>1 DEF TabTypeOK
    <3> QED BY <2>1, <3>1
  <2>7. /\ patches'[s].body = patches[s].body /\ \A t \in 1..2 \ {s} : patches'[t] = patches[t]
    BY <1>1, <2>1 DEF TabTypeOK
  <2> HIDE DEF row, legal, meta
  <2> QED BY <2>1, <2>2, <2>5, <2>6, <2>7 DEF CellKnown, Untouched, OnItsWay, Carries
<1>9. ASSUME NEW s \in 1..2, Tab!Answered(s) PROVE CellKnown(f)'
  <2>1. /\ openEstimate' = IF patches[s].answer = None THEN openEstimate ELSE patches[s].answer
        /\ patches' = [patches EXCEPT ![s] = Tab!NoPatch] /\ patches[s].at # "sent"
        /\ UNCHANGED <<estimate, mishaps, draft, touched>>
    BY <1>9 DEF Tab!Answered, Tab!metaVars
  <2>2. CellKnown(f) BY <1>3, <2>1
  <2>3. patches'[s].answer = None /\ ~Carries(s, f)' /\ \A t \in 1..2 \ {s} : patches'[t] = patches[t]
    BY <1>1, <1>4, <2>1 DEF Carries, TabTypeOK
  <2> QED BY <2>1, <2>2, <2>3 DEF CellKnown, Untouched, OnItsWay, Carries
<1>10. ASSUME NEW s \in 1..2, Tab!PatchFails(s) PROVE FALSE
  BY <1>2, <1>10 DEF Tab!PatchFails, Tab!Mishap
<1> QED BY <1>6, <1>7, <1>8, <1>9, <1>10, TabValues DEF Tab!PatchStep

LEMMA TypedIsStored ==
  ASSUME CellInv PROVE Tab!TypedOnceIsStored
<1> SUFFICES ASSUME mishaps = 0, \A s \in 1..2 : Tab!Idle(s), NEW f \in Blue, draft[f] # Negative
             PROVE  (touched[f] = 0 => estimate.meta[f] = None) /\ (touched[f] = 1 => estimate.meta[f] = draft[f])
  BY TabValues DEF Tab!TypedOnceIsStored
<1>1. \A s \in 1..2 : patches[s].at # "sent" BY DEF Tab!Idle
<1> QED BY <1>1 DEF CellInv, Untouched, OnItsWay

-----------------------------------------------------------------------------
(* The panel *)

LEMMA LatestIsNewest ==
  ASSUME requests \in Seq(Takeoff)
  PROVE  /\ Tab!Latest(requests) \in Shown
         /\ Tab!Latest(requests).remote => Newest # 0 /\ Tab!Latest(requests).id = Newest /\ requests[Newest].remote
         /\ Newest # 0 /\ requests[Newest].remote => Tab!Latest(requests).remote
<1>1. CASE requests = <<>> BY <1>1 DEF Tab!Latest, Tab!Unasked, Shown, Newest
<1>2. CASE requests # <<>>
  <2>1. Len(requests) \in Nat /\ Len(requests) # 0 /\ requests[Len(requests)] \in Takeoff
    <3>1. Len(requests) \in Nat /\ Len(requests) # 0 BY <1>2, EmptySeq, LenProperties
    <3>2. Len(requests) \in 1..Len(requests) BY <3>1
    <3> QED BY <3>1, <3>2, ElementOfSeq
  <2> QED BY <1>2, <2>1 DEF Tab!Latest, Shown, Takeoff, Newest
<1> QED BY <1>1, <1>2

LEMMA PanelTypes ==
  ASSUME PanelTypeOK
  PROVE  /\ Newest \in Nat /\ DOMAIN requests = 1..Newest /\ \A r \in DOMAIN requests : requests[r] \in Takeoff
         /\ Len(jobs) \in Nat /\ DOMAIN jobs = 1..Len(jobs) /\ \A k \in DOMAIN jobs : jobs[k] \in Job
         /\ panel[window] \in Panel /\ panel[window].shows \in Shown
BY ElementOfSeq, LenProperties DEF PanelTypeOK, Newest, Panel

LEMMA SameRow ==
  ASSUME PanelTypeOK, NEW r \in DOMAIN requests
  PROVE  requests = [requests EXCEPT ![r] = requests[r]]
BY DEF PanelTypeOK

\* One row, one job changes.
LEMMA RowChanges ==
  ASSUME PanelTypeOK, NEW r \in DOMAIN requests, NEW row \in Takeoff, requests' = [requests EXCEPT ![r] = row]
  PROVE  /\ requests' \in Seq(Takeoff) /\ DOMAIN requests' = DOMAIN requests /\ Newest' = Newest
         /\ requests'[r] = row /\ \A q \in DOMAIN requests \ {r} : requests'[q] = requests[q]
<1>1. r \in 1..Len(requests) BY PanelTypes DEF Newest
<1>2. requests' \in Seq(Takeoff) /\ Len(requests') = Len(requests) BY <1>1, ExceptSeq DEF PanelTypeOK
<1> QED BY <1>2, PanelTypes DEF Newest

LEMMA JobChanges ==
  ASSUME PanelTypeOK, NEW k \in DOMAIN jobs, NEW job \in Job, jobs' = [jobs EXCEPT ![k] = job]
  PROVE  /\ jobs' \in Seq(Job) /\ DOMAIN jobs' = DOMAIN jobs
         /\ jobs'[k] = job /\ \A j \in DOMAIN jobs \ {k} : jobs'[j] = jobs[j]
<1>1. k \in 1..Len(jobs) BY PanelTypes
<1>2. jobs' \in Seq(Job) BY <1>1, ExceptSeq DEF PanelTypeOK
<1> QED BY <1>2, PanelTypes

\* The rep clicks.
LEMMA ClickPaid ==
  ASSUME PaidInv, Tab!CreateDraft(window) \/ Tab!Order(window)
  PROVE  PaidInv'
<1> DEFINE p == panel[window]
<1>1. PanelTypeOK /\ OneShown /\ \A r \in DOMAIN requests : PaidAs(r) BY DEF PaidInv
<1>2. PICK job \in Job : /\ jobs' = Append(jobs, job) /\ job.at = "begin" /\ UNCHANGED <<requests, late>>
                         /\ panel'[window].shows = p.shows /\ panel' \in [{window} -> Panel]
                         /\ job.kind = "order" => p.shows.remote /\ job.request = p.shows.id
  <2>1. CASE Tab!CreateDraft(window)
    <3>1. /\ jobs' = Append(jobs, [kind |-> "draft", request |-> 0, at |-> "begin"]) /\ UNCHANGED <<requests, late>>
          /\ panel' = [panel EXCEPT ![window].creating = Len(jobs) + 1]
      BY <2>1 DEF Tab!CreateDraft, Tab!Click
    <3>2. [kind |-> "draft", request |-> 0, at |-> "begin"] \in Job BY DEF Job
    <3>3. panel'[window].shows = p.shows /\ panel' \in [{window} -> Panel] BY <1>1, <3>1, PanelTypes DEF PanelTypeOK, Panel
    <3> QED BY <3>1, <3>2, <3>3
  <2>2. CASE Tab!Order(window)
    <3>1. /\ jobs' = Append(jobs, [kind |-> "order", request |-> p.shows.id, at |-> "begin"])
          /\ UNCHANGED <<requests, late>> /\ p.shows.remote
          /\ panel' = [panel EXCEPT ![window].ordering = Len(jobs) + 1]
      BY <2>2 DEF Tab!Order, Tab!Click
    <3>2. [kind |-> "order", request |-> p.shows.id, at |-> "begin"] \in Job BY <1>1, PanelTypes DEF Job, Shown
    <3>3. panel'[window].shows = p.shows /\ panel' \in [{window} -> Panel] BY <1>1, <3>1, PanelTypes DEF PanelTypeOK, Panel
    <3> QED BY <3>1, <3>2, <3>3
  <2> QED BY <2>1, <2>2
<1>3. /\ jobs' \in Seq(Job) /\ DOMAIN jobs' = 1..(Len(jobs) + 1) /\ jobs'[Len(jobs) + 1] = job
      /\ \A k \in DOMAIN jobs : jobs'[k] = jobs[k]
  BY <1>1, <1>2, AppendProperties, PanelTypes, LenProperties DEF PanelTypeOK
<1>4. \A k \in DOMAIN jobs' : k \in DOMAIN jobs \/ jobs'[k] = job BY <1>1, <1>3, PanelTypes
<1>5. PanelTypeOK' BY <1>1, <1>2, <1>3, <1>4 DEF PanelTypeOK
<1>6. OneShown' BY <1>1, <1>2, <1>3, <1>4 DEF OneShown, Newest
<1>7. \A r : \A k \in DOMAIN jobs' : Busy(k, r)' => k \in DOMAIN jobs /\ Busy(k, r) BY <1>2, <1>3, <1>4 DEF Busy
<1>8. \A r : \A k \in DOMAIN jobs : k \in DOMAIN jobs' /\ (Busy(k, r) => Busy(k, r)') BY <1>1, <1>3, PanelTypes DEF Busy
<1>9. \A r \in DOMAIN requests' : PaidAs(r)' BY <1>1, <1>2, <1>3, <1>7, <1>8 DEF PaidAs
<1> QED BY <1>5, <1>6, <1>9 DEF PaidInv

\* The window shows what it fetched, or what it showed.
LEMMA ShowPaid ==
  ASSUME PaidInv, \/ Tab!Refetch(window)
                  \/ \E kind \in {"creating", "ordering"} : Tab!Over(window, kind) \/ Tab!GiveUp(window, kind)
  PROVE  PaidInv'
<1> DEFINE p == panel[window]
<1>1. PanelTypeOK /\ OneShown /\ \A r \in DOMAIN requests : PaidAs(r) BY DEF PaidInv
<1>2. /\ UNCHANGED <<requests, jobs, late>> /\ panel' \in [{window} -> Panel]
      /\ panel'[window].shows \in {p.shows, Tab!Latest(requests)}
  <2>1. CASE Tab!Refetch(window)
    <3>1. UNCHANGED <<requests, jobs, late>> /\ panel' = [panel EXCEPT ![window].shows = Tab!Latest(requests)]
      BY <2>1 DEF Tab!Refetch
    <3> QED BY <1>1, <3>1, LatestIsNewest, PanelTypes DEF PanelTypeOK, Panel
  <2>2. ASSUME NEW kind \in {"creating", "ordering"}, Tab!Over(window, kind) \/ Tab!GiveUp(window, kind)
        PROVE  /\ UNCHANGED <<requests, jobs, late>> /\ panel' \in [{window} -> Panel]
               /\ panel'[window].shows \in {p.shows, Tab!Latest(requests)}
    <3>1. UNCHANGED <<requests, jobs, late>> BY <2>2 DEF Tab!Over, Tab!GiveUp
    <3>2. PICK shows \in {p.shows, Tab!Latest(requests)} :
            panel' = [panel EXCEPT ![window] = [[p EXCEPT ![kind] = 0] EXCEPT !.shows = shows]]
      <4>1. CASE Tab!Over(window, kind)
        <5>1. panel' = [panel EXCEPT ![window][kind] = 0,
                                     ![window].shows = IF jobs[p[kind]].at = "answered" THEN Tab!Latest(requests) ELSE @]
          BY <4>1 DEF Tab!Over
        <5> QED BY <1>1, <5>1, PanelTypes DEF Panel
      <4>2. CASE Tab!GiveUp(window, kind)
        <5>1. panel' = [panel EXCEPT ![window][kind] = 0] BY <4>2 DEF Tab!GiveUp
        <5>2. p \in Panel BY <1>1, PanelTypes
        <5> QED BY <5>1, <5>2 DEF Panel
      <4> QED BY <2>2, <4>1, <4>2
    <3>3. shows \in Shown /\ p \in Panel BY <1>1, LatestIsNewest, PanelTypes DEF PanelTypeOK
    <3>4. [[p EXCEPT ![kind] = 0] EXCEPT !.shows = shows] \in Panel BY <3>3 DEF Panel
    <3> QED BY <1>1, <3>1, <3>2, <3>3, <3>4 DEF PanelTypeOK, Panel
  <2> QED BY <2>1, <2>2
<1>3. PanelTypeOK'
  <2>1. panel'[window].shows.remote => panel'[window].shows.id \in DOMAIN requests
    BY <1>1, <1>2, LatestIsNewest, PanelTypes DEF PanelTypeOK
  <2> QED BY <1>1, <1>2, <2>1 DEF PanelTypeOK
<1>4. OneShown'
  <2>1. ~late => /\ p.shows.remote => panel'[window].shows.remote
                 /\ panel'[window].shows.remote => Newest # 0 /\ panel'[window].shows.id = Newest /\ requests[Newest].remote
    BY <1>1, <1>2, LatestIsNewest DEF OneShown, PanelTypeOK
  <2> QED BY <1>1, <1>2, <2>1 DEF OneShown, Newest
<1>5. \A r \in DOMAIN requests' : PaidAs(r)' BY <1>1, <1>2 DEF PaidAs, Busy
<1> QED BY <1>3, <1>4, <1>5 DEF PaidInv

\* A job that orders nothing, or is neither before nor after at Attentive.
LEMMA QuietJobPaid ==
  ASSUME PaidInv, NEW k \in DOMAIN jobs, NEW job \in Job, jobs' = [jobs EXCEPT ![k] = job],
         job.kind = jobs[k].kind, job.request = jobs[k].request, UNCHANGED <<panel, late>>,
         job.kind = "order" => job.at \notin {"asking", "mark"} /\ jobs[k].at \notin {"asking", "mark"},
         jobs[k].at # "failed", jobs[k].at = "begin" => job.at = "failed" \/ job.kind = "order",
         \/ requests' = requests
         \/ /\ jobs[k].request \in DOMAIN requests
            /\ requests' = [requests EXCEPT ![jobs[k].request] = [@ EXCEPT !.remote = TRUE]]
  PROVE  PaidInv'
<1>1. PanelTypeOK /\ OneShown /\ \A r \in DOMAIN requests : PaidAs(r) BY DEF PaidInv
<1>2. /\ jobs' \in Seq(Job) /\ DOMAIN jobs' = DOMAIN jobs /\ jobs'[k] = job
      /\ \A j \in DOMAIN jobs \ {k} : jobs'[j] = jobs[j]
  BY <1>1, JobChanges
<1>3. /\ requests' \in Seq(Takeoff) /\ DOMAIN requests' = DOMAIN requests /\ Newest' = Newest
      /\ \A r \in DOMAIN requests : /\ requests'[r].billed = requests[r].billed /\ requests'[r].cut = requests[r].cut
                                    /\ requests'[r].submitted = requests[r].submitted
                                    /\ requests[r].remote => requests'[r].remote
  <2>1. CASE requests' = requests BY <1>1, <2>1 DEF PanelTypeOK, Newest
  <2>2. CASE /\ jobs[k].request \in DOMAIN requests
             /\ requests' = [requests EXCEPT ![jobs[k].request] = [@ EXCEPT !.remote = TRUE]]
    <3> DEFINE r == jobs[k].request
               row == [requests[r] EXCEPT !.remote = TRUE]
    <3>1. requests[r] \in Takeoff /\ row \in Takeoff BY <1>1, <2>2, PanelTypes DEF Takeoff
    <3>2. requests' = [requests EXCEPT ![r] = row] BY <2>2
    <3>3. row.remote /\ row.billed = requests[r].billed /\ row.cut = requests[r].cut /\ row.submitted = requests[r].submitted
      BY <3>1 DEF Takeoff
    <3> HIDE DEF row
    <3>4. /\ requests' \in Seq(Takeoff) /\ DOMAIN requests' = DOMAIN requests /\ Newest' = Newest
          /\ requests'[r] = row /\ \A q \in DOMAIN requests \ {r} : requests'[q] = requests[q]
      BY <1>1, <2>2, <3>1, <3>2, RowChanges
    <3> QED BY <3>3, <3>4
  <2> QED BY <2>1, <2>2
<1>4. \A r : \A j \in DOMAIN jobs : Busy(j, r)' <=> Busy(j, r) BY <1>2 DEF Busy
<1>5. \A r : \A j \in DOMAIN jobs : Busy(j, r) => jobs'[j].at = jobs[j].at BY <1>2 DEF Busy
<1>6. PanelTypeOK'
  <2>1. jobs[k].kind = "order" \/ jobs[k].at \notin {"begin", "failed"} => jobs[k].request \in DOMAIN requests
    BY <1>1 DEF PanelTypeOK
  <2>2. job.kind = "order" \/ job.at \notin {"begin", "failed"} => job.request \in DOMAIN requests BY <2>1
  <2> QED BY <1>1, <1>2, <1>3, <2>2 DEF PanelTypeOK
<1>7. OneShown'
  <2>1. \A j \in DOMAIN jobs : jobs'[j].kind = jobs[j].kind /\ jobs'[j].request = jobs[j].request BY <1>2
  <2>2. Newest # 0 => Newest \in DOMAIN requests BY <1>1, PanelTypes
  <2> QED BY <1>1, <1>2, <1>3, <2>1, <2>2 DEF OneShown
<1>8. \A r \in DOMAIN requests' : PaidAs(r)' BY <1>1, <1>2, <1>3, <1>4, <1>5 DEF PaidAs
<1> QED BY <1>6, <1>7, <1>8 DEF PaidInv

\* A step of an order beside which no other is under way, or that is cut.
LEMMA OrderPaid ==
  ASSUME PaidInv, NEW k \in DOMAIN jobs, jobs[k].kind = "order", NEW at \in {"asking", "mark", "answered", "failed"},
         jobs' = [jobs EXCEPT ![k].at = at], UNCHANGED <<panel, late>>, NEW row \in Takeoff,
         requests' = [requests EXCEPT ![jobs[k].request] = row], row.remote = requests[jobs[k].request].remote,
         ~row.cut =>
           /\ ~requests[jobs[k].request].cut /\ row.billed < 2
           /\ \A j \in DOMAIN jobs \ {k} : ~Busy(j, jobs[k].request)
           /\ at \in {"asking", "mark"} => ~row.submitted
           /\ at = "asking" => row.billed = 0
           /\ row.billed > 0 => row.submitted \/ at = "mark"
  PROVE  PaidInv'
<1> DEFINE r == jobs[k].request
           job == [jobs[k] EXCEPT !.at = at]
<1>1. PanelTypeOK /\ OneShown /\ \A q \in DOMAIN requests : PaidAs(q) BY DEF PaidInv
<1>2. r \in DOMAIN requests /\ r \in Nat /\ jobs[k] \in Job BY <1>1, PanelTypes DEF PanelTypeOK, Job
<1>3. /\ jobs' \in Seq(Job) /\ DOMAIN jobs' = DOMAIN jobs
      /\ jobs'[k].at = at /\ jobs'[k].kind = "order" /\ jobs'[k].request = r
      /\ \A j \in DOMAIN jobs \ {k} : jobs'[j] = jobs[j]
  <2>1. job \in Job /\ job.at = at /\ job.kind = "order" /\ job.request = r BY <1>2 DEF Job
  <2>2. jobs' = [jobs EXCEPT ![k] = job] OBVIOUS
  <2> HIDE DEF job
  <2> QED BY <1>1, <2>1, <2>2, JobChanges
<1>4. /\ requests' \in Seq(Takeoff) /\ DOMAIN requests' = DOMAIN requests /\ Newest' = Newest
      /\ requests'[r] = row /\ \A q \in DOMAIN requests \ {r} : requests'[q] = requests[q]
  BY <1>1, <1>2, RowChanges
<1> HIDE DEF r, job
<1>5. PanelTypeOK' BY <1>1, <1>2, <1>3, <1>4 DEF PanelTypeOK
<1>6. OneShown'
  <2>1. \A j \in DOMAIN jobs : jobs'[j].kind = jobs[j].kind /\ jobs'[j].request = jobs[j].request BY <1>3 DEF r
  <2>2. Newest # 0 => Newest \in DOMAIN requests BY <1>1, PanelTypes
  <2>3. ~late => panel[window].shows.remote /\ r = Newest BY <1>1 DEF OneShown, r
  <2>4. \A q \in DOMAIN requests : requests'[q].remote = requests[q].remote BY <1>4 DEF r
  <2> QED BY <1>1, <1>3, <1>4, <2>1, <2>2, <2>3, <2>4 DEF OneShown
<1>7. ASSUME NEW q \in DOMAIN requests' PROVE PaidAs(q)'
  <2>1. CASE q # r
    <3>1. \A j \in DOMAIN jobs : (Busy(j, q)' <=> Busy(j, q)) /\ (Busy(j, q) => jobs'[j].at = jobs[j].at)
      BY <1>3, <2>1 DEF Busy, r
    <3> QED BY <1>1, <1>3, <1>4, <1>7, <2>1, <3>1 DEF PaidAs
  <2>2. CASE q = r
    <3>1. SUFFICES ASSUME ~row.cut PROVE PaidAs(q)' BY <1>4, <2>2 DEF PaidAs
    <3>2. \A j \in DOMAIN jobs \ {k} : ~Busy(j, q)' BY <1>3, <2>2, <3>1 DEF Busy, r
    <3>3. at = "mark" => Busy(k, q)' BY <1>3, <2>2 DEF Busy
    <3>4. requests'[q] = row /\ k \in DOMAIN jobs' /\ (Busy(k, q)' => at \in {"asking", "mark"})
      BY <1>3, <1>4, <2>2 DEF Busy
    <3>5. \A j \in DOMAIN jobs' : Busy(j, q)' => j = k BY <1>3, <3>2
    <3>6. \A j \in DOMAIN jobs' : Busy(j, q)' => ~row.submitted /\ (jobs'[j].at = "asking" => row.billed = 0)
      <4>1. Busy(k, q)' => ~row.submitted /\ (at = "asking" => row.billed = 0) BY <3>1, <3>4 DEF r
      <4> QED BY <1>3, <3>5, <4>1
    <3>7. row.billed > 0 => row.submitted \/ \E j \in DOMAIN jobs' : Busy(j, q)' /\ jobs'[j].at = "mark"
      BY <1>3, <3>1, <3>3, <3>4
    <3> QED BY <3>1, <3>4, <3>5, <3>6, <3>7 DEF PaidAs
  <2> QED BY <2>1, <2>2
<1> QED BY <1>5, <1>6, <1>7 DEF PaidInv

\* The row of a draft.
LEMMA InsertPaid ==
  ASSUME PaidInv, NEW k \in DOMAIN jobs, Tab!Insert(k)
  PROVE  PaidInv'
<1> DEFINE new == [remote |-> FALSE, submitted |-> FALSE, billed |-> 0, cut |-> FALSE]
           job == [jobs[k] EXCEPT !.at = "asking", !.request = Newest + 1]
<1>1. PanelTypeOK /\ OneShown /\ \A q \in DOMAIN requests : PaidAs(q) BY DEF PaidInv
<1>2. /\ jobs[k].kind = "draft" /\ jobs[k].at = "begin" /\ requests' = Append(requests, new) /\ panel' = panel
      /\ jobs' = [jobs EXCEPT ![k] = job] /\ late' = (late \/ panel[window].shows.remote)
  BY DEF Tab!Insert, Newest
<1>3. new \in Takeoff /\ new.billed = 0 /\ ~new.cut BY DEF Takeoff
<1>4. jobs[k] \in Job /\ Newest \in Nat BY <1>1, PanelTypes
<1>5. job \in Job /\ job.kind = "draft" /\ job.request = Newest + 1
  <2>1. Newest + 1 \in Nat BY <1>4
  <2>2. [jobs[k] EXCEPT !.at = "asking"] \in Job /\ [jobs[k] EXCEPT !.at = "asking"].kind = "draft"
    BY <1>2, <1>4 DEF Job
  <2>3. \A j \in Job : /\ [j EXCEPT !.request = Newest + 1] \in Job /\ [j EXCEPT !.request = Newest + 1].kind = j.kind
                      /\ [j EXCEPT !.request = Newest + 1].request = Newest + 1
    BY <2>1 DEF Job
  <2>4. job = [[jobs[k] EXCEPT !.at = "asking"] EXCEPT !.request = Newest + 1] BY <1>4 DEF Job
  <2> QED BY <2>2, <2>3, <2>4
<1> HIDE DEF new, job
<1>6. /\ requests' \in Seq(Takeoff) /\ Newest' = Newest + 1 /\ requests'[Newest + 1] = new
      /\ DOMAIN requests' = 1..(Newest + 1) /\ \A q \in DOMAIN requests : requests'[q] = requests[q]
  BY <1>1, <1>2, <1>3, <1>4, AppendProperties, LenProperties DEF PanelTypeOK, Newest
<1>7. /\ jobs' \in Seq(Job) /\ DOMAIN jobs' = DOMAIN jobs /\ jobs'[k] = job
      /\ \A j \in DOMAIN jobs \ {k} : jobs'[j] = jobs[j]
  BY <1>1, <1>2, <1>5, JobChanges
<1>8. DOMAIN requests = 1..Newest /\ \A q \in DOMAIN requests' : q \in DOMAIN requests \/ q = Newest + 1
  BY <1>1, <1>6, PanelTypes
<1>9. PanelTypeOK'
  <2>1. late' \in BOOLEAN
    <3>1. panel[window].shows \in Shown BY <1>1, PanelTypes
    <3> QED BY <1>1, <1>2, <3>1 DEF PanelTypeOK, Shown
  <2> QED BY <1>1, <1>2, <1>4, <1>5, <1>6, <1>7, <1>8, <2>1 DEF PanelTypeOK
<1>10. OneShown'
  <2>1. SUFFICES ASSUME ~late' PROVE OneShown' BY DEF OneShown
  <2>2. ~late /\ ~panel'[window].shows.remote BY <1>2, <2>1
  <2>3. \A j \in DOMAIN jobs : jobs'[j].kind # "order" BY <1>1, <1>2, <1>5, <1>7, <2>2 DEF OneShown
  <2>4. \A q \in DOMAIN requests : ~(requests[q].billed > 0) BY <1>1, <1>2, <2>2 DEF OneShown
  <2>5. ~(new.billed > 0) BY <1>3
  <2>6. \A q \in DOMAIN requests' : ~(requests'[q].billed > 0) BY <1>6, <1>8, <2>4, <2>5
  <2> QED BY <1>7, <2>2, <2>3, <2>6 DEF OneShown
<1>11. ASSUME NEW q \in DOMAIN requests' PROVE PaidAs(q)'
  <2>1. \A j \in DOMAIN jobs : (Busy(j, q)' <=> Busy(j, q)) /\ (Busy(j, q) => jobs'[j].at = jobs[j].at)
    BY <1>2, <1>5, <1>7 DEF Busy
  <2>2. CASE q \in DOMAIN requests BY <1>1, <1>6, <1>7, <2>1, <2>2 DEF PaidAs
  <2>3. CASE q = Newest + 1
    <3>1. \A j \in DOMAIN jobs : ~Busy(j, q) BY <1>1, <1>4, <1>8, <2>3 DEF PanelTypeOK, Busy
    <3> QED BY <1>3, <1>6, <1>7, <2>1, <2>3, <3>1 DEF PaidAs
  <2> QED BY <1>8, <2>2, <2>3
<1> QED BY <1>9, <1>10, <1>11 DEF PaidInv

\* The guard of generate.
LEMMA GuardPaid ==
  ASSUME PaidInv, NEW k \in DOMAIN jobs, Tab!Guard(k)
  PROVE  PaidInv'
<1> DEFINE r == jobs[k].request
           another == \E j \in DOMAIN jobs : Busy(j, r)
           row == [requests[r] EXCEPT !.cut = @ \/ (another /\ ~requests[r].submitted)]
<1>1. PanelTypeOK /\ PaidAs(r) /\ r \in DOMAIN requests /\ requests[r] \in Takeoff
  BY PanelTypes DEF PaidInv, PanelTypeOK, Tab!Guard
<1>2. /\ jobs[k].kind = "order" /\ jobs[k].at = "begin" /\ UNCHANGED <<panel, late>>
      /\ jobs' = [jobs EXCEPT ![k].at = IF requests[r].submitted THEN "answered" ELSE "asking"]
      /\ requests' = [requests EXCEPT ![r] = row]
  BY DEF Tab!Guard, Tab!AlreadyOrdered, Busy
<1>3. /\ row \in Takeoff /\ row.remote = requests[r].remote /\ row.submitted = requests[r].submitted
      /\ row.billed = requests[r].billed /\ row.cut = (requests[r].cut \/ (another /\ ~requests[r].submitted))
  BY <1>1 DEF Takeoff
<1>4. requests[r].billed \in 0..2 BY <1>1 DEF Takeoff
<1> HIDE DEF row
<1>5. ASSUME ~row.cut
      PROVE  /\ ~requests[r].cut /\ row.billed < 2 /\ \A j \in DOMAIN jobs : ~Busy(j, r)
             /\ ~requests[r].submitted => row.billed = 0
             /\ row.billed > 0 => row.submitted
  <2>1. ~requests[r].cut /\ ~(another /\ ~requests[r].submitted) BY <1>3, <1>5
  <2>2. /\ requests[r].billed < 2 /\ \A j \in DOMAIN jobs : Busy(j, r) => ~requests[r].submitted
        /\ requests[r].billed > 0 => requests[r].submitted \/ \E j \in DOMAIN jobs : Busy(j, r)
    BY <1>1, <2>1 DEF PaidAs
  <2>3. \A j \in DOMAIN jobs : ~Busy(j, r) BY <2>1, <2>2
  <2> QED BY <1>3, <1>4, <2>1, <2>2, <2>3
<1> QED BY <1>2, <1>3, <1>5, OrderPaid

\* Attentive answers, or not.
LEMMA AttentivePaid ==
  ASSUME PaidInv, NEW k \in DOMAIN jobs, NEW answer \in {"ok", "refused", "lost"}, Tab!Attentive(k, answer)
  PROVE  PaidInv'
<1> DEFINE r == jobs[k].request
           at == IF answer = "ok" THEN "mark" ELSE "failed"
<1>1. PanelTypeOK /\ r \in DOMAIN requests /\ PaidAs(r) /\ requests[r] \in Takeoff /\ jobs[k] \in Job
  BY PanelTypes DEF PaidInv, PanelTypeOK, Tab!Attentive
<1>2. /\ jobs[k].at = "asking" /\ jobs' = [jobs EXCEPT ![k].at = at] /\ UNCHANGED <<panel, late>>
      /\ at \in {"mark", "failed"}
  BY DEF Tab!Attentive
<1>3. CASE jobs[k].kind = "draft"
  <2> DEFINE job == [jobs[k] EXCEPT !.at = at]
  <2>1. requests' = requests /\ jobs' = [jobs EXCEPT ![k] = job] BY <1>2, <1>3 DEF Tab!Attentive
  <2>2. job \in Job /\ job.kind = "draft" /\ job.request = r BY <1>1, <1>2, <1>3 DEF Job
  <2>3. jobs[k].at # "failed" /\ jobs[k].at # "begin" /\ job.kind # "order" BY <1>2, <2>2
  <2>4. UNCHANGED <<panel, late>> /\ job.kind = jobs[k].kind /\ job.request = jobs[k].request BY <1>2, <1>3, <2>2
  <2> HIDE DEF job
  <2> QED BY <2>1, <2>2, <2>3, <2>4, QuietJobPaid
<1>4. CASE jobs[k].kind = "order"
  <2>1. PICK row \in Takeoff :
          /\ requests' = [requests EXCEPT ![r] = row] /\ row.remote = requests[r].remote
          /\ row.submitted = requests[r].submitted /\ (~row.cut => ~requests[r].cut /\ answer # "lost")
          /\ row.billed = IF answer = "refused" THEN requests[r].billed ELSE Tab!OneMore(requests[r].billed)
    <3>1. CASE answer = "refused"
      <4>1. requests' = [requests EXCEPT ![r] = requests[r]] BY <1>1, <1>4, <3>1, SameRow DEF Tab!Attentive
      <4> QED BY <1>1, <3>1, <4>1
    <3>2. CASE answer # "refused"
      <4> DEFINE row == [requests[r] EXCEPT !.billed = Tab!OneMore(@), !.cut = @ \/ answer = "lost"]
      <4>1. requests' = [requests EXCEPT ![r] = row] BY <1>4, <3>2 DEF Tab!Attentive
      <4>2. Tab!OneMore(requests[r].billed) \in 0..2 BY <1>1 DEF Takeoff, Tab!OneMore
      <4>3. (requests[r].cut \/ answer = "lost") \in BOOLEAN OBVIOUS
      <4>4. /\ row \in Takeoff /\ row.remote = requests[r].remote /\ row.submitted = requests[r].submitted
            /\ row.cut = (requests[r].cut \/ answer = "lost") /\ row.billed = Tab!OneMore(requests[r].billed)
        BY <1>1, <4>2, <4>3 DEF Takeoff
      <4> HIDE DEF row
      <4> QED BY <3>2, <4>1, <4>4
    <3> QED BY <3>1, <3>2
  <2>2. Busy(k, r) BY <1>2, <1>4 DEF Busy
  <2>3. ASSUME ~row.cut
        PROVE  /\ ~requests[r].cut /\ row.billed < 2 /\ \A j \in DOMAIN jobs \ {k} : ~Busy(j, r)
               /\ ~row.submitted /\ (row.billed > 0 => at = "mark")
    <3>1. ~requests[r].cut /\ answer # "lost" BY <2>1, <2>3
    <3>2. /\ requests[r].billed = 0 /\ ~requests[r].submitted /\ \A j \in DOMAIN jobs \ {k} : ~Busy(j, r)
      BY <1>1, <1>2, <2>2, <3>1 DEF PaidAs
    <3> QED BY <2>1, <3>1, <3>2 DEF Tab!OneMore
  <2> HIDE DEF at
  <2> QED BY <1>2, <1>4, <2>1, <2>3, OrderPaid
<1> QED BY <1>1, <1>3, <1>4 DEF Job

\* The UPDATE, or none.
LEMMA EndPaid ==
  ASSUME PaidInv, NEW k \in DOMAIN jobs, Tab!Mark(k) \/ Tab!BreakOff(k)
  PROVE  PaidInv'
<1> DEFINE r == jobs[k].request
<1>1. /\ PanelTypeOK /\ jobs[k] \in Job /\ (\A q \in DOMAIN requests : PaidAs(q))
      /\ jobs[k].kind = "order" \/ jobs[k].at \notin {"begin", "failed"} => r \in DOMAIN requests /\ requests[r] \in Takeoff
  BY PanelTypes DEF PaidInv, PanelTypeOK
<1>2. UNCHANGED <<panel, late>> /\ jobs[k].at \in {"begin", "asking", "mark"} BY DEF Tab!Mark, Tab!BreakOff
<1>3. CASE jobs[k].kind = "draft"
  <2> DEFINE at == IF Tab!Mark(k) THEN "answered" ELSE "failed"
             job == [jobs[k] EXCEPT !.at = at]
  <2>1. jobs' = [jobs EXCEPT ![k] = job] BY DEF Tab!Mark, Tab!BreakOff
  <2>2. job \in Job /\ job.kind = "draft" /\ job.request = r /\ job.at = at BY <1>1, <1>3 DEF Job
  <2>3. jobs[k].at = "begin" => job.at = "failed" BY <2>2 DEF Tab!Mark
  <2>4. \/ requests' = requests
        \/ r \in DOMAIN requests /\ requests' = [requests EXCEPT ![r] = [@ EXCEPT !.remote = TRUE]]
    BY <1>1, <1>3 DEF Tab!Mark, Tab!BreakOff
  <2> HIDE DEF job
  <2> QED BY <1>2, <1>3, <2>1, <2>2, <2>3, <2>4, QuietJobPaid
<1>4. CASE jobs[k].kind = "order" /\ Tab!Mark(k)
  <2> DEFINE row == [requests[r] EXCEPT !.submitted = TRUE]
  <2>1. /\ jobs[k].at = "mark" /\ jobs' = [jobs EXCEPT ![k].at = "answered"] /\ requests' = [requests EXCEPT ![r] = row]
    BY <1>4 DEF Tab!Mark
  <2>2. /\ row \in Takeoff /\ row.submitted /\ row.remote = requests[r].remote /\ row.cut = requests[r].cut
        /\ row.billed = requests[r].billed
    BY <1>1, <1>4 DEF Takeoff
  <2>3. Busy(k, r) /\ PaidAs(r) BY <1>1, <1>4, <2>1 DEF Busy
  <2>4. ~requests[r].cut => requests[r].billed < 2 /\ \A j \in DOMAIN jobs \ {k} : ~Busy(j, r) BY <2>3 DEF PaidAs
  <2> HIDE DEF row
  <2> QED BY <1>2, <1>4, <2>1, <2>2, <2>4, OrderPaid
<1>5. CASE jobs[k].kind = "order" /\ Tab!BreakOff(k) /\ jobs[k].at # "begin"
  <2>1. PICK row \in Takeoff :
          /\ requests' = [requests EXCEPT ![r] = row] /\ row.remote = requests[r].remote /\ row.billed = requests[r].billed
          /\ ~row.cut => ~requests[r].cut /\ jobs[k].at = "asking" /\ row.submitted = requests[r].submitted
    <3>1. CASE jobs[k].at = "mark"
      <4> DEFINE row == [requests[r] EXCEPT !.cut = TRUE]
      <4>1. requests' = [requests EXCEPT ![r] = row] BY <1>5, <3>1 DEF Tab!BreakOff
      <4>2. row \in Takeoff /\ row.remote = requests[r].remote /\ row.billed = requests[r].billed /\ row.cut
        BY <1>1, <1>5 DEF Takeoff
      <4> HIDE DEF row
      <4> QED BY <4>1, <4>2
    <3>2. CASE jobs[k].at = "asking"
      <4>1. requests' = [requests EXCEPT ![r] = requests[r]] BY <1>1, <1>5, <3>2, SameRow DEF Tab!BreakOff
      <4> QED BY <1>1, <1>5, <3>2, <4>1
    <3> QED BY <1>2, <1>5, <3>1, <3>2
  <2>2. Busy(k, r) /\ PaidAs(r) BY <1>1, <1>2, <1>5 DEF Busy
  <2>3. ~row.cut => row.billed = 0 /\ \A j \in DOMAIN jobs \ {k} : ~Busy(j, r) BY <2>1, <2>2 DEF PaidAs
  <2> DEFINE at == "failed"
  <2>4. jobs' = [jobs EXCEPT ![k].at = at] BY <1>5 DEF Tab!BreakOff
  <2>5. at \in {"asking", "mark", "answered", "failed"} /\ at \notin {"asking", "mark"} OBVIOUS
  <2>6. ~row.cut => ~requests[r].cut BY <2>1
  <2>7. row.billed = 0 => row.billed < 2 /\ ~(row.billed > 0) OBVIOUS
  <2> HIDE DEF at
  <2> QED BY <1>2, <1>5, <2>1, <2>3, <2>4, <2>5, <2>6, <2>7, OrderPaid
<1>6. CASE jobs[k].kind = "order" /\ Tab!BreakOff(k) /\ jobs[k].at = "begin"
  <2> DEFINE job == [jobs[k] EXCEPT !.at = "failed"]
  <2>1. jobs' = [jobs EXCEPT ![k] = job] /\ requests' = requests BY <1>6 DEF Tab!BreakOff
  <2>2. job \in Job /\ job.kind = "order" /\ job.request = r /\ job.at = "failed" BY <1>1, <1>6 DEF Job
  <2> HIDE DEF job
  <2> QED BY <1>2, <1>6, <2>1, <2>2, QuietJobPaid
<1> QED BY <1>1, <1>3, <1>4, <1>5, <1>6 DEF Job

LEMMA PaidSteps ==
  ASSUME PaidInv, Tab!PanelStep
  PROVE  PaidInv'
BY ClickPaid, ShowPaid, InsertPaid, GuardPaid, AttentivePaid, EndPaid DEF Tab!PanelStep

LEMMA PaidIsOne ==
  ASSUME PaidInv PROVE Tab!OneTakeoffPaid
<1>1. PanelTypeOK /\ OneShown /\ \A r \in DOMAIN requests : PaidAs(r) /\ requests[r] \in Takeoff
  BY PanelTypes DEF PaidInv
<1>2. ASSUME NEW r \in DOMAIN requests, requests[r].billed > 0
      PROVE  /\ late \/ \A q \in DOMAIN requests : requests[q].billed > 0 => q = r
             /\ requests[r].cut \/ requests[r].billed = 1
  <2>1. ~late => \A q \in DOMAIN requests : requests[q].billed > 0 => q = r BY <1>1, <1>2 DEF OneShown
  <2>2. ~requests[r].cut => requests[r].billed = 1 BY <1>1, <1>2 DEF PaidAs, Takeoff
  <2> QED BY <2>1, <2>2
<1> QED BY <1>2 DEF Tab!OneTakeoffPaid

-----------------------------------------------------------------------------
(* The discrepancy review *)

LEMMA ReviewValues ==
  /\ Amounts \subseteq Nat /\ Percents \subseteq Nat /\ Measures \subseteq Nat /\ Depths \subseteq Nat
  /\ Review!Cell = Cells /\ Amounts \subseteq CellValues /\ Percents \subseteq CellValues
BY MoneyAssumption DEF Review!ReviewAssumption, Review!Cell, Cells, CellValues

Typing == [line : Lines, body : UNION {[{c} -> CellValues] : c \in Cells}, key : Nat]
Pending(l, c) == {p \in sent : p.line = l /\ c \in DOMAIN p.body}
KeyTypeOK ==
  /\ tableStored \in [Lines -> [Cells -> CellValues]] /\ tableLines \in [Lines -> [Cells -> CellValues]]
  /\ typed \in [Lines -> [Cells -> Nat]] /\ keys \in Nat /\ failures \in Nat /\ sent \subseteq Typing
KeyKnown(l, c) ==
  /\ typed[l][c] = 0 => Pending(l, c) = {} /\ tableStored[l][c] = tableLines[l][c]
  /\ typed[l][c] = 1 => /\ \A p \in Pending(l, c) : p.body[c] = tableLines[l][c]
                        /\ Pending(l, c) # {} \/ tableStored[l][c] = tableLines[l][c]

LEMMA KeyInvIs == KeyInv <=> KeyTypeOK /\ (failures = 0 => \A l \in Lines, c \in Cells : KeyKnown(l, c))
BY DEF KeyInv, KeyTypeOK, KeyKnown, Pending, Typing

LEMMA KeyInvWillBe ==
  KeyInv' <=> KeyTypeOK' /\ (failures' = 0 => \A l \in Lines, c \in Cells : KeyKnown(l, c)')
BY DEF KeyInv, KeyTypeOK, KeyKnown, Pending, Typing

LEMMA KeyStays ==
  ASSUME KeyInv, UNCHANGED <<tableStored, tableLines, typed, keys, failures, sent>>
  PROVE  KeyInv'
<1>1. KeyTypeOK' BY KeyInvIs DEF KeyTypeOK
<1>2. ASSUME failures' = 0, NEW l \in Lines, NEW c \in Cells PROVE KeyKnown(l, c)'
  <2>1. KeyKnown(l, c) BY <1>2, KeyInvIs
  <2> QED BY <2>1 DEF KeyKnown, Pending
<1> QED BY <1>1, <1>2, KeyInvWillBe

LEMMA CellUpdated ==
  ASSUME NEW t, NEW V, t \in [Lines -> [Cells -> V]], NEW l \in Lines, NEW c \in Cells, NEW v \in V
  PROVE  /\ [t EXCEPT ![l][c] = v] \in [Lines -> [Cells -> V]] /\ [t EXCEPT ![l][c] = v][l][c] = v
         /\ \A k \in Lines, d \in Cells : k # l \/ d # c => [t EXCEPT ![l][c] = v][k][d] = t[k][d]
OBVIOUS

LEMMA KeySteps ==
  ASSUME KeyInv, Review!TableStep
  PROVE  KeyInv'
<1>1. KeyTypeOK BY KeyInvIs
<1>2. ASSUME failures = 0, NEW l \in Lines, NEW c \in Cells PROVE KeyKnown(l, c) BY <1>2, KeyInvIs
<1>3. ASSUME NEW l \in Lines, NEW c \in Cells, NEW v \in CellValues, Review!UpdateLine(l, c, v) PROVE KeyInv'
  <2> DEFINE new == [line |-> l, body |-> Review!Patch(l, c, v), key |-> keys]
             n == typed[l][c] + 1
  <2>1. /\ tableLines' = [tableLines EXCEPT ![l][c] = v] /\ sent' = sent \cup {new} /\ keys' = keys + 1
        /\ typed' = [typed EXCEPT ![l][c] = n] /\ UNCHANGED <<tableStored, failures>>
    BY <1>3 DEF Review!UpdateLine
  <2>2. DOMAIN new.body = {c} /\ new.body[c] = v /\ new.line = l /\ new.body \in [{c} -> CellValues]
    BY DEF Review!Patch
  <2>3. new \in Typing BY <1>1, <2>2 DEF Typing, KeyTypeOK
  <2>4. n \in Nat BY <1>1 DEF KeyTypeOK
  <2> HIDE DEF new, n
  <2>5. /\ tableLines' \in [Lines -> [Cells -> CellValues]] /\ tableLines'[l][c] = v
        /\ typed' \in [Lines -> [Cells -> Nat]] /\ typed'[l][c] = n
        /\ \A k \in Lines, d \in Cells : k # l \/ d # c => tableLines'[k][d] = tableLines[k][d] /\ typed'[k][d] = typed[k][d]
    BY <1>1, <2>1, <2>4, CellUpdated DEF KeyTypeOK
  <2>6. KeyTypeOK' BY <1>1, <2>1, <2>3, <2>5 DEF KeyTypeOK
  <2>7. ASSUME failures' = 0, NEW k \in Lines, NEW d \in Cells PROVE KeyKnown(k, d)'
    <3>1. KeyKnown(k, d) BY <1>2, <2>1, <2>7
    <3>2. CASE k # l \/ d # c
      <4>1. Pending(k, d)' = Pending(k, d) BY <2>1, <2>2, <3>2 DEF Pending
      <4> QED BY <2>1, <2>5, <3>1, <3>2, <4>1 DEF KeyKnown
    <3>3. CASE k = l /\ d = c
      <4>1. Pending(l, c)' = Pending(l, c) \cup {new} BY <2>1, <2>2 DEF Pending
      <4>0. typed[l][c] \in Nat BY <1>1 DEF KeyTypeOK
      <4>2. typed'[l][c] # 0 /\ (typed'[l][c] = 1 => typed[l][c] = 0)
        <5>1. typed'[l][c] = typed[l][c] + 1 BY <2>5 DEF n
        <5>2. \A i \in Nat : i + 1 # 0 /\ (i + 1 = 1 => i = 0) OBVIOUS
        <5> QED BY <4>0, <5>1, <5>2
      <4>3. typed'[l][c] = 1 => Pending(l, c) = {} BY <3>1, <3>3, <4>2 DEF KeyKnown
      <4> QED BY <2>2, <2>5, <3>3, <4>1, <4>2, <4>3 DEF KeyKnown
    <3> QED BY <3>2, <3>3
  <2> QED BY <2>6, <2>7, KeyInvWillBe
<1>4. ASSUME NEW p \in sent, Review!PatchRuns(p) PROVE KeyInv'
  <2> DEFINE row == [c \in Cells |-> IF c \in DOMAIN p.body THEN p.body[c] ELSE tableStored[p.line][c]]
  <2>1. /\ tableStored' = [tableStored EXCEPT ![p.line] = row] /\ sent' = sent \ {p}
        /\ UNCHANGED <<tableLines, typed, keys, failures>>
    <3>1. tableStored' = [tableStored EXCEPT ![p.line] = [c \in Cells |-> IF c \in DOMAIN p.body THEN p.body[c] ELSE @[c]]]
      BY <1>4, ReviewValues DEF Review!PatchRuns
    <3> QED BY <1>4, <3>1 DEF Review!PatchRuns
  <2>2. p \in Typing /\ p.line \in Lines BY <1>1 DEF KeyTypeOK, Typing
  <2>3. \A c \in DOMAIN p.body : p.body[c] \in CellValues BY <2>2 DEF Typing
  <2>4. row \in [Cells -> CellValues] BY <1>1, <2>2, <2>3 DEF KeyTypeOK
  <2>5. \A c \in Cells : row[c] = IF c \in DOMAIN p.body THEN p.body[c] ELSE tableStored[p.line][c] OBVIOUS
  <2> HIDE DEF row
  <2>6. /\ tableStored' \in [Lines -> [Cells -> CellValues]] /\ tableStored'[p.line] = row
        /\ \A k \in Lines \ {p.line} : tableStored'[k] = tableStored[k]
    BY <1>1, <2>1, <2>2, <2>4 DEF KeyTypeOK
  <2>7. KeyTypeOK' BY <1>1, <2>1, <2>6 DEF KeyTypeOK
  <2>8. ASSUME failures' = 0, NEW k \in Lines, NEW d \in Cells PROVE KeyKnown(k, d)'
    <3>1. KeyKnown(k, d) BY <1>2, <2>1, <2>8
    <3>2. CASE p \in Pending(k, d)
      <4>1. k = p.line /\ d \in DOMAIN p.body BY <3>2 DEF Pending
      <4>2. tableStored'[k][d] = p.body[d] BY <2>5, <2>6, <4>1
      <4>3. Pending(k, d)' \subseteq Pending(k, d) BY <2>1 DEF Pending
      <4> QED BY <2>1, <3>1, <3>2, <4>2, <4>3 DEF KeyKnown
    <3>3. CASE p \notin Pending(k, d)
      <4>1. k # p.line \/ d \notin DOMAIN p.body BY <3>3 DEF Pending
      <4>2. tableStored'[k][d] = tableStored[k][d] BY <2>5, <2>6, <4>1
      <4>3. Pending(k, d)' = Pending(k, d) BY <2>1, <3>3 DEF Pending
      <4> QED BY <2>1, <3>1, <4>2, <4>3 DEF KeyKnown
    <3> QED BY <3>2, <3>3
  <2> QED BY <2>7, <2>8, KeyInvWillBe
<1>5. ASSUME NEW p \in sent, Review!PatchFails(p) PROVE KeyInv'
  <2>1. failures' = failures + 1 /\ sent' = sent \ {p} /\ UNCHANGED <<tableStored, tableLines, typed, keys>>
    BY <1>5 DEF Review!PatchFails
  <2>2. KeyTypeOK' /\ failures' # 0 BY <1>1, <2>1 DEF KeyTypeOK
  <2> QED BY <2>2, KeyInvWillBe
<1>6. ASSUME NEW t \in Percents, Review!MoveSlider(t) PROVE KeyInv'
  BY <1>6, KeyStays DEF Review!MoveSlider
<1>7. CASE Review!OpenTab
  <2>1. /\ tableLines' = tableStored /\ UNCHANGED <<tableStored, sent, keys, failures>>
        /\ typed' = [l \in Lines |-> [c \in Cells |-> IF tableLines[l][c] = tableStored[l][c] THEN typed[l][c] ELSE 2]]
    BY <1>7, ReviewValues DEF Review!OpenTab
  <2>2. KeyTypeOK' BY <1>1, <2>1 DEF KeyTypeOK
  <2>3. ASSUME failures' = 0, NEW k \in Lines, NEW d \in Cells PROVE KeyKnown(k, d)'
    <3>1. KeyKnown(k, d) BY <1>2, <2>1, <2>3
    <3>2. typed'[k][d] = IF tableLines[k][d] = tableStored[k][d] THEN typed[k][d] ELSE 2 BY <2>1
    <3>3. Pending(k, d)' = Pending(k, d) BY <2>1 DEF Pending
    <3> QED BY <2>1, <3>1, <3>2, <3>3 DEF KeyKnown
  <2> QED BY <2>2, <2>3, KeyInvWillBe
<1> QED BY <1>3, <1>4, <1>5, <1>6, <1>7, ReviewValues DEF Review!TableStep

LEMMA KeystrokesAreStored ==
  ASSUME KeyInv PROVE Review!KeystrokesLand
<1> SUFFICES ASSUME sent = {}, failures = 0
             PROVE  /\ \A l \in Lines, c \in Cells : typed[l][c] <= 1 => tableStored[l][c] = tableLines[l][c]
                    /\ (\A l \in Lines, c \in Cells : typed[l][c] <= 1) =>
                         Review!Review(tableStored, Default) = Review!Review(tableLines, Default)
  BY ReviewValues DEF Review!KeystrokesLand
<1>1. KeyTypeOK BY KeyInvIs
<1>2. ASSUME NEW l \in Lines, NEW c \in Cells, typed[l][c] <= 1 PROVE tableStored[l][c] = tableLines[l][c]
  <2>0. typed[l][c] \in Nat BY <1>1 DEF KeyTypeOK
  <2>1. typed[l][c] \in {0, 1} BY <1>2, <2>0
  <2>2. KeyKnown(l, c) BY KeyInvIs
  <2> QED BY <2>1, <2>2 DEF KeyKnown, Pending
<1>3. ASSUME \A l \in Lines, c \in Cells : typed[l][c] <= 1 PROVE tableStored = tableLines
  <2>1. \A l \in Lines : tableStored[l] = tableLines[l] BY <1>1, <1>2, <1>3 DEF KeyTypeOK
  <2> QED BY <1>1, <2>1 DEF KeyTypeOK
<1> QED BY <1>2, <1>3

-----------------------------------------------------------------------------
(* The materials calculator *)

LEMMA CardSteps ==
  ASSUME CardInv, Review!CardStep
  PROVE  CardInv'
<1>1. ASSUME NEW m \in Materials, NEW f \in {"measure", "depth", "addPct"}, NEW v, Review!HandleInput(m, f, v),
             f = "measure" => v \in Measures, f = "depth" => v \in Depths, f = "addPct" => v \in Percents
      PROVE  CardInv'
  <2> DEFINE e == Review!EntryOf(m)
             new == [e EXCEPT ![f] = v]
  <2>1. /\ m \in DOMAIN rows /\ UNCHANGED rows /\ (f = "depth" => v \in Review!Offered(rows[m]))
        /\ inputs' = [n \in DOMAIN inputs \cup {m} |-> IF n = m THEN new ELSE inputs[n]]
    BY <1>1 DEF Review!HandleInput
  <2>2. e \in Card /\ (e.depth # None => m \in DOMAIN inputs /\ e = inputs[m])
    BY DEF CardInv, Review!EntryOf, Review!NoInput, Card
  <2>3. new \in Card /\ new.depth = IF f = "depth" THEN v ELSE e.depth BY <1>1, <2>2 DEF Card
  <2>4. IsOffered(rows[m], new)
    <3>1. CASE f = "depth" BY <2>1, <2>3, <3>1 DEF IsOffered, Review!Offered
    <3>2. CASE f # "depth" BY <2>1, <2>2, <2>3, <3>2 DEF IsOffered, CardInv
    <3> QED BY <3>1, <3>2
  <2> HIDE DEF new, e
  <2>5. /\ DOMAIN inputs' = DOMAIN inputs \cup {m} /\ inputs'[m] = new
        /\ \A n \in DOMAIN inputs \ {m} : inputs'[n] = inputs[n]
    BY <2>1
  <2>6. inputs' \in [DOMAIN inputs' -> Card] BY <2>1, <2>3 DEF CardInv
  <2> QED BY <2>1, <2>4, <2>5, <2>6 DEF CardInv
<1>2. CASE Review!ConfigLoaded
  <2>1. rows = BuiltIn /\ rows' = Configured /\ UNCHANGED inputs BY <1>2 DEF Review!ConfigLoaded
  <2>2. ASSUME NEW m \in DOMAIN inputs \cap DOMAIN Configured PROVE IsOffered(Configured[m], inputs[m])
    <3>1. CASE BuiltIn = Configured BY <2>1, <3>1 DEF CardInv
    <3>2. CASE BuiltIn # Configured
      <4> SUFFICES ASSUME Configured[m].compute = "aggregate", inputs[m].depth # None
                   PROVE  inputs[m].depth \in DOMAIN Configured[m].table
        BY DEF IsOffered
      <4>1. m \in DOMAIN BuiltIn BY <2>1, <3>2 DEF CardInv
      <4>2. IsOffered(BuiltIn[m], inputs[m]) BY <2>1, <4>1 DEF CardInv
      <4> QED BY <4>1, <4>2, CardsAssumption DEF Review!CardsAgree, IsOffered
    <3> QED BY <3>1, <3>2
  <2> QED BY <2>1, <2>2 DEF CardInv
<1> QED BY <1>1, <1>2 DEF Review!CardStep

LEMMA CardNumbers ==
  ASSUME NEW e \in Card
  PROVE  e.measure \in Nat /\ e.addPct \in Nat
<1>1. e.measure \in Measures \cup {0} /\ e.addPct \in Percents \cup {0} BY DEF Card
<1>2. Measures \subseteq Nat /\ Percents \subseteq Nat BY ReviewValues
<1>3. Measures \cup {0} \subseteq Nat /\ Percents \cup {0} \subseteq Nat BY <1>2
<1> QED BY <1>1, <1>3, Zenon

LEMMA CeilCovers ==
  ASSUME NEW n \in Nat, NEW d \in Nat \ {0}
  PROVE  /\ Review!Ceil(n, d) \in Nat /\ d * Review!Ceil(n, d) >= n
         /\ Review!Ceil(n, d) > 0 => d * (Review!Ceil(n, d) - 1) < n
<1> DEFINE u == (n + d - 1) \div d
<1>1. u \in Nat /\ d * u >= n /\ (u > 0 => d * (u - 1) < n) OBVIOUS
<1> QED BY <1>1 DEF Review!Ceil

\* The depth a card shows is the depth it computes with.
LEMMA DepthIsShown ==
  ASSUME NEW r, NEW e \in Card, Review!RowOK(r), IsOffered(r, e), e.depth # 0
  PROVE  Review!DisplayDepth(r, e) = Review!DepthOf(r, e)
BY DEF Review!RowOK, IsOffered, Review!DisplayDepth, Review!DepthOf

LEMMA CoverIsNumber ==
  ASSUME NEW r, NEW e \in Card, Review!RowOK(r)
  PROVE  Review!Covers(r, Review!DepthOf(r, e)) \in [of : Nat \ {0}, per : Nat, compaction : Nat]
<1> DEFINE p == Review!DepthOf(r, e)
<1>1. CASE r.compute = "div" BY <1>1 DEF Review!RowOK, Review!Covers
<1>2. CASE r.compute = "aggregate" BY <1>2 DEF Review!RowOK, Review!Covers
<1>3. CASE r.compute = "yard"
  <2>1. p \in Nat BY <1>3, ReviewValues DEF Review!RowOK, Review!DepthOf, Card
  <2> QED BY <1>3, <2>1 DEF Review!RowOK, Review!Covers
<1> QED BY <1>1, <1>2, <1>3 DEF Review!RowOK

LEMMA NatProducts ==
  ASSUME NEW a \in Nat, NEW b \in Nat, NEW c \in Nat, NEW d \in Nat
  PROVE  a * (100 + b) * c * (100 + d) \in Nat
<1>1. 100 + b \in Nat /\ 100 + d \in Nat OBVIOUS
<1>2. a * (100 + b) \in Nat BY <1>1
<1>3. a * (100 + b) * c \in Nat BY <1>2
<1> QED BY <1>1, <1>3

\* The quotient rounded up, or a whole one and a unit.
LEMMA UnitsCover ==
  ASSUME NEW n \in Nat, NEW d \in Nat \ {0}, NEW above \in BOOLEAN
  PROVE  LET least == Review!Ceil(n, d)
             u == IF above /\ d * least = n THEN least + 1 ELSE least
         IN  d * u >= n /\ (u > 0 => d * (u - 1) < n \/ (d * (u - 1) = n /\ above))
<1> DEFINE least == Review!Ceil(n, d)
<1>1. least \in Nat /\ d * least >= n /\ (least > 0 => d * (least - 1) < n) BY CeilCovers
<1> HIDE DEF least
<1>2. CASE above /\ d * least = n
  <2>1. (least + 1) - 1 = least /\ d * (least + 1) = d * least + d BY <1>1
  <2>2. d * least \in Nat BY <1>1
  <2>3. d * (least + 1) >= n /\ d * ((least + 1) - 1) = n BY <1>2, <2>1, <2>2
  <2> QED BY <1>2, <2>3 DEF least
<1>3. CASE ~(above /\ d * least = n) BY <1>1, <1>3 DEF least
<1> QED BY <1>2, <1>3

LEMMA CardsCover ==
  ASSUME CardInv PROVE OrdersCover
<1> SUFFICES ASSUME NEW m \in DOMAIN rows, Review!EntryOf(m).depth # 0
             PROVE  LET r == rows[m]
                        e == Review!EntryOf(m)
                        c == Review!Covers(r, Review!DisplayDepth(r, e))
                        units == Review!Units(r, e)
                        less == Review!UnitOf(c) * (units - 1)
                    IN  /\ Review!UnitOf(c) * units >= Review!Need(e, c)
                        /\ units > 0 => less < Review!Need(e, c) \/ (less = Review!Need(e, c) /\ Review!Overshoots(e, c))
  BY DEF OrdersCover, Review!OrdersCover
<1> DEFINE r == rows[m]
           e == Review!EntryOf(m)
           c == Review!Covers(r, Review!DepthOf(r, e))
           need == Review!Need(e, c)
           unit == Review!UnitOf(c)
           above == Review!Overshoots(e, c)
           units == Review!Units(r, e)
<1>1. e \in Card /\ (e.depth # None => m \in DOMAIN inputs /\ e = inputs[m])
  BY DEF CardInv, Review!EntryOf, Review!NoInput, Card
<1>2. Review!RowOK(r) BY CardsAssumption DEF CardInv, Review!CardsAgree
<1>3. IsOffered(r, e) BY <1>1 DEF CardInv, IsOffered
<1>4. c = Review!Covers(r, Review!DisplayDepth(r, e)) BY <1>1, <1>2, <1>3, DepthIsShown
<1>5. c \in [of : Nat \ {0}, per : Nat, compaction : Nat] BY <1>1, <1>2, CoverIsNumber
<1>6. need \in Nat
  <2>1. e.measure \in Nat /\ e.addPct \in Nat /\ c.per \in Nat /\ c.compaction \in Nat BY <1>1, <1>5, CardNumbers
  <2>2. need = e.measure * (100 + e.addPct) * c.per * (100 + c.compaction) BY DEF Review!Need
  <2> HIDE DEF c, e, need
  <2> QED BY <2>1, <2>2, NatProducts
<1>7. unit \in Nat \ {0}
  <2>1. c.of \in Nat \ {0} BY <1>5
  <2> HIDE DEF c
  <2> QED BY <2>1 DEF Review!UnitOf
<1>8. above \in BOOLEAN BY DEF Review!Overshoots
<1>9. units = IF above /\ unit * Review!Ceil(need, unit) = need THEN Review!Ceil(need, unit) + 1 ELSE Review!Ceil(need, unit)
  BY DEF Review!Units
<1> HIDE DEF c, units, need, unit, above
<1>10. unit * units >= need /\ (units > 0 => unit * (units - 1) < need \/ (unit * (units - 1) = need /\ above))
  BY <1>6, <1>7, <1>8, <1>9, UnitsCover
<1> QED BY <1>4, <1>10 DEF units, need, unit, above

-----------------------------------------------------------------------------
(* The scenes side by side *)

LEMMA CellStays ==
  ASSUME CellInv, UNCHANGED <<estimate, openEstimate, patches, draft, touched>>,
         mishaps' \in {mishaps, mishaps + 1}
  PROVE  CellInv'
<1>1. mishaps \in Nat /\ mishaps' \in Nat /\ (mishaps' = 0 => mishaps = 0) BY DEF CellInv, TabTypeOK
<1>2. TabTypeOK' BY <1>1 DEF CellInv, TabTypeOK
<1> QED BY <1>1, <1>2 DEF CellInv, Untouched, OnItsWay, Carries

LEMMA PaidStays ==
  ASSUME PaidInv, UNCHANGED Tab!panelVars
  PROVE  PaidInv'
BY DEF PaidInv, PanelTypeOK, OneShown, PaidAs, Busy, Newest, Tab!panelVars

LEMMA CardStays ==
  ASSUME CardInv, UNCHANGED <<rows, inputs>>
  PROVE  CardInv'
BY DEF CardInv, IsOffered

LEMMA ScanFrame ==
  ASSUME Tab!ScanStep, mishaps \in Nat
  PROVE  /\ UNCHANGED <<estimate, openEstimate, patches, draft, touched>> /\ UNCHANGED Tab!panelVars
         /\ mishaps' \in {mishaps, mishaps + 1}
BY DEF Tab!ScanStep, Tab!LoadScan, Tab!LoadAnswered, Tab!ChooseScan, Tab!UploadGoesOn, Tab!Confirm, Tab!UploadEnds,
       Tab!UploadFails, Tab!Mishap, Tab!metaVars

LEMMA PatchFrame ==
  ASSUME Tab!PatchStep
  PROVE  UNCHANGED Tab!scanVars /\ UNCHANGED Tab!panelVars
BY DEF Tab!PatchStep, Tab!LeaveCell, Tab!AttachHandOff, Tab!Execute, Tab!Answered, Tab!PatchFails

LEMMA PanelFrame ==
  ASSUME Tab!PanelStep, mishaps \in Nat
  PROVE  /\ UNCHANGED <<estimate, openEstimate, patches, draft, touched>> /\ UNCHANGED Tab!scanVars
         /\ mishaps' \in {mishaps, mishaps + 1}
BY DEF Tab!PanelStep, Tab!CreateDraft, Tab!Order, Tab!Click, Tab!Refetch, Tab!Over, Tab!GiveUp, Tab!Insert, Tab!Guard,
       Tab!Attentive, Tab!Mark, Tab!BreakOff, Tab!Mishap, Tab!scanVars, Tab!metaVars

LEMMA ReviewFrame ==
  /\ Review!TableStep => UNCHANGED <<rows, inputs>>
  /\ Review!CardStep => UNCHANGED <<tableStored, tableLines, typed, keys, failures, sent>>
BY DEF Review!TableStep, Review!CardStep, Review!UpdateLine, Review!PatchRuns, Review!PatchFails, Review!MoveSlider,
       Review!OpenTab, Review!HandleInput, Review!ConfigLoaded, Review!tableVars, Review!cardVars

LEMMA TabStays ==
  ASSUME ScanInv, CellInv, PaidInv, UNCHANGED tab
  PROVE  ScanInv' /\ CellInv' /\ PaidInv'
<1>1. /\ UNCHANGED Tab!scanVars /\ UNCHANGED Tab!panelVars /\ UNCHANGED mishaps
      /\ UNCHANGED <<estimate, openEstimate, patches, draft, touched>>
  BY DEF tab, Tab!scanVars, Tab!panelVars
<1> QED BY <1>1, ScanStays, CellStays, PaidStays

LEMMA MoneyStarts ==
  ASSUME MoneyInit PROVE EntryInv /\ CardInv
<1>1. Tab!Init /\ Review!Init BY DEF MoneyInit
<1>2. ScanInv
  <2>1. onFile \in Seq(Scans)
    <3>1. \A s \in Scans : <<s>> \in Seq(Scans) OBVIOUS
    <3>2. <<>> \in Seq(Scans) OBVIOUS
    <3> QED BY <1>1, <3>1, <3>2 DEF Tab!Init
  <2>2. uploads = <<>> /\ uploads \in Seq([file : Scans, at : UploadAt]) BY <1>1 DEF Tab!Init
  <2>3. \A u \in DOMAIN uploads : FALSE BY <2>2, BodyType
  <2> QED BY <1>1, <2>1, <2>2, <2>3 DEF ScanInv, Tab!Init, Tab!NoScan
<1>3. CellInv
  <2>1. patches = [s \in 1..2 |-> Tab!NoPatch] /\ \A s \in 1..2 : patches[s] = Tab!NoPatch BY <1>1 DEF Tab!Init
  <2>2. Tab!NoPatch \in Patch /\ Tab!NoPatch.body = <<>> /\ Tab!NoPatch.answer = None
    BY BodyType DEF Tab!NoPatch, Patch
  <2>3. /\ estimate \in Tab!Copy /\ openEstimate = estimate /\ draft = estimate.meta
        /\ estimate.meta = [f \in Blue |-> None]
    BY <1>1, TabValues DEF Tab!Init, Tab!Copy, Held
  <2>4. TabTypeOK BY <1>1, <2>1, <2>2, <2>3, TabValues DEF TabTypeOK, Tab!Init, Patch, Held
  <2>5. \A f \in Blue, s \in 1..2 : ~Carries(s, f) /\ patches[s].answer = None
    BY <2>1, <2>2, BodyType DEF Carries
  <2> QED BY <1>1, <2>3, <2>4, <2>5, TabValues DEF CellInv, Untouched, Tab!Init
<1>4. PaidInv
  <2>1. requests = <<>> /\ jobs = <<>> /\ late = FALSE /\ panel = [w \in {window} |-> Tab!NoPanel] BY <1>1 DEF Tab!Init
  <2>2. Tab!NoPanel \in Panel /\ ~Tab!NoPanel.shows.remote BY DEF Tab!NoPanel, Tab!Unasked, Panel, Shown
  <2>3. requests \in Seq(Takeoff) /\ jobs \in Seq(Job) /\ DOMAIN requests = {} /\ DOMAIN jobs = {} BY <2>1, BodyType
  <2> QED BY <2>1, <2>2, <2>3 DEF PaidInv, PanelTypeOK, OneShown, Newest
<1>5. KeyInv
  <2>1. Review!NewLine \in [Cells -> CellValues]
    BY DEF Review!NewLine, Cells, CellValues
  <2> QED BY <1>1, <2>1, ReviewValues DEF KeyInv, Review!Init
<1>6. CardInv
  BY <1>1 DEF CardInv, IsOffered, Card, Review!Init, Review!NoInput
<1> QED BY <1>2, <1>3, <1>4, <1>5, <1>6 DEF EntryInv

moneyVars == <<scene, yearVars, bid, tab, review>>

LEMMA MoneySteps ==
  ASSUME EntryInv, CardInv, [MoneyNext]_moneyVars
  PROVE  EntryInv' /\ CardInv'
<1> USE DEF EntryInv
<1>0. mishaps \in Nat BY DEF CellInv, TabTypeOK
<1>1. CASE UNCHANGED tab /\ UNCHANGED review
  BY <1>1, TabStays, KeyStays, CardStays DEF review
<1>2. ASSUME UNCHANGED review, Tab!ScanStep PROVE EntryInv' /\ CardInv'
  <2>1. KeyInv' /\ CardInv' BY <1>2, KeyStays, CardStays DEF review
  <2> QED BY <1>0, <1>2, <2>1, ScanSteps, ScanFrame, CellStays, PaidStays
<1>3. ASSUME UNCHANGED review, Tab!PatchStep PROVE EntryInv' /\ CardInv'
  <2>1. KeyInv' /\ CardInv' BY <1>3, KeyStays, CardStays DEF review
  <2> QED BY <1>3, <2>1, CellSteps, PatchFrame, ScanStays, PaidStays
<1>4. ASSUME UNCHANGED review, Tab!PanelStep PROVE EntryInv' /\ CardInv'
  <2>1. KeyInv' /\ CardInv' BY <1>4, KeyStays, CardStays DEF review
  <2> QED BY <1>0, <1>4, <2>1, PaidSteps, PanelFrame, CellStays, ScanStays
<1>5. ASSUME UNCHANGED tab, Review!TableStep PROVE EntryInv' /\ CardInv'
  BY <1>5, TabStays, KeySteps, ReviewFrame, CardStays
<1>6. ASSUME UNCHANGED tab, Review!CardStep PROVE EntryInv' /\ CardInv'
  BY <1>6, TabStays, CardSteps, ReviewFrame, KeyStays
<1>7. HandOff => Tab!PatchStep BY DEF HandOff, Tab!PatchStep
<1> QED BY <1>1, <1>2, <1>3, <1>4, <1>5, <1>6, <1>7 DEF MoneyNext, moneyVars

\* What was typed into the takeoff tab and the discrepancy review is what is stored, and a
\* window pays for one takeoff, once, but for orders that cross or break off.  Code: TakeoffTab, BeamTakeoffPanel and TakeoffReview.
THEOREM EntriesHold == MoneySpec => []EntriesAreStored
<1>1. MoneyInit => EntryInv /\ CardInv BY MoneyStarts
<1>2. EntryInv /\ CardInv /\ [MoneyNext]_moneyVars => (EntryInv /\ CardInv)' BY MoneySteps
<1>3. EntryInv => EntriesAreStored
  <2>1. PaidInv => Tab!OneTakeoffPaid BY PaidIsOne
  <2>2. None \notin {"Saved to estimate"} BY MoneyAssumption DEF Tab!TabAssumption
  <2> QED BY <2>1, <2>2, SavedIsOnFile, TypedIsStored, KeystrokesAreStored DEF EntryInv, EntriesAreStored
<1> QED BY <1>1, <1>2, <1>3, PTL DEF MoneySpec, moneyVars

\* An order covers the measurement with its waste, by less than a unit, or by one where the
\* doubles end above a whole quotient, at the depth that its card shows.  Code: FORMULA_ENGINE and MaterialCard.
THEOREM OrdersHold == MoneySpec => []OrdersCover
<1>1. MoneyInit => EntryInv /\ CardInv BY MoneyStarts
<1>2. EntryInv /\ CardInv /\ [MoneyNext]_moneyVars => (EntryInv /\ CardInv)' BY MoneySteps
<1>3. CardInv => OrdersCover BY CardsCover
<1> QED BY <1>1, <1>2, <1>3, PTL DEF MoneySpec, moneyVars
=============================================================================
