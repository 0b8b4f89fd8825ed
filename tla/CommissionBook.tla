--------------------------- MODULE CommissionBook ---------------------------
(***************************************************************************)
(* What the commission ledger of one estimate promises: every operation of *)
(* commission_service.py as ONE step on the committed rows.  UNIQUE        *)
(* (estimate_id) allows one commissions row per estimate, so one book is   *)
(* one commissions row and its commission_installments rows.               *)
(* CommissionService shows that the locking transactions implement this.   *)
(***************************************************************************)
EXTENDS Naturals

CONSTANTS
    Installment,    \* the installment numbers of the payout schedule
    Built           \* the rows build_installment_rows returns for the schedule

RowStatus == {"absent", "scheduled", "pending_billing_data", "paid", "cancelled"}

\* One commission_installments row; known: its amount_cents is not NULL.
Row == [status : RowStatus, known : BOOLEAN]

Absent == [status |-> "absent", known |-> FALSE]

\* A row as it is inserted: scheduled rows carry an amount, pending ones may.
BuiltRow == {r \in Row : \/ r.status = "scheduled" /\ r.known
                         \/ r.status = "pending_billing_data"}

ASSUME BuiltAssumption ==
    /\ Installment # {}
    /\ Built \in [Installment -> BuiltRow]

CommissionStatus == {"none", "approved", "paid", "cancelled"}

VARIABLES
    commission,     \* status of the commissions row, "none" before it exists
    inst,           \* the commission_installments rows
    closedAt,       \* how often the commission's paid_at was written
    paidAt          \* how often each installment's paid_at was written

bookVars == <<commission, inst, closedAt, paidAt>>

TypeOK ==
    /\ commission \in CommissionStatus
    /\ inst \in [Installment -> Row]
    /\ closedAt \in Nat
    /\ paidAt \in [Installment -> Nat]

-----------------------------------------------------------------------------
(* Helpers on rows, shared with CommissionService.                          *)

Present(r) == r.status # "absent"

Settled(r) == r.status \in {"paid", "cancelled"}

\* unpayable_reason: the row (with its parent's status) that mark-paid 409s.
Unpayable(r, parent) ==
    \/ r.status = "cancelled"
    \/ parent = "cancelled"
    \/ r.status = "pending_billing_data"
    \/ ~r.known

\* UPDATE ... SET status = 'paid' WHERE status NOT IN ('paid', 'cancelled')
PaidRow(r) == IF Present(r) /\ ~Settled(r) THEN [r EXCEPT !.status = "paid"] ELSE r

\* Mutant of CancelledRow: every row.
CancelledIfPresent(r) == IF Present(r) THEN [r EXCEPT !.status = "cancelled"] ELSE r

\* UPDATE ... SET status = 'cancelled' WHERE status != 'paid'
CancelledRow(r) == IF Present(r) /\ r.status # "paid"
                   THEN [r EXCEPT !.status = "cancelled"] ELSE r

\* Rows whose paid_at the move from old to new writes.
Stamped(count, old, new) ==
    [i \in Installment |-> IF new[i].status = "paid" /\ old[i].status # "paid"
                           THEN count[i] + 1 ELSE count[i]]

AllPaid(rows) == \A i \in Installment : Present(rows[i]) => rows[i].status = "paid"

-----------------------------------------------------------------------------

\* Before the won estimate has a commission, or a commission written before
\* installments existed and whose estimate type has no payout schedule.
Init ==
    /\ commission \in {"none", "approved"}
    /\ inst = [i \in Installment |-> Absent]
    /\ closedAt = 0
    /\ paidAt = [i \in Installment |-> 0]

Create ==
    /\ commission = "none"
    /\ commission' = "approved"
    /\ inst' = Built
    /\ UNCHANGED <<closedAt, paidAt>>

\* The billing feed (or an accountant) fills in the amount of a pending row.
BillingDataKnown(i) ==
    /\ inst[i].status = "pending_billing_data"
    /\ inst' = [inst EXCEPT ![i] = [status |-> "scheduled", known |-> TRUE]]
    /\ UNCHANGED <<commission, closedAt, paidAt>>

PayInstallment(i) ==
    /\ commission \in {"approved", "paid"}
    /\ inst[i].status = "scheduled"
    /\ inst' = [inst EXCEPT ![i].status = "paid"]
    /\ paidAt' = [paidAt EXCEPT ![i] = @ + 1]
    /\ IF AllPaid(inst') /\ commission = "approved"
       THEN commission' = "paid" /\ closedAt' = closedAt + 1
       ELSE UNCHANGED <<commission, closedAt>>

PayCommission ==
    /\ commission = "approved"
    /\ \A i \in Installment : Present(inst[i]) => ~Unpayable(inst[i], commission)
    /\ commission' = "paid"
    /\ inst' = [i \in Installment |-> PaidRow(inst[i])]
    /\ closedAt' = closedAt + 1
    /\ paidAt' = Stamped(paidAt, inst, inst')

Cancel ==
    /\ commission \in {"approved", "paid"}
    /\ commission' = "cancelled"
    /\ inst' = [i \in Installment |-> CancelledRow(inst[i])]
    /\ UNCHANGED <<closedAt, paidAt>>

Next ==
    \/ Create
    \/ PayCommission
    \/ Cancel
    \/ \E i \in Installment : BillingDataKnown(i) \/ PayInstallment(i)

Spec == Init /\ [][Next]_bookVars

-----------------------------------------------------------------------------
(* The promises of the book.                                                *)

\* A commission is never half written: it has its whole schedule, or (from
\* before installments existed) none, and no row without a commission.
\* Code: _persist_won_commission's one transaction.
ScheduleComplete ==
    /\ commission = "none" => \A i \in Installment : ~Present(inst[i])
    /\ \/ \A i \in Installment : Present(inst[i])
       \/ \A i \in Installment : ~Present(inst[i])

\* The parent is closed exactly with its last installment: an open commission
\* with a schedule has an unpaid row, a paid one has none.
\* Code: _close_if_all_paid, called by both mark-paid operations.
ClosedWithLastInstallment ==
    /\ commission = "paid" => AllPaid(inst)
    /\ commission = "approved" =>
          \/ ~AllPaid(inst)
          \/ \A i \in Installment : ~Present(inst[i])

\* Nothing of a lost estimate stays payable: a cancelled commission has only
\* paid and cancelled rows, and rows are cancelled with their commission only.
\* Code: cancel_commission.
CancelledWhole ==
    \A i \in Installment :
        Present(inst[i]) =>
            /\ commission = "cancelled" => Settled(inst[i])
            /\ inst[i].status = "cancelled" => commission = "cancelled"

\* Money leaves once: paid_at of a row is written when it becomes paid and
\* never again ("Already-paid rows keep paid_at").
\* Code: the status guards of the mark-paid UPDATEs.
PaidOnce ==
    /\ \A i \in Installment : paidAt[i] = IF inst[i].status = "paid" THEN 1 ELSE 0
    /\ closedAt <= 1
    /\ commission \in {"none", "approved"} => closedAt = 0
    /\ commission = "paid" => closedAt = 1

\* What every transaction of the service leaves behind: the four together.
\* Code: create_on_won, cancel_commission and the two mark-paid operations.
Promises == ScheduleComplete /\ ClosedWithLastInstallment /\ CancelledWhole /\ PaidOnce
=============================================================================
