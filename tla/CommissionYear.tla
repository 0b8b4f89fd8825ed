---------------------------- MODULE CommissionYear ----------------------------
(***************************************************************************)
(* Pricing a sales rep's installs over the calendar years.  A won install  *)
(* is priced on the rate ladder above what the rep has sold this year; the *)
(* background task reads that sum, and inserts the commission in another   *)
(* transaction later.  Money is in cents, rates in 1/RateUnit.             *)
(***************************************************************************)
EXTENDS Integers, FiniteSetsExt

CONSTANTS
    Deal,           \* install estimates of one rep
    Value,          \* contract_value_cents of each
    Tiers,          \* the plan's rules: [min, max, rate], max exclusive
    NoCeiling,      \* tier_max_cents IS NULL
    RateUnit,       \* rates are multiples of 1/RateUnit
    MaxTasks,       \* create_on_won tasks that may run at the same time
    LastYear        \* bound on the years played through

ASSUME YearAssumption ==
    /\ IsFiniteSet(Deal) /\ Value \in [Deal -> Nat]
    /\ IsFiniteSet(Tiers) /\ RateUnit \in Nat \ {0}
    /\ \A t \in Tiers : t.min \in Nat /\ t.rate \in Nat /\ t.max \in Nat \cup {NoCeiling}
    /\ NoCeiling \notin Nat
    /\ MaxTasks \in Nat \ {0} /\ LastYear \in Nat

VARIABLES
    year,       \* the calendar year in America/New_York
    ledger,     \* the commissions row of each deal
    quote       \* what the running task of each deal has computed

yearVars == <<year, ledger, quote>>

Sold == {"none", "open", "cancelled"}

Year == 0..LastYear

\* closeYear is a history field: the year the task priced the deal for.
Entry == [status : Sold, year : Year, closeYear : Year, amount : Nat]

Quote == [running : BOOLEAN, before : Nat, amount : Nat, closeYear : Year]

Unsold == [status |-> "none", year |-> 0, closeYear |-> 0, amount |-> 0]

NoQuote == [running |-> FALSE, before |-> 0, amount |-> 0, closeYear |-> 0]

YearTypeOK ==
    /\ year \in Year
    /\ ledger \in [Deal -> Entry]
    /\ quote \in [Deal -> Quote]

-----------------------------------------------------------------------------

Least(a, b) == IF a <= b THEN a ELSE b
Most(a, b) == IF a <= b THEN b ELSE a

\* A mutant of Slice: each tier counted from its floor.
SliceFromFloor(tier, start, end) ==
    LET hi == IF tier.max = NoCeiling THEN end ELSE Least(end, tier.max)
    IN  IF hi > tier.min THEN hi - tier.min ELSE 0

\* Cents of start..end-1 that fall into a tier.
Slice(tier, start, end) ==
    LET lo == Most(start, tier.min)
        hi == IF tier.max = NoCeiling THEN end ELSE Least(end, tier.max)
    IN  IF hi > lo THEN hi - lo ELSE 0

\* Decimal ROUND_HALF_UP of n / RateUnit.
RoundHalfUp(n) == (2 * n + RateUnit) \div (2 * RateUnit)

\* marginal_amount_cents before rounding, in 1/RateUnit cents.
Marginal(before, deal) ==
    MapThenSumSet(LAMBDA tier : Slice(tier, before, before + deal) * tier.rate, Tiers)

ValueOf(deals) == MapThenSumSet(LAMBDA d : Value[d], deals)

AmountOf(deals) == MapThenSumSet(LAMBDA d : ledger[d].amount, deals)

\* The deals _PRIOR_INSTALL_SQL sums up.
Counted(y) == {d \in Deal : ledger[d].status = "open" /\ ledger[d].year = y}

-----------------------------------------------------------------------------

YearInit ==
    /\ year = 0
    /\ ledger = [d \in Deal |-> Unsold]
    /\ quote = [d \in Deal |-> NoQuote]

Running == {d \in Deal : quote[d].running}

\* Mutant of Price: the revenue of all years is counted.
PriceOnAllYears(d) ==
    /\ ~quote[d].running
    /\ Cardinality(Running) < MaxTasks
    /\ LET before == ValueOf({x \in Deal : ledger[x].status = "open"} \ {d}) IN
       quote' = [quote EXCEPT ![d] =
                    [running |-> TRUE, before |-> before, closeYear |-> year,
                     amount |-> RoundHalfUp(Marginal(before, Value[d]))]]
    /\ UNCHANGED <<year, ledger>>

\* create_on_won up to the transaction: the year, the prior sum, the amount.
\* A second won of a deal that has its commission is priced too.
Price(d) ==
    /\ ~quote[d].running
    /\ Cardinality(Running) < MaxTasks
    /\ LET before == ValueOf(Counted(year) \ {d}) IN
       quote' = [quote EXCEPT ![d] =
                    [running |-> TRUE, before |-> before, closeYear |-> year,
                     amount |-> RoundHalfUp(Marginal(before, Value[d]))]]
    /\ UNCHANGED <<year, ledger>>

\* _persist_won_commission: INSERT IGNORE, stamped with the time it runs.
Insert(d) ==
    /\ quote[d].running
    /\ ledger' = IF ledger[d].status = "none"
                 THEN [ledger EXCEPT ![d] =
                          [status |-> "open", year |-> year,
                           closeYear |-> quote[d].closeYear, amount |-> quote[d].amount]]
                 ELSE ledger
    /\ quote' = [quote EXCEPT ![d] = NoQuote]
    /\ UNCHANGED year

CancelDeal(d) ==
    /\ ledger[d].status = "open"
    /\ ledger' = [ledger EXCEPT ![d].status = "cancelled"]
    /\ UNCHANGED <<year, quote>>

NewYear ==
    /\ year < LastYear
    /\ year' = year + 1
    /\ UNCHANGED <<ledger, quote>>

YearNext ==
    \/ \E d \in Deal : Price(d) \/ Insert(d) \/ CancelDeal(d)
    \/ NewYear

YearSpec == YearInit /\ [][YearNext]_yearVars

-----------------------------------------------------------------------------

\* The rate of the one cent number c of a year's revenue.
RateAt(c) ==
    MapThenSumSet(LAMBDA t : t.rate,
                  {t \in Tiers : t.min <= c /\ (t.max = NoCeiling \/ c < t.max)})

\* Every amount is the sum over the deal's own cents of the rate each has on the
\* ladder, rounded once: no cent is priced twice, skipped or rounded on its own.
\* Code: marginal_amount_cents ("a 0% band is a real tier").
PricedCentByCent ==
    \A d \in Deal : quote[d].running =>
        LET cents == quote[d].before .. (quote[d].before + Value[d] - 1) IN
        quote[d].amount = RoundHalfUp(MapThenSumSet(RateAt, cents))

\* A year whose deals were priced and inserted within it.
Straight(y) == \A d \in Deal : ledger[d].year = y => ledger[d].closeYear = y

Cancelled(y) == {d \in Deal : ledger[d].status = "cancelled" /\ ledger[d].year = y}

\* Half a cent for each of the deals.
Rounding(deals) == RateUnit * Cardinality(deals)

\* A rep is never paid less for a year's installs than the ladder gives for
\* their sum, in whatever order they were won and others cancelled, and exactly
\* that (up to rounding) when none was cancelled.
\* Code: cumulative_before of _plan_basis; test_cumulative_two_deals_then_year_reset
\* asserts "first + second == 2_400_000" of two deals.
LadderAddsUp ==
    \A y \in Year : Straight(y) =>
        LET deals == Counted(y)
            paid == 2 * RateUnit * AmountOf(deals)
            due == 2 * Marginal(0, ValueOf(deals))
        IN  /\ paid >= due - Rounding(deals)
            /\ Cancelled(y) = {} => paid <= due + Rounding(deals)

\* What a rep is paid for a year is the ladder, deal by deal and in the sum.
LadderIsPaid == PricedCentByCent /\ LadderAddsUp
=============================================================================
