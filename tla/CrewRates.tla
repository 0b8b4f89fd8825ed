------------------------------ MODULE CrewRates ------------------------------
(***************************************************************************)
(* Maintenance prices that are computed from the crew rate of a branch.    *)
(*                                                                         *)
(* A line whose kit has a production rate and no catalog price is sold at  *)
(* a price derived from the crew rate.  Nothing marks such a line: editor, *)
(* server and repricing each recognise it by its price, which equals the   *)
(* formula at some rate.  The rate itself is shown and saved by a settings *)
(* form that is optimistic, the server reprices the open drafts when it    *)
(* changes, and an estimate freezes it while it is under review.           *)
(***************************************************************************)
EXTENDS Integers, FiniteSets

CONSTANTS
  Lines,          \* service lines of the estimate
  KindOf,         \* their kit: "hours" (priced from the rate) or "catalog"
  Rates,          \* crew rates, in cents per hour
  NoRate,         \* an unset rate
  Absent, Blank,  \* no such line; a line without a price
  CatalogSell, ProductionRate, TargetGm,   \* of the kits, the margin in percent
  FirstRates,     \* rates the branch starts with
  FirstRows,      \* prices the lines start with
  Overlap,        \* whether the server works on several requests at once
  MaxPatches,     \* bound: rate changes
  MaxSaves,       \* bound: saves of the editor
  MaxMishaps      \* bound: requests lost, handlers that die

ASSUME CrewRateAssumption ==
  /\ KindOf \in [Lines -> {"hours", "catalog"}]
  /\ Rates \subseteq Nat \ {0} /\ NoRate \notin Rates /\ FirstRates \subseteq Rates \cup {NoRate}
  /\ ProductionRate \in Nat \ {0} /\ TargetGm \in 0..99
  /\ CatalogSell \in Nat \ {0} /\ {Absent, Blank} \cap Nat = {} /\ Absent # Blank
  /\ FirstRows \subseteq [Lines -> Nat \cup {Absent, Blank}] /\ Overlap \in BOOLEAN

VARIABLES
  rate,     \* branch_settings.crew_rate_cents_per_hour
  est,      \* the estimate, up to its first review: status, frozen rate
  row,      \* section_services: the price of each line
  madeBy,   \* ghost: what the server took each price for when it was stored
  patches,  \* PATCHes of the rate, from the click to the answer
  form,     \* the branch settings as the settings page has them
  ed,       \* the maintenance editor
  died,     \* ghost: a PATCH stopped half-way
  saves, mishaps

server == <<rate, est, row, madeBy>>
vars == <<server, patches, form, ed, died, saves, mishaps>>

Ids == 1..MaxPatches
Open == {"queued", "in_progress"}

-----------------------------------------------------------------------------
(* Prices                                                                    *)

\* Math.round of a / b, for naturals.
Round(a, b) == (2 * a + b) \div (2 * b)

\* sellRateCentsPer1000Sf: the cost of 1,000 SF at the rate, marked up to the kit's margin.
Sell(r) == Round(1000 * r * 100, ProductionRate * (100 - TargetGm))

\* maintenanceRowsFromServiceKits and catalogServiceLine: the price of a new line.
NewPrice(l, r) ==
  IF KindOf[l] = "catalog" THEN CatalogSell ELSE IF r = NoRate THEN Blank ELSE Sell(r)

\* useResolvedCrewRate: the frozen rate, else the one of the branch, else none.
Resolved(snapshot, live) == IF snapshot # NoRate THEN snapshot ELSE live

\* apply_maintenance_crew_prices: what the server makes of a submitted price.
Computed(l, price) ==
  KindOf[l] = "hours" /\ IF rate = NoRate THEN FALSE ELSE price \in {Blank, Sell(rate)}
Refused(l, price) == KindOf[l] = "hours" /\ rate = NoRate /\ price = Blank

\* Mutant of UnsavedDerived: rows that are stored already are looked at, too.
AnyDerived(saved, draft, live) ==
  {l \in Lines : /\ KindOf[l] = "hours" /\ draft[l] # Absent
                 /\ draft[l] \in {Blank} \cup (IF live = NoRate THEN {} ELSE {Sell(live)})}

\* unsavedCrewRateDerivedLines: the lines an unnamed refusal is about.
UnsavedDerived(saved, draft, live) ==
  {l \in Lines : /\ saved[l] = Absent /\ draft[l] # Absent /\ KindOf[l] = "hours"
                 /\ draft[l] \in {Blank} \cup (IF live = NoRate THEN {} ELSE {Sell(live)})}

-----------------------------------------------------------------------------

NoOne == [new |-> NoRate, before |-> NoRate, prior |-> NoRate, at |-> "idle", todo |-> {}]
Closed == [open |-> FALSE, snap |-> NoRate, live |-> NoRate,
           draft |-> [l \in Lines |-> Absent], saved |-> [l \in Lines |-> Absent],
           touched |-> {}, sent |-> {}, busy |-> FALSE, marked |-> {}, error |-> FALSE]

Init ==
  /\ rate \in FirstRates /\ row \in FirstRows
  /\ est = [status |-> "queued", snap |-> rate]
  /\ madeBy = [l \in Lines |->
       IF KindOf[l] = "hours" /\ rate # NoRate /\ row[l] = Sell(rate) THEN "rate" ELSE "hand"]
  /\ patches = [i \in Ids |-> NoOne] /\ form = [shown |-> rate, fetch |-> "none", got |-> NoRate]
  /\ ed = Closed /\ died = FALSE /\ saves = 0 /\ mishaps = 0

Serving(i) == patches[i].at \notin {"idle", "sent", "done", "failed", "settled"}
Idle == Overlap \/ ((\A i \in Ids : ~Serving(i)) /\ ~ed.busy /\ ed.sent = {})
Step(i, f, x) == patches' = [patches EXCEPT ![i] = [@ EXCEPT !.at = f, !.todo = x]]
Answer(i, f) == patches' = [patches EXCEPT ![i] = [NoOne EXCEPT !.at = f, !.before = patches[i].before]]
Settle(i) == patches' = [patches EXCEPT ![i] = [NoOne EXCEPT !.at = "settled"]]

-----------------------------------------------------------------------------
(* The settings form                                                         *)

\* onSubmit and onMutate: the cache shows the new rate before the server has it.  The
\* fields are keyed by that rate, so they start afresh and can be saved again at once.
SubmitRate(i, n) ==
  /\ patches[i].at = "idle" /\ \A j \in Ids : j < i => patches[j].at # "idle"
  /\ n # form.shown
  /\ patches' = [patches EXCEPT ![i] = [NoOne EXCEPT !.new = n, !.before = form.shown, !.at = "sent"]]
  /\ form' = [form EXCEPT !.shown = n, !.fetch = "none", !.got = NoRate]
  /\ UNCHANGED <<server, ed, died, saves, mishaps>>

\* onSuccess and onSettled: the settings are fetched again.
Succeed(i) ==
  /\ patches[i].at = "done"
  /\ Settle(i) /\ form' = [form EXCEPT !.fetch = "asked"]
  /\ UNCHANGED <<server, ed, died, saves, mishaps>>

\* Mutant of Fail: the rollback alone, without the refetch.
FailQuietly(i) ==
  /\ patches[i].at = "failed"
  /\ Settle(i)
  /\ form' = [form EXCEPT !.shown = patches[i].before]
  /\ UNCHANGED <<server, ed, died, saves, mishaps>>

\* onError and onSettled: what was shown before the click, then the settings again.
Fail(i) ==
  /\ patches[i].at = "failed"
  /\ Settle(i)
  /\ form' = [form EXCEPT !.shown = patches[i].before, !.fetch = "asked"]
  /\ UNCHANGED <<server, ed, died, saves, mishaps>>

ServeSettings ==
  /\ form.fetch = "asked" /\ form' = [form EXCEPT !.fetch = "read", !.got = rate]
  /\ UNCHANGED <<server, patches, ed, died, saves, mishaps>>
ShowSettings ==
  /\ form.fetch = "read" /\ form' = [form EXCEPT !.fetch = "none", !.shown = form.got, !.got = NoRate]
  /\ UNCHANGED <<server, patches, ed, died, saves, mishaps>>

-----------------------------------------------------------------------------
(* PATCH of the branch                                                       *)

ReadPrior(i) ==
  /\ patches[i].at = "sent" /\ Idle
  /\ patches' = [patches EXCEPT ![i].at = "prior", ![i].prior = rate]
  /\ UNCHANGED <<server, form, ed, died, saves, mishaps>>

\* The upsert; the drafts are repriced only if there was another rate before.
Upsert(i) ==
  /\ patches[i].at = "prior"
  /\ rate' = patches[i].new
  /\ IF patches[i].prior \in {NoRate, patches[i].new} THEN Answer(i, "done") ELSE Step(i, "select", {})
  /\ UNCHANGED <<est, row, madeBy, form, ed, died, saves, mishaps>>

\* Mutant of SelectDrafts: the estimates under review are selected as well.
SelectAll(i) ==
  /\ patches[i].at = "select"
  /\ Step(i, "reprice", {l \in Lines : KindOf[l] = "hours" /\ row[l] = Sell(patches[i].prior)})
  /\ UNCHANGED <<server, form, ed, died, saves, mishaps>>

\* reprice_open_drafts: the lines of an open draft that are sold at the formula's old price.
SelectDrafts(i) ==
  /\ patches[i].at = "select"
  /\ Step(i, "reprice",
       IF est.status \notin Open THEN {}
       ELSE {l \in Lines : KindOf[l] = "hours" /\ row[l] = Sell(patches[i].prior)})
  /\ UNCHANGED <<server, form, ed, died, saves, mishaps>>

\* One UPDATE per line, by its id.
RepriceLine(i) ==
  /\ patches[i].at = "reprice"
  /\ \E l \in patches[i].todo :
       /\ row' = [row EXCEPT ![l] = IF @ = Absent THEN @ ELSE Sell(patches[i].new)]
       /\ Step(i, "reprice", patches[i].todo \ {l})
  /\ UNCHANGED <<rate, est, madeBy, form, ed, died, saves, mishaps>>

\* History, audit line and answer.
Finish(i) ==
  /\ patches[i].at = "reprice" /\ patches[i].todo = {} /\ Answer(i, "done")
  /\ UNCHANGED <<server, form, ed, died, saves, mishaps>>

\* The request does not arrive, the handler dies between two statements, the answer is lost.
Mishap(i) ==
  /\ mishaps < MaxMishaps /\ (patches[i].at \in {"sent", "done"} \/ Serving(i))
  /\ Answer(i, "failed") /\ died' = (died \/ patches[i].at \in {"select", "reprice"})
  /\ mishaps' = mishaps + 1
  /\ UNCHANGED <<server, form, ed, saves>>

-----------------------------------------------------------------------------
(* The estimate                                                              *)

\* PATCH of the status.  in_progress gives the frozen rate up; a review freezes the
\* rate of the branch unless one is frozen already.
Start ==
  /\ Idle /\ est.status = "queued"
  /\ est' = [status |-> "in_progress", snap |-> NoRate]
  /\ UNCHANGED <<rate, row, madeBy, patches, form, ed, died, saves, mishaps>>

Submit ==
  /\ Idle /\ est.status = "in_progress"
  /\ est' = [status |-> "pending_approval", snap |-> IF est.snap # NoRate THEN est.snap ELSE rate]
  /\ UNCHANGED <<rate, row, madeBy, patches, form, ed, died, saves, mishaps>>

-----------------------------------------------------------------------------
(* The editor                                                                *)

OpenEditor ==
  /\ ~ed.open /\ ed.sent = {}
  /\ ed' = [Closed EXCEPT !.open = TRUE, !.snap = est.snap, !.draft = row, !.saved = row]
  /\ UNCHANGED <<server, patches, form, died, saves, mishaps>>

\* useBranchSettings of the editor: only asked when the estimate holds no frozen rate.
ReadLive ==
  /\ ed.open /\ ed.snap = NoRate /\ ed.live # rate
  /\ ed' = [ed EXCEPT !.live = rate]
  /\ UNCHANGED <<server, patches, form, died, saves, mishaps>>

Edit(l, price) ==
  ed' = [ed EXCEPT !.draft[l] = price, !.touched = @ \cup {l}]

\* handleAddOptionalService
AddLine(l) ==
  /\ ed.open /\ ~ed.busy /\ ed.draft[l] = Absent /\ ed.saved[l] = Absent
  /\ Edit(l, NewPrice(l, Resolved(ed.snap, ed.live)))
  /\ UNCHANGED <<server, patches, form, died, saves, mishaps>>

\* A cell of the line other than its price, which no cell shows for editing.
TouchLine(l) ==
  /\ ed.open /\ ~ed.busy /\ ed.draft[l] # Absent /\ l \notin ed.touched
  /\ Edit(l, ed.draft[l])
  /\ UNCHANGED <<server, patches, form, died, saves, mishaps>>

\* handleRemoveService
RemoveLine(l) ==
  /\ ed.open /\ ~ed.busy /\ ed.draft[l] # Absent
  /\ Edit(l, Absent)
  /\ UNCHANGED <<server, patches, form, died, saves, mishaps>>

\* handleSave: a request for each line that changed, its price included.
Save ==
  /\ ed.open /\ ~ed.busy /\ saves < MaxSaves /\ ed.sent = {} /\ Idle
  /\ ed' = [ed EXCEPT !.busy = TRUE, !.error = FALSE, !.marked = {},
                      !.sent = {l \in ed.touched : ~(ed.draft[l] = Absent /\ ed.saved[l] = Absent)}]
  /\ saves' = saves + 1
  /\ UNCHANGED <<server, patches, form, died, mishaps>>

\* create_service, update_service, delete_service
Stored(l) ==
  IF Computed(l, ed.draft[l]) THEN Sell(rate) ELSE ed.draft[l]

StoreLine(l) ==
  /\ l \in ed.sent /\ ~Refused(l, ed.draft[l])
  /\ row' = [row EXCEPT ![l] = Stored(l)]
  /\ madeBy' = [madeBy EXCEPT ![l] =
       IF ~Computed(l, ed.draft[l]) THEN "hand" ELSE IF est.status \in Open THEN "rate" ELSE "late"]
  /\ ed' = [ed EXCEPT !.sent = @ \ {l}]
  /\ UNCHANGED <<rate, est, patches, form, died, saves, mishaps>>

\* 422 crew_rate_required: a stored line is named, a new one is not.
RefuseLine(l) ==
  /\ l \in ed.sent /\ Refused(l, ed.draft[l])
  /\ ed' = [ed EXCEPT !.sent = @ \ {l}, !.busy = FALSE, !.error = ed.open,
       !.marked = IF ed.busy
                  THEN IF ed.saved[l] # Absent THEN {l}
                       ELSE UnsavedDerived(ed.saved, ed.draft, ed.live)
                  ELSE @]
  /\ UNCHANGED <<server, patches, form, died, saves, mishaps>>

\* The estimate is loaded again after the last answer.
Reload ==
  /\ ed.busy /\ ed.sent = {}
  /\ ed' = [Closed EXCEPT !.open = TRUE, !.snap = est.snap, !.live = ed.live,
                          !.draft = row, !.saved = row]
  /\ UNCHANGED <<server, patches, form, died, saves, mishaps>>

CloseEditor ==
  /\ ed.open /\ ed.sent = {} /\ ed' = Closed
  /\ UNCHANGED <<server, patches, form, died, saves, mishaps>>

Next ==
  \/ \E i \in Ids :
       \/ \E n \in Rates : SubmitRate(i, n)
       \/ Succeed(i) \/ Fail(i) \/ ReadPrior(i) \/ Upsert(i) \/ SelectDrafts(i)
       \/ RepriceLine(i) \/ Finish(i) \/ Mishap(i)
  \/ ServeSettings \/ ShowSettings
  \/ Start \/ Submit
  \/ OpenEditor \/ ReadLive \/ Save \/ Reload \/ CloseEditor
  \/ \E l \in Lines : AddLine(l) \/ TouchLine(l) \/ RemoveLine(l) \/ StoreLine(l) \/ RefuseLine(l)

Spec == Init /\ [][Next]_vars

-----------------------------------------------------------------------------
(* Properties                                                                *)

Settled == \A i \in Ids : ~Serving(i)

\* A price the server computed is, once no repricing runs, the one of the branch's
\* rate while the estimate is open, and of its frozen rate, the one the margin panel
\* costs it with, while it is under review, for
\* lines saved before the review and PATCHes that ran to their end.
PricesFollowRate ==
  Settled /\ ~died =>
    \A l \in Lines : madeBy[l] = "rate" =>
      row[l] = Sell(IF est.status \in Open THEN rate ELSE Resolved(est.snap, rate))

\* The lines an editor marks after a refused save are lines of that save which have
\* no price of their own and need the rate, and there is at least one.
MarkedAreRefused ==
  [][~ed.error /\ ed'.error =>
       /\ ed'.marked # {}
       /\ \A l \in ed'.marked :
            KindOf[l] = "hours" /\ l \in ed.touched /\ ed.draft[l] = Blank]_vars

\* When no save and no fetch is on its way, the settings page shows the stored rate,
\* whatever was rolled back in between.
FormShowsStored ==
  (\A i \in Ids : patches[i].at \in {"idle", "settled"}) /\ form.fetch = "none" => form.shown = rate
=============================================================================
