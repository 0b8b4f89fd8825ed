# Juniper Sales CRM: TLA+ models, model checking and proofs

The repository is a sales CRM for a landscaping company: a FastAPI backend
(`src/api`), a MySQL database (`src/sql`, `src/db.py`) and a React single-page
application (`src/studio`).  A lead becomes an estimate; the estimate is edited,
measured by an external takeoff service, approved and handed back, and goes through a
status machine until it is won or lost; a won estimate owes its sales rep a
commission, paid out in installments; a proposal is composed from it and rendered to
PDF; properties and estimates are mirrored in an external CRM, Aspire.

The backend is one process with an `asyncio` event loop.  A request handler or a
background task runs alone until it awaits, and it awaits at every SQL statement
and every HTTP call.  `execute` and `query` (`src/db.py`) commit each statement by
itself; only `transaction()` groups statements.  So **the unit of interleaving on the
server is one SQL statement or one HTTP call**, except inside a transaction, where it
is one lock acquisition and the writes appear at the commit.  In the browser the unit
is one event: a click, a keystroke that matters, an answer.  **A request is at least two
steps, executed and answered**, so that the answer can arrive after the user went on.
This is where the hard behaviour of the system is, and what its tests, which mock
`query`, `execute` and `fetch` and run one handler at a time, cannot reach.

## 1. The components

| Component | State | Operations | What makes it hard | What makes it correct |
|---|---|---|---|---|
| Commission ledger (`commission_service.py`, `commissions.py`) | one `commissions` row per estimate (UNIQUE), its `commission_installments` | `create_on_won`, `cancel_for_estimate`, `mark_installment_paid`, `mark_commission_paid` | row locks taken in different orders, deadlock victims, two payments closing one parent, crash inside a transaction | nothing is paid twice, the parent closes with its last installment, a cancel leaves nothing payable, no commission without a schedule, every request ends |
| Commission pricing (`commission_calc.py`, `_plan_basis`) | the rep's installs of the calendar year | marginal tiers over `cumulative_before`, ROUND_HALF_UP, insert later | the sum is read in one statement and used in another transaction; tier boundaries; New Year | amounts are the ladder, cent by cent, and add up over the year |
| Estimate status lifecycle (`estimating.py`, `transitions.ts`) | `estimates.status`, `lifecycle`, crew-rate snapshot, lead status, audit trail | PATCH, approve-handback, lifecycle toggle, maintenance editor Save | SELECT, guard, unconditional UPDATE; several autocommitted statements; crash in between | every status write is an edge of the machine; the frozen rate is kept or cleared, never restated or lost; records never claim an approval that is not there |
| Closing a sale | in-memory background tasks | PATCH to won or lost schedules `create_on_won` / `cancel_for_estimate` | tasks run after the response, in any order, and are lost in a crash | a commission for won estimates, and for no others |
| Aspire sync (`aspire_sync.py`, `properties.py`, `sweep_once`) | sync status and Aspire id of properties and estimates | property push, opportunity push, status push, retry, sweep | single attempts, lost answers, chained prerequisites, sweep beside tasks | synced rows exist in Aspire, no Opportunity before its Property, no duplicates, everything due gets there |
| Intake forms (`MaintenanceIntakeModal.tsx`, `InstallIntakeModal.tsx`, `create_estimate`) | the form, property, looked-up lead, drafts, files | fill in, look up, create a property, save a draft, submit, upload | late answers, forms that are never reset, a create that dies half way | an estimate the form heard of is whole, one draft, the last one saved |
| Estimate editors (`persistTree.ts`, both editors) | draft tree, baseline, cache, server rows | edit, diff, three batches of requests, reload, toggle, reset | a batch half stored, edits while saving, two editors over one cache | what a save was asked to do is done, the next diff starts from the stored rows |
| Bid money (`install.ts`, `margins.ts`, `calc.ts`, `contract.ts`, `estimating.py`) | lines and what each place computed from them | edit, save, recompute the ITB split | rounding share by share, values memoised by object, splits written late | editor, margin panel, contract and tracker agree |
| Maintenance pricing (`maintenance_pricing.py`, `settings.py`) | unit prices of open drafts, branch rate, snapshot | PATCH of the rate, reprice, editor save, refusal | rows selected first and written later; computed prices recognised by value | prices follow the rate that is in force |
| Beam takeoff (`beam_sync.py`, `beam_routes.py`, `TakeoffInsert.tsx`, `BeamTakeoffPanel.tsx`) | `beam_requests`, `beam_outputs`, sections, the tab's copy | draft, billable generate, callback, ingest, sweep, cells, hand-off | paid calls, callbacks, apply-or-flag, stale copies | an order is placed once; numbers an estimator changed are kept, outdated ones flagged; what was ordered arrives |
| Approval (`approvalReview.ts`, queue, drawer, handoff tab, tiers) | the estimate and the ladder, and an approver's copy of both | value and margin, audit rows, approval, send back, edit the ladder | a series of requests checked only at its end, ladder and value moving | approved under the ceiling that was checked, with its margin audited |
| Proposals (`ProposalBuilder.tsx`, `ProposalPreview.tsx`, `proposals.py`, `proposal_render.py`) | draft, picks, chapters, documents, versions | compose, create, re-anchor, rearrange, render | answers for another lead, rosters that change, one render slot, a version read early | documents of one lead, whole pages, complete renders, versions without gaps |
| Attachments (`attachments.py`) | `intake_attachments`, storage | presign, upload, confirm, list, delete | storage between statements | what was answered for is there |
| Settings (`settings.py`, `views/settings`) | lists, company row, factors, rates, users | forms, pictures, optimistic cache, administration of users | stale lists, rollbacks, statements outside a transaction | forms store what was typed and undo nothing; field sales have a rep |
| Accounts (`AddPMPanel.tsx`, `server.py`) | management companies and contacts, the page's list | make and edit a company, one request per contact | parallel requests diffed against a cached list | contacts are the rows of the panel that was saved |
| HOA catalog, promotion (`pipeline.py`) | `properties`, `leads` | `promote_*_to_lead` | check, then insert | one active lead per property |
| Leads, bids, meetings, dashboards; catalogs; estimator assignment; authorization; reports; serialization | single rows, none | CRUD, queries, predicates | little | access rules |
| Graph calendar and tokens (`graph.py`) | `user_graph_tokens` | refresh, calendar calls | two refreshes of one token | the stored token works |
| Migrations (`scripts/migrate.py`) | `schema_migrations` | detect, apply, record | crash between apply and record | each applied once |

**How they interact.**  A PATCH to a final status calls into the ledger and the Aspire
sync through background tasks held in memory.  Creating an estimate starts the property
push and then the opportunity push.  Approval writes back to the lead and to the audit
trail, which the reports read.  A branch-rate change touches the snapshot of every
estimate that freezes afterwards, and reprices open drafts.  The editors, the takeoff
tab and Beam's ingest write the same sections.  A proposal reads the rosters of the
settings, the estimate and the documents of its lead when it is opened or printed, not
when it is made.  The browser and the server share nothing but requests: every view
works on a copy that some answer brought.

## 2. The modules

| Module | Models | Kind |
|---|---|---|
| `CommissionBook` | what the ledger of one estimate promises: each operation one step | abstract specification |
| `CommissionService` | the four operations as locking transactions | implements `CommissionBook` |
| `CommissionYear` | pricing over a rep's year | algorithm and the interleaving around it |
| `StatusMachine` | `STATUS_TRANSITIONS` and its side effects, each change one step | abstract specification |
| `EstimateLifecycle` | the request handlers statement by statement | implements `StatusMachine` while requests do not overlap |
| `SalesClose` | `EstimateLifecycle` with `CommissionBook` through the tasks | composition |
| `AspireSync` | tasks, sweep, retry and Aspire | component with an external service |
| `BeamTakeoff` | order, callbacks, ingest and sweep of a takeoff, Attentive and the estimator | component with an external service |
| `TakeoffTab` | the tab: scan, the two blue cells, hand-off, the takeoff panel | browser over its endpoints |
| `QuantityReview` | discrepancy table and materials calculator | algorithms and their PATCHes |
| `Intake` | the two intake forms and `create_estimate` | browser over its endpoints |
| `EditorSave` | the editors' draft tree, diff, batches, reload | browser over its endpoints |
| `BidMoney` | the sums of a bid in every place that shows them | algorithm and the interleaving around it |
| `CrewRates` | prices computed from the crew rate | component |
| `ApprovalReview` | queue, drawer, handoff tab, ladder and its form | component |
| `ProposalDocuments` | lead, documents, creation and re-anchoring | browser over its endpoints |
| `ProposalPages` | form, chapters, rosters, pages as each kind of user gets them | algorithm over changing data |
| `ProposalRender` | one render from click to latest pointer | pipeline |
| `SettingsRows` | row, pictures and the one insurance of the settings lists | browser over its endpoints |
| `SettingsForms` | company forms, material factors, kit rates | browser over its endpoints |
| `UserAdmin` | the row of a user, the form that authorizes, `patch_user` | component |
| `CompanyPanel` | the panel that makes or edits a management company | browser over its endpoints |
| `*_proofs` (8) | theorems about the module of the same name; `Money_proofs` about `CommissionService`, and about `TakeoffTab` and `QuantityReview` in `MCMoney`; `SalesClose_proofs` also about `EstimateLifecycle`, `Estimate_proofs` about `BeamTakeoff` and `EditorSave`, `Proposal_proofs` about `ProposalPages`, `ProposalDocuments` and `ProposalRender`, `Settings_proofs` about `UserAdmin`, `SettingsForms` and `SettingsRows`, `Office_proofs` about `ApprovalReview`, `Intake` and `CompanyPanel` in `MCOffice` | TLAPS |
| `MC*` | values of the constants for TLC; several components in one run | instances |

`PROJECT.json` maps every definition to its source lines.  Four MC modules put
components side by side that do not interact (`MCMoney`, `MCProposal`, `MCOffice`,
`MCSettings`): a variable `scene`, chosen in the initial state, says which of them a
behaviour explores, the others stand still.

### CommissionBook and CommissionService

`commission` and `inst` are the committed rows; `closedAt` and `paidAt` count how
often a `paid_at` was written, so that "once" can be said.  Amounts are reduced to
whether an amount is known (NULL amounts are what `unpayable_reason` refuses).

Each transaction `t` has a program point `pc[t]`, what it has read (`seenStatus`,
`seenRow`) and the locks it holds (`commLock`, `rowLock`).  The order in which the
operations lock differs, and is kept: `mark_installment_paid` locks its
installment, the commission, then the siblings (`LockInstallment`,
`LockCommission`, `LockSibling`); `mark_commission_paid` and `cancel_commission`
lock the commission first; `create_on_won` inserts under the UNIQUE key.  Decisions
are taken from what was READ and the writes are applied at `Commit` - `Close` is
`_close_if_all_paid` on the transaction's own view.  `DeadlockVictim` is InnoDB's
detection, `Crash` rolls every open transaction back.

Two things outside the code are external: InnoDB, and whoever turns a
`pending_billing_data` row into a payable one.  Nothing under `src/` does that, but
the rows are created to be completed; `BillingDataKnown` stands for it.

Abstracted: gap locks, and the shared lock a duplicate `INSERT IGNORE` waits for
(it ends as a no-op either way).  `create_on_won` returns early without a lead, a
sales rep or a basis; such an estimate has no ledger and is outside the model.
Initial states include a commission from before installments existed, without
rows.  Migration 065 (`scripts/migrate.py` 978-1050) may leave a paid parent with
pending rows; that state is outside the model, and `ClosedWithLastInstallment`
does not speak about it.

### StatusMachine, EstimateLifecycle and SalesClose

The handlers: `PatchRead`, `PatchUpdate`, then the snapshot (`ClearSnapshot`,
`ReadBranchRate` + `FreezeRate`, or `KeepSnapshot`), then `PatchRespond`;
`ApproveRead`, `ApproveUpdate`, the INSERTs, `ApproveRespond`; `FlipRead`,
`FlipUpdate`, `FlipRespond`.  `seen[r]` is what the first SELECT returned and every
later decision of the handler is taken on it, as in the code.  `LoadDraft` and
`SaveDraft` are the maintenance editor, which PATCHes the lifecycle it loaded some
time ago.  `SetBranchRate` is `patch_branch_settings`.  History variables: `submitted`,
the rate that counted at the last submission, and `mishap`, whether a crash has cut
anything short.

Abstracted: a PATCH carries a status, or (from the editor) a lifecycle, not both;
header fields other than these; who may send which request; `aspire_owner`, written
together with `lifecycle`; estimates without a linked lead; writers of
`leads.status` other than the write-back.

In `SalesClose`, `tasks` are the background tasks in memory.  `CreateOnWon` and
`CancelForEstimate` run as one step of the ledger: `CommissionService` shows that the
transactions implement these steps.  `TaskFails` is a task that raises (a deadlock
victim, a lost connection): nothing stores or repeats it.

### AspireSync

One property and the estimates submitted for it.  A background task pushes the
property (`CheckProperty` ... `PersistProperty`) and then the estimate
(`ReadForOpportunity` ... `PersistOpportunity`); PATCH to won or lost and the retry
endpoint start single pushes; the sweep takes a batch in `updated_at` order and
handles it row by row on what the SELECT returned.  Aspire accepts, refuses, or
accepts and the answer is lost.  `aspireProps` and `opportunities` count what exists
in Aspire, up to two ("several").  `push_status` has no endpoint to call and fails by
construction, as in the code.  `env`, chosen once, says what surrounds a behaviour:
the answers, whether sync is on, whether the sweep runs, how many tasks at a time,
whether the process dies.  `history` is not in the code: it remembers the estimates,
and whether it was the property, of which two pushes were under way at once (a row the
sweep has selected counts) or one broke off between the POST and its outcome, and
whether a push of the property was dropped after its mark.

Abstracted: a 2xx answer without an id (it is stored as `synced` without a link; a
contract violation of Aspire's), and an estimate without a property.

### BeamTakeoff, TakeoffTab and QuantityReview

`BeamTakeoff`: one request, drafted at Attentive, and the one section its measurement
goes to.  `Generate`, `Order` and `PersistOrder` are the three statements of the
generate route.  `Callback` and `Sweep` start an ingest, whose statements follow the
code: `GetRequest`, `GetOutputs` (Attentive may move on between them),
`PersistRequest`, `PersistOutputs`, then `_apply_or_flag` with each SELECT and UPDATE a
step (`ReadEstimate`, `ReadLatest`, `ReadSection`, `ReadApplied`, `WriteSection`,
`RecordApplied`, `FlagEstimate`).  `outputs` has one row per version of the
measurement, `Previous` is `_previously_applied_total`.  The estimator enters a
number, deletes the section, moves the estimate in or out of the unpriced statuses,
or accepts.  History variables: `wrote`, what Beam last wrote; `reviewed`, the newest
version at the last accept; `mishap`.

Abstracted: several features in one section (their sum is one value), units and the
feature map, cost and address columns, `beam_sync_status`.  `_apply_estimate_columns`
is left out: no feature in `FEATURE_MAP` has a target that reaches it.  A deleted
section keeps its id on the outputs, which no new section has: `DeleteSection` clears
`applied` to say so.  A request that a failed `create_draft` left `unordered` cannot be
generated and is outside the model.

`TakeoffTab`: a window works on the copy of the estimate the shell fetched, and every
answer of a PATCH replaces that copy.  The scan, the cells and the panel are separate
scenes.  The panel (`CreateDraft`, `Order`, `Refetch`, `Over`) shows the latest request as
of its last fetch; each click starts a handler in `jobs`, which goes on statement by
statement whether or not the window still waits (`GiveUp`): `create_draft` is `Insert`,
`Attentive`, `Mark`; `generate` is `Guard`, the SELECT of `submitted_at`, then `Attentive`,
which charges even if the answer is lost, then `Mark`, the UPDATE of `submitted_at`.
`BreakOff` is a statement that fails or a process that dies.  `billed` counts what
Attentive charges for a request, up to two.  Two history variables name what the code
does not guard: `late`, a draft's row came in when a window already showed one to order;
`cut`, two orders of one request were under way at once, or one ended between the charge
and its `submitted_at`.  Abstracted: the second of `created_at`, by which the latest
request is found (two rows of one second), and the INSERT of an ingest into the blue
cells, since no feature of `FEATURE_MAP` has an estimate column for its target.

`QuantityReview`: the discrepancy table sends a PATCH per keystroke.  The calculator
rounds up loads from tables with gaps and defaults, a zero depth and a compaction factor.
It is computed in exact numbers, in ten-thousandths of a unit, with one addition: the code
computes in doubles and applies `Math.ceil` to them.  Measurements and percentages are
whole numbers, so a quotient that is not whole lies at least 1/(10,000 x cover) away from every
whole number, far beyond the error of a few double operations, and is rounded up as the
exact one.  A quotient that is whole may come out a last bit
below, which rounds up to itself, or above, which rounds up to one more.  For which entries
that happens depends on binary64 and not on the formula: the constant `Overshoot` is the
set of them.  In the instance it is the set computed with binary64 for its measurements
(3000 with 10 % over 300, and 3240 of mulch at 10 %); the theorem holds for any set.

### Intake, EditorSave, BidMoney

`Intake`: fields are grouped by section, a text is a class of texts (typed, blank, zero,
no number).  `create_estimate` is a sequence of statements (`Insert`, intake, ITB
project, lead) of which the first is a transaction.  Nothing resets a form: what a
previous request left stays.  `drafts` keeps the order of creation, as the list does.

`EditorSave`: a tree maps ids to a parent and a value.  A save is `Diff`, then deletes,
updates, creates, the scalars and the reload, each batch in parallel; a request is
refused, loses its answer, or is served and answered; what a failed batch left under way
goes on.  `wire` are the requests, `Attempts` the saves.  The server adds to what it is
sent, and `Furnished` is the draft with that: a new maintenance section without lines is
given the standard ones with their items (`Bare`, `Seeded`; `<<s, j>>` names node `j` of
`Standard` in section `s` until the server mints an id), and a maintenance line that is
created or changed is stored at its crew-rate price (`Repriced`, `CrewPrice`).  A save
notes at its click what it is to store (`wanted`); a create is served with that subtree,
row by row, and may stop after any of its rows (`CreateCut`).

Abstracted: the standard lines are inserted first and priced by a statement each at the end, so that a
create that is cut there leaves lines without a price, which the model gives one; the
crew rate does not change during a save (`CrewRates` is about that); occurrence counts
and the choice of standard lines are data.

`BidMoney`: money in cents, quantities in halves.  `memo` is what a row computed for
the object it was given; `recompute` is the handler that splits the ITB project from the
rows it read.  Edits wait for the requests of the previous save.

### CrewRates and ApprovalReview

`CrewRates`: nothing marks a computed price; editor, server and repricing recognise it
by its value.  `madeBy` is the history variable that says who made it.  `patches` are the
PATCHes of the rate from the optimistic form to the last repriced row; `ed` is the
editor with its draft, the rate it shows and the lines marked after a refusal.

`ApprovalReview`: `desk[s]` is what an approver looks at, both estimate and ladder read
once.  Saving is a list of requests (`calls`) and the ceiling is checked at the last.

### ProposalDocuments, ProposalPages, ProposalRender

An estimate is named by its lead.  `ProposalDocuments` follows a document from the
click over presign, upload and confirm to the proposal that appends it, while the rep
may choose another lead.  `ProposalPages` computes the pages from what was saved and
from the rosters as they are when the document is opened, for the office, for the rep
who made it and for another rep.  `ProposalRender` has the queries of the printed page
with one retry each, images, quiet network, the ready flag, the capture, the upload and
the row, behind one semaphore slot.

### SettingsRows, SettingsForms, UserAdmin, CompanyPanel

The four lists of `SettingsRows` have one life: a form copies the row when it opens,
compares with the list's row when it is saved and sends what differs; `exclude_none`
drops what is null.  The photos that a move may drop are recorded (`missed`), and those
that somebody removed (`unwanted`).  `SettingsForms`: the company row with its optimistic cache and
rollback, material factors saved as one object, kit rates saved on blur.  `crossed` is a
history variable: a save was sent while another one was under way.  A user who is not
`Hasty` waits for the answer before typing on or leaving a field.  `UserAdmin`:
`patch_user` statement by statement (role, flag, DELETE of the branches, INSERTs) for
several windows, the link to a rep, and the form that authorizes.  The content of the
editor is chosen at Save; pressing the switch while its request is pending is left out.
`CompanyPanel`: an edit is one PATCH and then, in parallel, a request per contact found
by comparing the rows with the cached list at the click; a company is made by one
request served statement by statement.  Another rep editing the same company, and a
reading of the list that fails for good, are left out.


## 3. What is checked

Every property of a passing run has a mutant in `PROJECT.json`: a plausible bug in a
mapped definition (kept in the module, next to the definition) that violates it.  Where
several promises of one component are checked together, the property is their
conjunction and its parts are named.

| Run | Instance | Distinct states | Shows |
|---|---|---|---|
| `CommissionService` | 2 transactions, 3 installments (scheduled; pending with amount; pending without) | 15 k | `ImplementsBook`, `Promises`, `EveryRequestEnds` |
| `SalesClose` | 1 request at a time on a maintenance estimate, 2 rates, crashes, failing tasks | 130 k | `SubmissionRemembered` (`SubmittedRateKept`, `ApprovalRecordsFollowStatus`), `FrozenUnderReview`, `StepsAreLegal` (`GoesThroughMachine`, `FrozenRateNotRestated`), `CommissionOnlyIfWon`, `WonGetsCommission` |
| `AspireSync` | four environments: 2 tasks of one estimate, every answer, crashes; 2 tasks of 2 estimates; the sweep beside 1 task; the same with lost answers | 209 k | `SyncedIsInAspire`, `OnceAndKnown` (`CreatedOnce`, `InFlightIsCarried`), `SweepReachesEveryRow` |
| `BeamTakeoff` | 3 versions, 1 click and 1 ingest at a time, order taken or refused, failed fetches, missed callbacks, crashes | 445 k | `EstimatorsNumberKept`, `NoSilentDrift`, `OrderedOnceUnlessCut`, `MeasurementArrives` |
| `CrewRates` | 2 lines, 2 rates, 2 PATCHes of the rate, 1 editor save, 1 mishap | 2.6 M | `PricesFollowRate`, `FormShowsStored`, `MarkedAreRefused` |
| `EditorSave` | one tree of each editor, 2 saves, 2 edits, one standard line with one item, one price that is replaced | 71 k | `BaselineIsServer`, `SaveDoesAsAsked`, `SaveEnds` |
| `Money` | 3 deals on 3 tiers over 2 years; 2 lines, 3 edits; a tab with a window, 4 clicks and a mishap; 2 table lines; 4 materials | 135 k | `LadderIsPaid`, `BidIsTrue` (`ViewsAgree`, `PartsAddUp`, `TrackerFollowsLines`), `EntriesAreStored` (with `OneTakeoffPaid`), `OrdersCover` |
| `Proposal` | 2 leads, 2 files, 1 proposal; 3 members, 3 users, 2 regions | 1.85 M | `PagesAreWhole` (`EveryChapterOnce` with its contents, `PicksShipped`), `DocumentsFollowLead` (`DocsOfOneLead`, `AnsweredIsInherited`), `ChoiceStays` |
| `ProposalRender` | 2 toolbars, 1 slot, 3 renders, 2 failures, 6 queries | 135 k | `RendersAreComplete`, `EveryRenderAnswered` |
| `Office` | both intake forms; 2 approvers over 2 bands; 1 company, 3 changes, 2 saves | 1.1 M | `RequestsAreKept` (`EstimateIsWhole`, `DraftsFollow`, `SavedIsStored`), `SentAsShown`, `ApprovedValueIsCovered`, `MarginIsAudited`, `QueueLeadsOn` |
| `Settings` | eight scenes, 2 windows, 2 saves, 3 photos and 4 requests about them, 1 mishap each | 1.7 M | `RowsAreKept`, `FormsAreTrue`, `FieldSalesHaveRep`, `UsersAreSaved`, `RetiredOnlyByChoice` |
| `EditorRetry` | as `EditorSave`, 1 edit | - | the counterexample to `RetryIsExact` (section 4) |

**Why the bounds are enough.**  Every conflict of the ledger is between two
transactions, and three installments give a target, a sibling that is settled and a
sibling that cannot be paid yet.  The lifecycle has one row, so one request at a time
and two rates exhibit every sequence of statements and crashes; two requests are the
subject of section 4.  Two estimates of one property are what the property push can
conflict on.  Three versions of a measurement are a delivery, an edit of it and one that
meets two applied versions; the numbers typed are no sum of versions.  The ladder has a
zero-based first tier, an inner tier and an open last one; the deal values end inside,
on and across its boundaries.  Two lines in two sections have rounding both within a
line and between shares.  A second save, a second window or a second PATCH is what an
answer can be late for; a third meets the same states.  Where a theorem of section 5
states the property, the bound does not matter.

**Bounds in the guards.**  `LastYear`, `MaxTasks` (CommissionYear: pricing tasks at the
same time), `OneMore` (two means several, AspireSync), `BatchLimit` (the 50 of
`sweep_once`), `Min({orders + 1, 2})` (two means several orders, BeamTakeoff), the number
of versions; `MaxSaves` 2, `MaxActs` 2 (EditorSave: saves and edits; `EditorRetry` has one edit), and as
many server ids as two saves can mint with the standard lines;
`MaxRenders`, `MaxFailures` (ProposalRender); `MaxMoves`, `MaxEdits` (Proposal); `MaxEdits`,
`MaxSaves`, `MaxMishaps` (ApprovalReview 1, 2, 1); per form `MaxEdits` 2/1, `MaxOpens` 1/2,
`MaxCreates` 2/1, and `MaxDrafts` 2, `MaxMishaps` 1 (Intake); `MaxTyped` 3, `MaxClicks` 2,
`MaxLosses` 1 (CompanyPanel); `MaxPatches` 2, `MaxSaves` 1, `MaxMishaps` 1 (CrewRates);
`MaxUploads` 2, `MaxVisits` 1 per cell, `MaxClicks` 4, `MaxFaults` 1, and in `OneMore` two
means several (TakeoffTab); `MaxKeys` 2, `MaxInputs` 3, `MaxFaults` 1 (QuantityReview); `MaxEdits` 3
(BidMoney); `MaxRequests` 2, `MaxMishaps` 1 (UserAdmin); those of the settings modules.

**One at a time.**  Several components keep their promise only while the user, or the
server, does one thing at a time.  A constant says so and is FALSE in the runs:
`Overlap` (Intake, BidMoney, ApprovalReview, CrewRates, SettingsRows, CompanyPanel),
`Hasty` (SettingsForms), `MayOverlap` (BeamTakeoff), `OneAtATime` (EstimateLifecycle).
Section 4 says what happens otherwise.

**Fairness.**  `FairServiceSpec`: a lock wait ends, because InnoDB queues waiters and
rolls a transaction of every cycle back (strong fairness of a transaction's next
statement, weak of the victim).  `FairCloseSpec`: the event loop runs every handler
and every task it has accepted.  `FairSpec` of AspireSync: the loop runs every task
and the sweep, a POST comes to some answer (the client has a timeout), and Aspire
does not refuse the same kind of POST for ever.  `FairSpec` of BeamTakeoff: the loop runs
the ingest and the sweep, Attentive works off what it accepted and does not fail every
fetch; a callback is never assumed to arrive, since Attentive gives up on it after a
day.  `Spec` of EditorSave: a request is answered or fails in the end, and a save goes on
from there.  `Spec` of ProposalRender: every step of a render is taken, and the slot
comes to every waiter, since the semaphore queues them (strong fairness of `Open`).
Requests are never assumed to arrive, users never assumed to act.

**Deadlock** is checked in the runs of the ledger, the sale, Aspire and the takeoff.  In
the others users stop when their bounded edits are used up, and the configuration says
`CHECK_DEADLOCK FALSE`.

## 4. What does not hold

`EditorRetry` ends in a counterexample to what the header of `persistTree.ts` says of a
failed save; `PROJECT.json` ("findings") quotes the lines.  The estimator adds one line and
saves; the create is stored, its answer is lost and the save fails.  The second Save
diffs the same draft against the tree from before, sends the create again and ends with
"Estimate saved": the line is stored twice.

Further definitions in the modules are violated, some under the constants of the runs,
some under others.  They are kept as they say where the promises end; each was
confirmed with TLC (in a copy of the configuration).

### Violated under the constants of a run

| Definition | What happens |
|---|---|
| `LostIsOnTrail` (EstimateLifecycle) | a PATCH to lost writes no row to `estimate_status_transitions` (`estimating.py:2228`), although `estimating.py:12` says every edge is persisted; the lost-deal reports join on that row (`sales_performance.py:166,192,317`) |
| `FrozenAfterApproval` (EstimateLifecycle) | approve-handback never freezes the crew rate of an estimate that enters approved that way (`estimating.py:2337` against :91, :93) |
| `OnlyToggleReopens` (EstimateLifecycle) | an editor opened before the win saves `lifecycle = bidding` over it (`MaintenanceEditor.tsx:204`) |
| `OnlyOpenCommissionsAreCancelled` (CommissionService) | a lost estimate's PAID commission becomes cancelled; `cancel_for_estimate` says "every open commission" and tests `status != 'cancelled'` (`commission_service.py:306`) |
| `WonHasCommission` (SalesClose) | the task is lost with the process |
| `ChainResolves` (AspireSync) | a property that failed once is not pushed by the sweep, so its estimates stay pending (`aspire_sync.py:20`) |
| `AtMostOneOpportunity` (AspireSync) | even with one task at a time, answers that arrive and no crash, the sweep pushes a row whose first push is in flight; `OnceAndKnown` excepts pushes that cross |
| `OnceAndKnown` without `history` (AspireSync) | two tasks both find the property unsynced and push it; after a crash, or with sync off at first, a pending property stays pending, as `sync_property_if_needed` leaves pending rows alone |
| `OrderedOnce` (BeamTakeoff) | an order whose answer is not recorded is placed again and paid twice (`beam_routes.py:12-14`, migration 025:41-42, against `beam_routes.py:216`) |
| `OneTakeoffPaid` without `cut` (TakeoffTab) | Attentive has charged, its answer is lost, and the next click passes the guard and is charged again (`beam_routes.py:193-216`) |
| `OneTakeoffPaid` without `late` (TakeoffTab) | a draft that was given up on comes in after its retry; the window orders the one it shows and, once it has fetched the other, that one too |
| `OrdersCover` without `Overshoots` (QuantityReview) | 3000 with 10 % over 300 orders 12 where 11 cover it, and 3240 of mulch at 10 % a yard more: `Math.ceil` of a double just above a whole number (`config.ts:125-143`; the comment at :106-108 says `ceil(measurement × (1+add%) / conversion)`) |
| `OnlyTouchedIsFlagged` (BeamTakeoff) | `_previously_applied_total` sums every version ever applied, so after two of them each later ingest flags an untouched section (`beam_sync.py:412` against :19-21) |
| `NoSilentDrift` without `~mishap` (BeamTakeoff) | the process dies after storing a newer version, and the sweep skips completed requests |
| `ToggledSaveIsExact` (EditorSave) | a toggle answered after a save brings local ids from before it back (`MaintenanceEditor.tsx:157`) |
| `EditorKnowsCost` (BidMoney) | an item of unknown cost has no cost in the editor and 0 in the panel (`install.ts:122-126` says they cannot disagree) |
| `OneContract` (ProposalDocuments) | a second contract stays beside the first (`ProposalDocumentsSection.tsx:14`) |
| `NothingDisappears`, `PicksShippedToAll`, `NobodyElse`, `UntickedIsGone` (ProposalPages) | the org chart drops people whose row the reader cannot see (`org-chart-page.tsx:160-167, 236`), rosters are scoped to the reader and not to the rep who made the proposal (`proposals.py:516-532` against a comment of `useProposalDocument.ts`), and what was unticked can come back with a default |
| `CertificateCaptured` (ProposalRender) | the capture does not wait for the scan of the certificate when its query failed (`insurance-page.tsx:13-15`) |
| `AlwaysInSomeTab` (ApprovalReview) | lowering a ceiling leaves a gap between two bands, as the form edits the upper end only (`ApprovalTiersForm.tsx:86-99`), and an estimate in it is in no tab |
| `MovesLoseNothing` (SettingsRows) | a move PATCHes the whole array of the list it was clicked on (`PortfolioSection.tsx:115-121`): a third photo that was stored and answered, but is not in that list yet, is dropped from the row, while its object stays.  Found while proving `RowsHold`: before, `Settings` had too few photos to reach it, and its property did not name the exception |
| `TypedForItsBranch` (SettingsForms) | a kit rate typed for one branch is blurred after the picker moved and stored for the other (`ProductionRatesForm.tsx:51-57, 74-103`; `useBranchSettings.ts:23-25` says the key prevents it) |

### Violated under other constants

| Definition | Constants | What happens |
|---|---|---|
| `SubmittedRateKept`, `FrozenRateNotRestated` | two requests | two clears lose the submitted rate; two freezes around a rate change restate it |
| `GoesThroughMachine` | two requests | the second UPDATE writes a status that is no edge of the machine |
| `LostOwesNothing` | `SalesClose`, two requests | the cancel task runs before the create task |
| `LadderAddsUp` | `MaxTasks = 2` | two wins read the same prior revenue |
| `SweepReachesEveryRow` | `BatchLimit = 1` | a linked open row at the front is selected for ever and never touched |
| `OrderedOnceUnlessCut` | two clicks, or lost answers | both pass the guard before either writes `submitted_at` |
| `EstimatorsNumberKept` | `MayOverlap = TRUE`, or a typed number that is a sum of versions | the estimator saves between `ReadSection` and `WriteSection`; the number passes for Beam's |
| `NoSilentDrift` | two ingests | the older total is written last |
| `PricesFollowRate` | `Overlap = TRUE` | two PATCHes leave lines at a rate nobody has stored |
| `OrdersCover` | a configured table without a depth that the built-in one offers | chosen before the configuration is there, the depth stays in the entry; the card shows the first option, the order is computed at the default depth (`config.ts:121-125`) |
| `TrackerFollowsLines` | `Overlap = TRUE` | a stale split is written last |
| `ApprovedValueIsCovered` | `Overlap = TRUE` | the handoff tab approves an estimate in progress, and the estimator reprices it between the authority check and the UPDATE, which names no value (`estimating.py:2315-2345`) |
| `MarginIsAudited` | `Overlap = TRUE` | the PATCH of a stale queue carries `targetMargin` (`estimating.py:2378-2380`) |
| `PhotosStay`, `PortraitExists`, `OneInsurance` (SettingsRows) | `Overlap = TRUE` | two handlers work from the array each has read; two administrators both find no insurance |
| `FactorsSurvive`, `MarkIsTrue` | `Hasty = TRUE` | the form sends what changed and the server stores it as the whole override; "Saved" stands beside a value that was skipped |
| `UntouchedAlwaysStay` (SettingsForms) | `MaxSaves = 3` | two company saves overlap, one fails and puts the optimistic value of the other back under a form opened since (`useCompanySettings.ts:51-65`); a third save sends it |
| `FactorsStayStored` (SettingsForms) | `MaxSaves = 3` | a factor set back to the company's value is no change to the form any more and drops out of the override with the next save; the branch payload then has the row without it (`settings.py:1499-1513`), and the calculator takes its built-in fallback (`config.ts:92`) |
| `DraftsFollow` | `Overlap = TRUE` | two quick first saves make two drafts; a late answer rebinds a deleted one |
| `SavedIsStored` (CompanyPanel) | `Overlap = TRUE` | a save that does not wait for the list repeats additions, deletes what is gone, or skips a row of a contact that is gone and says it succeeded |
| `PanelIsTail` (ProposalDocuments) | two proposals | the preview's order is of the other proposal |

### Seen while modelling, described only

Orders and estimates:
- An estimate queued before any rate change keeps the snapshot of its creation: it
  prices at that rate, and the notice "since this was submitted" shows on estimates that
  were never submitted.  A save during review reprices at the live rate while the margin
  panel costs at the frozen one.  A stale editor sends the price from before a repricing
  back, which then counts as entered by hand; a hand-entered price that equals the formula
  is repriced.  A PATCH that dies after the upsert is not completed by a retry.  The first
  rate of a branch reprices nothing.  `maintenance.ts:94` calls itself the only copy of
  the formula, `maintenance_pricing.py` is another.
- Python rounds half to even where JS rounds up (a cent per line); a bid without lines
  shows its old total, against `estimating.py:1316-1318`; the tracker's total drops rebids
  (`ItbTracker.tsx:227-231` says it replaces the original); `groupByService` ignores square
  feet in its yearly total.
- The server does not refuse a second Optional Services section, although `install.ts`
  (276-279) says so; edits made while a save runs are overwritten by the reload;
  `laborMarkupPct` and `materialMarkupPct` are compared and sent but not stored.
- Approvals: on a ladder with a gap and no row for everything, levers that lead into the
  gap are offered as an approval, which the server refuses (`isOverCeiling` takes "no
  tier" for not over, hence `EveryValueHasTier`); "Viewing as" lets any approver browse any tab; the handoff tab checks no tier (the server answers 403); a PATCH of value or
  margin looks at no status; the client's band ends before its ceiling, the server's on it;
  the tiers form does not invalidate the config other views keep for five minutes.
- Intake: a form is never reset, so files, property and fields of a previous request ride
  along; the lead of the previous property is kept while a lookup is pending or failed; a
  lookup falls back to a won or lost lead, which the server moves to Estimating; a create
  whose answer is lost makes a second estimate; two creates at once make one of them
  fail with 500; "past" is the local day in the browser and New York's on the server;
  a deadline that is left blank uses the fallback window before settings are loaded; once
  a deleted draft is bound again, Save draft answers 404 for good.
- Takeoff: a cell is sent when it differs from the shell's copy, which another answer
  replaces (`TakeoffInsert.tsx:163` says only when it changed); two uploads share one hook
  state; "Saved" goes by file name; a takeoff whose cost is unavailable can be ordered
  (`beam_routes.py:157` says the estimator must see it); a keystroke per PATCH in the
  discrepancy table, unordered; its client threshold starts at 10 % whatever the company's
  is; the calculator shows depth 0 and uses the default.

Proposals:
- A proposal submitted while the estimate is being looked up lacks it; picks made for one
  lead are carried to the next; a re-upload after a failed one leaves the row failed, and
  a render of it 422; a removed document comes back by a late confirm.  Overflow is
  measured before the document's own queries answered.  The second of two overlapping
  renders overwrites the object of the first and fails at its row; the latest pointer can
  go back; preview and print scope the roster differently; the print token (120 s) can
  expire while waiting for the slot.

Settings and accounts:
- Clearing a nullable field is not stored (`exclude_none`): 400 when it is the only change,
  otherwise the form closes and the old text stays.  Material-calc overrides of all
  branches are returned together and collide by id.  Edits typed while a save is pending
  are lost when it closes the form; a form left open sends stale untouched fields.  An
  insurance document that expired is hidden, the form offers insurance, the server
  answers 409.  Forms keyed by `updated_at` are remounted by a refetch and lose what was
  typed; the version counts seconds.
- Users: the editor always sends role and branches from when it was opened; an unknown
  role is shown as, and saved as, the first one; a switch that succeeds closes the open
  editor; `patch_user` dies between DELETE and INSERT with fewer branches; a foreign-key
  422 is shown as the Aspire block.
- Companies: the rows of a card's panel live as long as the card.  After a save that added
  a contact, the next save deletes it and adds it again, and loses it when the second
  request fails; a contact a colleague added meanwhile is deleted; a cleared optional
  field is never stored, and as a contact's only change it is a 400 without a message that
  keeps the panel from being saved; a create that died half way is repeated as a second
  company.  The panels of a property reset to the row that was clicked, not the one saved.
- Leads desk (not modelled): the modals copy the lead when they are mounted and have no
  key, so moving to another lead keeps the text and saves it there; hand-off notes are
  overwritten with an empty text.  `pipeline.py:189`: two promotions of one property both
  find no active lead.


## 5. What is proved

TLAPS checks the theorems of eight modules, for every value of the constants: any number
of transactions, requests, lines, windows, estimates, versions.  The assumptions on the
constants are `BuiltAssumption` (the rows `build_installment_rows` returns are scheduled
with an amount, or pending), `TxnAssumption`, `LifecycleAssumption`,
`InitialStatusAssumption`, `TakeoffAssumption`, `CrewRateAssumption`, `SettingsAssumption`,
`DocumentsAssumption`, `RosterAssumption` (the id of a user is no id of a team member, a user has
one role, what is not in a region has none), `RenderAssumption`, `EditorAssumption` (what an editor is opened on is a tree of
ids the server has minted, the standard lines are lines with their items, a price is a value),
`OfficeAssumption` (sets of values, what a form may hold is no blank, and a blank is none of
the names), `ApprovalAssumption` and `LadderAssumption` (what migrations 007 and 068 seed and the
form cannot edit: the tabs are the first rows, their floors rise from zero with their
order), `MoneyAssumption` (numbers are numbers, and neither a blank nor a negative text is one) and
`CardsAssumption` (the table of a rock has its default depth, and a configured one the depths
of the built-in one: so for the rows the code and the migrations ship, and not checked by the code); TLC evaluates each of them in the runs.  A hypothesis a theorem needs
beyond them stands in its `ASSUME`, the runs satisfy it, and section 4 shows what
happens without it, where the code does not guarantee it:

| Hypothesis | Says | Theorems |
|---|---|---|
| `OneAtATime` | requests on one estimate do not overlap | lifecycle and sale, except `TypeCorrect` |
| `RateConfigured` | the branch has a rate before its first estimate; none is created under review, and none to be frozen is left without | `ReviewIsFrozen`, `CloseFreezes` |
| `Estimate # {}` | there is an estimate | Aspire |
| `OneClick`, `AnswersArrive` | one order at a time, its answer is not lost | `OrdersOnce` |
| `~MayOverlap`, `NumbersApart` | the estimator works between ingests and types no sum of versions | `NumberIsKept` |
| `~MayOverlap`, `OneIngest` | the same, and one ingest at a time | `NothingDrifts` |
| `~Overlap` (CrewRates) | the server works on one request at a time | `PricesFollow` |
| `Overlap <- FALSE` (Intake and CompanyPanel in `MCOffice`) | the rep waits for the answers of draft calls and the submission, or of a save and the list | `FormsAreAsShown`, `RequestsKept` |
| `Overlap <- FALSE` (SettingsRows in `MCSettings`) | the server works on one request at a time | `RowsHold` |
| `~Overlap` (ApprovalReview) | approvers take turns; the estimator does not reprice between check and write | `ApprovalsAreCovered`, `MarginsAreAudited`, `QueueLeads` |

`NoStaleWrite`, `PromisesKept`, `ServiceImplementsBook`, `SyncedExists`,
`EntriesHold`, `OrdersHold`, `FormEndsOnStored`, `MarksAreRefused`, the theorems on users, documents, renders, picks and the
region switchers, `BaselineHolds` and `SavesDoAsAsked` need none of these: they hold for any interleaving.  `FormsHold` is about
a user who waits (`Hasty` is FALSE in `MCSettings`) with any number of saves, values and
failures.

**The ledger** (`Money_proofs`).
`Promises` is inductive in the one-step ledger (`BookKeepsPromises`).  For the
transactions it is not: a commit acts on what was read some steps earlier.  The
strengthening is

    IInv == ServiceTypeOK /\ Promises /\ LockedReadsAreCurrent /\ LocksHeld

`LocksHeld` says at which statement a transaction holds which lock and what it has
established; `LockedReadsAreCurrent`, that what it read is still so.  Locks exclude
each other, so a commit of one transaction leaves the reads of the others alone
(`OthersKeepLocks`), and a commit therefore decides on current rows - which makes
it exactly one step of the ledger (`RefinementStep`, one lemma per kind of commit).
The promises then follow from those steps being the ledger's.  From `IInv`:
`TypeCorrect`, `NoStaleWrite`, `PromisesKept`, `ServiceImplementsBook` (the
refinement), `SettledStays` and `NoHalfCommission`.

**The lifecycle** (`SalesClose_proofs`).  `TypeCorrect` holds for any number of
overlapping requests; the invariant needs to know that what a handler is about to
write fits its column (`TargetFits`).  The others assume `OneAtATime`.  `SerialInv` adds
to the types what a handler knows at each statement (`Knows`: nothing moved since its
SELECT), where the submitted rate is (`SubmittedIsSomewhere`) and what the records say
(`ApprovalRecordsFollowStatus`).  From it: `RecordsFollowStatus`,
`SubmittedRateSurvives` and, together, `SubmissionIsRemembered`; `FrozenRateStays` and
`EveryStepIsLegal`; `StatusFollowsMachine` (the handlers implement the machine); all of
them across crashes and rate changes.  `ReviewIsFrozen` is not inductive by itself: the
status is written one statement before the rate is frozen, and a rate freezes only if
the branch has one.  `FrozenOrFreezing` says so: under review without a frozen rate only
while the request that got there is about to freeze it, or after a crash.

**The sale** (same module).  A step of the composed system is a step of the
lifecycle, or moves neither the row nor a request (`CloseSteps`).  So the lifecycle's
invariant carries over, and with it `CloseRemembers`, `CloseFreezes`, `CloseIsLegal`.
`CloseInv == SerialInv /\ OwedOnlyIfWon`: a commission, or a task that will create one,
only where the status is won, which nothing leaves (`WonIsFinal`).
`OwedWhenWon` follows, whatever task fails.

**Aspire** (`AspireSync_proofs`).  `SyncedExists` needs what each task knows of the
outside at its statement (`TaskKnows`): one that is about to persist a success has one
in Aspire, and nothing is ever deleted there.  `CreatedOnceAndKnown` adds `OnceInv`: of an
estimate whose pushes never crossed nothing is in Aspire before a push, not even while the
sweep holds its row, and what is there is linked or in the hands of the one task
(`Quiet`); a property whose pushes never crossed is marked while one is out, and after it
has died (`PropertyQuiet`), so no other begins.

**The takeoff** (`Estimate_proofs`).  `OrdersOnce` is from `OrderInv`: an order that
was placed is recorded, or its one request is about to record it.  `NumberIsKept` is
from `OwnsInv`: a number of the estimator differs from what the ingest takes for Beam's
own, so the ingest reads it as touched.  That needs `_previously_applied_total` to be a
sum of values of versions, and of the applied ones (`PreviousIsSum`).  `NothingDrifts`
is from `DriftInv`: while an ingest writes, it carries the newest stored version, and
when none does, Beam's number is the newest, or flagged, or was accepted knowingly.
`Greatest` (a non-empty set of versions has a newest one) is the lemma
these share; it is proved from well-foundedness, since induction cannot be used.

**The editors** (same module).  `BaselineHolds` is from `EditorInv`, in two parts.
`TreesInv`: every tree in play - the rows, draft, baseline, cache, what a save was asked,
what a toggle has seen - is one, and agrees with the rows on the parent of each node they
share (`Sound`).  That is what a create needs: the place its subtree goes to on the server
is the place it has in the draft (`SamePlace`), so the copy fits (`CopyIsTree`), and
minted ids are in no tree yet (`RowsCome`).  `TurnsInv`: a request belongs to a save that
awaits it or was failed by another of its requests; a save under way is the one the editor
waits for unless an editor was lost; and with none under way and nothing gone wrong,
baseline and cache are the rows.  The property alone is not inductive: while a save runs,
the rows move and it says nothing, so it must be known that no request is left to be
served once the editor waits for none.

`SavesDoAsAsked` adds two invariants.  A save works towards what it noted at its click, the
draft with what the server adds (`wanted`): a tree whose deletes and creates are those of the
draft, since standard lines and their items hang on sections that are new themselves
(`FurnishedIsTree`, `FurnishedIsAlike`).  `SaveInv` says, while nothing has gone wrong, what the
save under way has done at its phase (`Doing`): while it deletes, the rows are those of the
baseline and the draft's share of them is untouched; while it updates, they are exactly that
share, in its place, with the new value or an update on its way (`Deleted`: what the deletes
do not name goes with a node above it, or climbing from it would never end, `NoLoops`); from
then on they are the nodes of that tree that an injection renames (`Placed`): what is kept
under its own id, and all below a new node that was created.  When no create is left the
injection is one from the whole tree onto the rows (`Created`), under which the sections,
lines and items have equal signs and each sign occurs as often (`SameShape`): that is the
`Shape` the property compares.  The order of the requests of a batch appears nowhere, which is
why it does not matter.  `LossInv` is about rows that go, and holds through failures, lost
answers, cut creates and lost editors: what a save would delete of baseline or cache was
removed by the estimator, and so was what a delete on its way names.  It is the leak of a toggle
that breaks it, since baselines then hold local ids; hence the exception in the property.

**Crew rates** (`CrewRates_proofs`).  `FormInv`: once no PATCH is under way, what the
form shows, or is about to be given, is the stored rate.  `MarkInv`: what was sent is
what was touched, and a line that was not touched is in the draft as it was loaded.  Both
hold for any overlap.  `PricesFollow` assumes there is none and has `Alone` (at most one
PATCH is served, none while a save is, and it knows the rate it replaces) and `PriceInv`:
outside a repricing each computed price is the formula's; while the drafts are selected,
the formula's at the rate before; while they are repriced, those done are at the new one.

**Users** (`Settings_proofs`).  Several administrators PATCH one row; a save that is
`alone` keeps its promise.  `RowInv` says, for each PATCH at each statement, what it
carries (`Carries`), how much of it is stored if nobody crossed it (`Progress`,
`Uncrossed`), and what its window was promised (`PromiseStands`).  `AuthInv` does the
same for the form that authorizes, which writes in one transaction.  `RepsAreLinked`,
`SavesAreExact` and `RetiredStays` are read off `UserInvariant`.

**Settings lists** (same module).  `RowsHold` is from `RowsInv`, with a part for the row,
its pictures and the insurance.  `ListRowInv`: a form under which the list has not changed
differs from the row in what was typed only (`FormFollowsList`), so a PATCH under way
carries nothing else (`BodyOK`); the property speaks of the row after the PATCH, and needs
both before it.  `PicturesInv`: requests are carried out in the order they were asked in
(`InTurn`), so the array a handler has read is still the stored one when it is written, and
the object it deletes is one the new array does not have (`TaskOK`, `PortraitOK`).  An upload
nobody waits for any more may be written after a move was asked for and before it is served:
`MoveKnows` says that the move has every photo asked for before it, or has missed it.
`DocsInv`: whoever is about to insert an insurance found none, and nobody does beside it.

**Settings forms** (same module).  `FormsHold` is from `FormsInv`, which has a part for
each page.  `CompanyInv`: a copy of the company row with the version of another agrees
with it but for what was typed (`CopiesOK`, `Trails`, `Agrees`); what is on its way was
typed (`TypedIsSent`); a save that is alone can be rolled back (`CanRollBack`: what it
puts back is what is stored, if its version is); quiet, the cache or the answer of the
read is the row (`QuietOK`).  The property says nothing of a rollback that is still to
come, and an optimistic cache is not the row: that is why none of these can be left out.
With three saves the parts also showed what two hid, `UntouchedAlwaysStay` and
`FactorsStayStored` above: `UntouchedStay` names the exception, `FactorsSurvive` says what
the form reads.  `FactorInv`: a field that a save leaves out has no factor behind it.
`KitInv`: a rate on its way is the one in the field, and a mark is there only when none is.

**The takeoff tab and the calculator** (`Money_proofs`).  `EntriesHold` has four parts.
`ScanInv`: a scan that is shown as saved, or that an upload or a reload is about to show so,
is on file, and nothing leaves the list.  `CellInv`: of a cell the estimator has left
once, every PATCH under way that names it carries the number of the field, and the row
has it or one of them will bring it (`OnItsWay`); a cell nobody has left is empty in row,
copy and answers alike (`Untouched`), so that an answer replacing the copy takes nothing back.
`KeyInv` says this of the discrepancy table, whose answers are not looked at.  `PaidInv`
has one half for each exception of the property.  While no draft came in late, what the
window shows to order is the newest request, every order under way is of it, and so is
what was charged (`OneShown`).  Of a request that was not `cut`, at most one order is
between its guard and its mark (`Busy`), none of these once it is marked, and a charge is
marked or about to be (`PaidAs`): this is what the guard, read some steps before the charge,
is worth.  `OrdersHold` is from `CardInv`: an entry's depth is one its row offers, also after
the rows have been exchanged (`CardsAgree` is used here alone); the rest is arithmetic
(`CeilCovers`), for any set `Overshoot`.

**Proposals** (`Proposal_proofs`).  `DocumentsOfTheirLead`: what each request carries at
each step is the lead it was picked for, whatever has been chosen since, and what the
creation re-anchors is what had been answered for.  `RendersComplete`: a document that is
drawn stays drawn while its own queries are answered (`StaysReady`), quiet and unscathed
means loaded, since queries do not wait for one another in a circle (`QuietIsLoaded`, from
`RenderAssumption`), and a row is inserted with the version after the last, once its
object is there.  `RegionStays`: an answer
of the server changes the choice only of a switcher that was not touched.  `PicksHold` is the
half of `PagesAreWhole` about people.  `PicksInv`: a picker lists only what its user may read
(`ListedIsReadable`), so what a form or a proposal holds and the roster still has is readable
to its rep; and the rep stays among the account managers, whom the switches of the org chart
cannot name, so that no row of the chart lacks a head.  `Composed` carries this from the form
to the proposal, whose order alone changes afterwards, and only while it exists.

**Approvals** (`Office_proofs`).  `ReviewInv` is what each approver knows at each
request of a series: that one runs where it was sent from (`InTurn`); that an estimate
that is being patched is still pending, and one about to be handed back is within the
ceiling just checked (`Timely`); that the copy has the margin of the estimate, and a
PATCH that moves it is followed by its row (`Follows`); that an approval that was
offered is within the approver's band once its PATCH is stored (`Within`).  The property
alone is not inductive: it says nothing of a PATCH that is still to be served when the
status is written, which `Timely` and the order of a series (`Series`) exclude.
`QueueLeads` also needs the ladder: without a gap some tab shows every value (`Climb`,
by the highest tab whose floor is below it; `SomeTab`), what is not over the tab of an
approver is within its band (`WithinBand`), and the server's ceiling, over both types,
is no lower (`Ceiling`).

**Asking for an estimate** (same module).  `FormsAreAsShown` and the part of `RequestsKept`
about the intake forms are from `AskInv`: the lead of the form is the one of its property
once no live lookup of it is under way, and lookups of other properties do not count
(`LeadInv`); the pieces a submission has stored follow from the statement it is at
(`Whole`), its number is its own; the uploads that are left are a tail of the list of the
click, and each file before it has its row (`Uploading`); with nothing lost, one draft call
is under way at a time, and the live draft is the one the form is bound to and was saved
last.

**Companies** (same module).  `SavedIsStored` counts: as many contacts as rows, alike ones
as often as they were typed.  `PanelInv` therefore carries a one-to-one match between the
contacts that are there and the rows already served (`Matched`), and the counts are read
off it at the end (`MatchedAreAsMany`).  While a company is made, the match grows row by
row (`Creating`).  While one is edited (`Editing`), a request is known to come from the rows
and the list at the click (`MadeFrom`), the list is the company when no news of it is under
way (`ListInStep`), and whoever is there has a row, was added, or is about to be deleted; a
row that is not yet as it should be is about to be updated (`Reached`).  That the form
shows every contact once (`DraftShowsContacts`) is a lemma on ranks.  A save that failed
tells nobody anything, but leaves the company between two states: the invariant must hold
there too, since the next save starts from it.

**Only model-checked, and why:**

- Liveness (`EveryRequestEnds`, `WonGetsCommission`, `SweepReachesEveryRow`,
  `MeasurementArrives`, `SaveEnds`, `EveryRenderAnswered`): fairness and ENABLED are out
  of the prover's reach.
- `LadderIsPaid` and `BidIsTrue`: sums over sets and sequences, which need
  induction over data.  The same holds for the chapters of `PagesAreWhole`
  (`EveryChapterOnce`), which filters and flattens sequences.

## 6. What is not modelled, and the plan

Next, most important first:

1. `LeadPromotion`: check-then-insert of leads; one active lead per property.
2. The edits of a section that recompute the split of the ITB project, and the pricing of
   components and mark-ups inside an editor.
3. `MigrationRunner`: detect, apply, record, with crashes.

Not planned: flat-rate commission plans (no ladder, so nothing that adds up); margin
bands, theme and the own profile (one form, one row); the leads desk, HOA panels,
catalogs, dashboards, reports, authorization predicates and serialization (no state that
steps of two actors share); Graph tokens, until it is known what the identity provider
does with a refresh token that was used twice.

## 7. Running it

    tlc -workers 2 -config CommissionService.cfg MCCommissionService.tla
    tlapm Money_proofs.tla

The module of a run is `MC` followed by its name, except for `EditorRetry`, which uses
`MCEditorSave`.  Most runs take seconds; `CrewRates`, `Proposal`, `Office` and `Settings`
one to three minutes.  The proofs take a minute or two each, `Office_proofs` about a
quarter of an hour.  To see a counterexample of section 4's tables, change the constant
in a copy of the `.cfg`, or add the definition there.
