----------------------------- MODULE BeamTakeoff ------------------------------
(***************************************************************************)
(* One takeoff request at Attentive and the estimate it measures for: the  *)
(* order that costs money, Attentive's callbacks, and the ingest that      *)
(* re-fetches the measurements and writes them into a section or flags the *)
(* estimate.  One measured area of one section stands for them all: it has *)
(* versions, since Attentive's outputs change after delivery.  Handlers,   *)
(* ingest tasks and the sweep interleave between SQL statements and calls. *)
(***************************************************************************)
EXTENDS Naturals, Sequences, FiniteSetsExt

CONSTANTS
    Click,          \* requests to generate the takeoff that may run at once
    Proc,           \* ingest tasks (and sweeps) that may run at the same time
    Value,          \* square feet of each version of the measurement
    NoValue,        \* SQL NULL
    Entered,        \* square feet an estimator may type into the section
    Answers,        \* what the order may come to: "ok", "refused" or "lost"
    MayOverlap      \* whether an estimator works while an ingest runs

Version == DOMAIN Value

ASSUME TakeoffAssumption ==
    /\ Value \in Seq(Nat)
    /\ NoValue \notin Nat
    /\ Entered \subseteq Nat
    /\ Answers \subseteq {"ok", "refused", "lost"}
    /\ MayOverlap \in BOOLEAN

VARIABLES
    request,        \* the beam_requests row: status, submitted_at set
    outputs,        \* the beam_outputs rows, by version: stored, applied_value
    section,        \* the estimate_sections row
    priced,         \* the estimate's status is past UNPRICED_STATUSES
    flag,           \* estimates.takeoff_changed_at is set
    click,          \* the statement each generate request executes next
    task,           \* the statement of each ingest, and what it has read
    attentive,      \* Attentive: status of the request, version of its output
    orders,         \* Attentive: takeoffs billed for the request (2: several)
    notice,         \* Attentive: a callback that is not acknowledged yet
    wrote,          \* history: the total Beam last wrote into the section
    reviewed,       \* history: the newest version stored at the last accept
    mishap          \* history: whether a crash has cut anything short

beamRows == <<request, outputs, section, priced, flag>>
outside == <<attentive, orders, notice>>
history == <<wrote, reviewed, mishap>>
vars == <<beamRows, click, task, outside, history>>

\* failed is swept as little as completed, investigating as much as queued.
RequestStatus == {"draft", "queued", "in_progress", "completed"}

Swept == {"queued", "in_progress"}

OptValue == Nat \cup {NoValue}

Step == {"idle", "get_request", "get_outputs", "persist_request", "persist_outputs",
         "read_estimate", "read_latest", "read_section", "read_applied",
         "insert", "update", "record", "flag"}

Idle == [at |-> "idle", status |-> "draft", version |-> 0, priced |-> FALSE,
         sqft |-> 0]

BeamTypeOK ==
    /\ request \in [status : RequestStatus, submitted : BOOLEAN]
    /\ outputs \in [Version -> [stored : BOOLEAN, applied : OptValue]]
    /\ section \in [exists : BOOLEAN, sqft : Nat]
    /\ priced \in BOOLEAN /\ flag \in BOOLEAN
    /\ click \in [Click -> {"idle", "order", "persist"}]
    /\ task \in [Proc -> [at : Step, status : RequestStatus, version : {0} \cup Version,
                          priced : BOOLEAN, sqft : Nat]]
    /\ attentive \in [status : RequestStatus, version : {0} \cup Version]
    /\ orders \in 0..2
    /\ notice \in BOOLEAN /\ mishap \in BOOLEAN
    /\ wrote \in OptValue
    /\ reviewed \in {0} \cup Version

Unwritten == [exists |-> FALSE, sqft |-> 0]

\* After create_draft: free of cost, and the request is known to Attentive.
Init ==
    /\ request = [status |-> "draft", submitted |-> FALSE]
    /\ outputs = [v \in Version |-> [stored |-> FALSE, applied |-> NoValue]]
    /\ section = Unwritten
    /\ priced = FALSE /\ flag = FALSE
    /\ click = [c \in Click |-> "idle"]
    /\ task = [p \in Proc |-> Idle]
    /\ attentive = [status |-> "draft", version |-> 0]
    /\ orders = 0
    /\ notice = FALSE
    /\ wrote = NoValue /\ reviewed = 0 /\ mishap = FALSE

-----------------------------------------------------------------------------

Quiet == \A p \in Proc : task[p].at = "idle"

Stored == {v \in Version : outputs[v].stored}

\* _latest_outputs: MAX(output_updated_at).
Newest == IF Stored = {} THEN 0 ELSE Max(Stored)

Goto(p, step) == task' = [task EXCEPT ![p].at = step]

\* _mark_sync and the return of the result.
Finish(p) == task' = [task EXCEPT ![p] = Idle]

(* POST .../generate: the billable call ---------------------------------------*)

\* submitted_at is the spend guard.
Generate(c) ==
    /\ click[c] = "idle"
    /\ ~request.submitted
    /\ click' = [click EXCEPT ![c] = "order"]
    /\ UNCHANGED <<beamRows, task, outside, history>>

\* "lost": Attentive took the order and the answer timed out; the 502 is the
\* same as that of a refusal.
Order(c, answer) ==
    /\ click[c] = "order"
    /\ click' = [click EXCEPT ![c] = IF answer = "ok" THEN "persist" ELSE "idle"]
    /\ IF answer = "refused" THEN UNCHANGED <<attentive, orders>>
       ELSE /\ orders' = Min({orders + 1, 2})
            /\ attentive' = IF attentive.status = "draft"
                            THEN [attentive EXCEPT !.status = "queued"] ELSE attentive
    /\ UNCHANGED <<beamRows, task, notice, history>>

\* Mutant of PersistOrder: submitted_at is not written.
PersistStatusOnly(c) ==
    /\ click[c] = "persist"
    /\ click' = [click EXCEPT ![c] = "idle"]
    /\ request' = [request EXCEPT !.status = "queued"]
    /\ UNCHANGED <<outputs, section, priced, flag, task, outside, history>>

PersistOrder(c) ==
    /\ click[c] = "persist"
    /\ click' = [click EXCEPT ![c] = "idle"]
    /\ request' = [status |-> "queued", submitted |-> TRUE]
    /\ UNCHANGED <<outputs, section, priced, flag, task, outside, history>>

(* Attentive ------------------------------------------------------------------*)

\* request_generate, request_complete and output_edit call back.
AttentiveAccepts ==
    /\ attentive.status = "queued"
    /\ attentive' = [attentive EXCEPT !.status = "in_progress"]
    /\ notice' = TRUE
    /\ UNCHANGED <<beamRows, click, task, orders, history>>

AttentiveDelivers ==
    /\ attentive.status \in {"in_progress", "completed"}
    /\ attentive.version + 1 \in Version
    /\ attentive' = [status |-> "completed", version |-> attentive.version + 1]
    /\ notice' = TRUE
    /\ UNCHANGED <<beamRows, click, task, orders, history>>

(* What starts an ingest --------------------------------------------------------*)

Start(p) ==
    /\ task[p].at = "idle"
    /\ task' = [task EXCEPT ![p].at = "get_request"]

\* attentive_callback answers, then ingests; Attentive may miss the answer and
\* call again.
Callback(p) ==
    /\ notice
    /\ Start(p)
    /\ notice' \in BOOLEAN
    /\ UNCHANGED <<beamRows, click, attentive, orders, history>>

\* Mutant of Sweep: only requests of our own order.
SweepQueued(p) ==
    /\ request.status = "queued"
    /\ Start(p)
    /\ UNCHANGED <<beamRows, click, outside, history>>

Sweep(p) ==
    /\ request.status \in Swept
    /\ Start(p)
    /\ UNCHANGED <<beamRows, click, outside, history>>

(* ingest_request ---------------------------------------------------------------*)

GetRequest(p) ==
    /\ task[p].at = "get_request"
    /\ task' = [task EXCEPT ![p].at = "get_outputs", ![p].status = attentive.status]
    /\ UNCHANGED <<beamRows, click, outside, history>>

GetOutputs(p) ==
    /\ task[p].at = "get_outputs"
    /\ task' = [task EXCEPT ![p].at = "persist_request", ![p].version = attentive.version]
    /\ UNCHANGED <<beamRows, click, outside, history>>

\* A BeamError of either call: the sync is marked failed, nothing else.
FetchFails(p) ==
    /\ task[p].at \in {"get_request", "get_outputs"}
    /\ Finish(p)
    /\ UNCHANGED <<beamRows, click, outside, history>>

PersistRequest(p) ==
    /\ task[p].at = "persist_request"
    /\ request' = [request EXCEPT !.status = task[p].status]
    /\ Goto(p, "persist_outputs")
    /\ UNCHANGED <<outputs, section, priced, flag, click, outside, history>>

\* INSERT IGNORE: a version that is stored stays as it is.
PersistOutputs(p) ==
    /\ task[p].at = "persist_outputs"
    /\ outputs' = [v \in Version |-> IF v = task[p].version
                                     THEN [outputs[v] EXCEPT !.stored = TRUE]
                                     ELSE outputs[v]]
    /\ Goto(p, "read_estimate")
    /\ UNCHANGED <<request, section, priced, flag, click, outside, history>>

(* _apply_or_flag ---------------------------------------------------------------*)

ReadEstimate(p) ==
    /\ task[p].at = "read_estimate"
    /\ task' = [task EXCEPT ![p].at = "read_latest", ![p].priced = priced]
    /\ UNCHANGED <<beamRows, click, outside, history>>

\* Nothing measured leaves an unpriced estimate alone.
ReadLatest(p) ==
    /\ task[p].at = "read_latest"
    /\ \/ /\ task[p].priced
          /\ Goto(p, "flag")
       \/ /\ ~task[p].priced /\ Newest = 0
          /\ Finish(p)
       \/ /\ ~task[p].priced /\ Newest # 0
          /\ task' = [task EXCEPT ![p].at = "read_section", ![p].version = Newest]
    /\ UNCHANGED <<beamRows, click, outside, history>>

ReadSection(p) ==
    /\ task[p].at = "read_section"
    /\ task' = [task EXCEPT ![p].at = IF section.exists THEN "read_applied" ELSE "insert",
                            ![p].sqft = section.sqft]
    /\ UNCHANGED <<beamRows, click, outside, history>>

\* Rows of which SUM(applied_value) is taken: of every version ever applied.
Applied == {v \in Version : outputs[v].applied # NoValue}

\* _previously_applied_total, where anything was applied.
Previous == MapThenSumSet(LAMBDA v : outputs[v].applied, Applied)

\* The section holds what Beam last wrote, or nothing at all: the total is None
\* before Beam has written the section.
Untouched(sqft) == sqft = IF Applied = {} THEN 0 ELSE Previous

\* Mutants of ReadApplied: the section is not compared; a changed one is left
\* without a flag.
ReadNothing(p) ==
    /\ task[p].at = "read_applied"
    /\ Goto(p, "update")
    /\ UNCHANGED <<beamRows, click, outside, history>>

ReadAppliedSilently(p) ==
    /\ task[p].at = "read_applied"
    /\ IF Untouched(task[p].sqft) THEN Goto(p, "update") ELSE Finish(p)
    /\ UNCHANGED <<beamRows, click, outside, history>>

ReadApplied(p) ==
    /\ task[p].at = "read_applied"
    /\ Goto(p, IF Untouched(task[p].sqft) THEN "update" ELSE "flag")
    /\ UNCHANGED <<beamRows, click, outside, history>>

\* INSERT, or UPDATE, of the section's square_feet.
WriteSection(p) ==
    /\ task[p].at \in {"insert", "update"}
    /\ LET total == Value[task[p].version] IN
       /\ section' = IF task[p].at = "insert" \/ section.exists
                     THEN [exists |-> TRUE, sqft |-> total] ELSE section
       /\ wrote' = total
    /\ Goto(p, "record")
    /\ UNCHANGED <<request, outputs, priced, flag, click, outside, reviewed, mishap>>

\* applied_to_section_id and applied_value of the version that was written.
RecordApplied(p) ==
    /\ task[p].at = "record"
    /\ outputs' = [outputs EXCEPT ![task[p].version].applied = Value[task[p].version]]
    /\ Finish(p)
    /\ UNCHANGED <<request, section, priced, flag, click, outside, history>>

FlagEstimate(p) ==
    /\ task[p].at = "flag"
    /\ flag' = TRUE
    /\ Finish(p)
    /\ UNCHANGED <<request, outputs, section, priced, click, outside, history>>

Ingest(p) ==
    \/ PersistRequest(p) \/ PersistOutputs(p) \/ ReadEstimate(p) \/ ReadLatest(p)
    \/ ReadSection(p) \/ ReadApplied(p) \/ WriteSection(p) \/ RecordApplied(p)
    \/ FlagEstimate(p)

(* The estimator ----------------------------------------------------------------*)

AtWork == (MayOverlap \/ Quiet) /\ UNCHANGED <<request, click, task, outside, mishap>>

\* PATCH or POST of the section: the estimator's own number.
Enter(n) ==
    /\ AtWork
    /\ section' = [exists |-> TRUE, sqft |-> n]
    /\ UNCHANGED <<outputs, priced, flag, wrote, reviewed>>

\* A new section of that name has a new id, which no output was applied to.
DeleteSection ==
    /\ AtWork
    /\ section.exists
    /\ section' = Unwritten
    /\ outputs' = [v \in Version |-> [outputs[v] EXCEPT !.applied = NoValue]]
    /\ wrote' = NoValue
    /\ UNCHANGED <<priced, flag, reviewed>>

\* The estimate goes to review, or back to in_progress.
Price ==
    /\ AtWork
    /\ priced' = ~priced
    /\ UNCHANGED <<outputs, section, flag, wrote, reviewed>>

\* accept_changes.
Accept ==
    /\ AtWork
    /\ flag' = FALSE
    /\ reviewed' = Newest
    /\ UNCHANGED <<outputs, section, priced, wrote>>

Crash ==
    /\ \/ \E p \in Proc : task[p].at # "idle"
       \/ \E c \in Click : click[c] # "idle"
    /\ click' = [c \in Click |-> "idle"]
    /\ task' = [p \in Proc |-> Idle]
    /\ mishap' = TRUE
    /\ UNCHANGED <<beamRows, outside, wrote, reviewed>>

Next ==
    \/ \E c \in Click :
          Generate(c) \/ PersistOrder(c) \/ \E answer \in Answers : Order(c, answer)
    \/ AttentiveAccepts \/ AttentiveDelivers
    \/ \E p \in Proc :
          \/ Callback(p) \/ Sweep(p) \/ GetRequest(p) \/ GetOutputs(p) \/ FetchFails(p)
          \/ Ingest(p)
    \/ \E n \in Entered : Enter(n)
    \/ DeleteSection \/ Price \/ Accept
    \/ Crash

Spec == Init /\ [][Next]_vars

\* The event loop runs handlers, tasks and the sweep; Attentive works off what
\* was ordered, and does not fail every fetch.
FairSpec ==
    /\ Spec
    /\ \A c \in Click : WF_vars(PersistOrder(c))
    /\ WF_vars(AttentiveAccepts) /\ WF_vars(AttentiveDelivers)
    /\ \A p \in Proc :
          /\ WF_vars(Sweep(p)) /\ WF_vars(Ingest(p))
          /\ SF_vars(GetRequest(p)) /\ SF_vars(GetOutputs(p))

-----------------------------------------------------------------------------

\* The section has a number that is not the one Beam wrote last.  A zero counts
\* as one only while no crash can have cut WriteSection off from RecordApplied:
\* a zero in a section Beam has no record of is an empty section.
EstimatorOwns ==
    /\ section.exists
    /\ section.sqft # IF wrote = NoValue THEN 0 ELSE wrote
    /\ mishap => section.sqft # 0

\* "submitted_at makes a double-submit or a network retry a no-op instead of a
\* second order" (beam_routes.py): Attentive bills one takeoff.  It does not hold
\* when the answer to the order is lost (README).
OrderedOnce == orders < 2

\* Without a crash between the order and its UPDATE, no sequence of ingests and
\* edits makes a later click order again: an ingest rewrites the status of the
\* row the guard reads, never the guard.
\* Code: generate and _persist_request.
OrderedOnceUnlessCut == mishap \/ OrderedOnce

\* "the section still holds exactly what we last wrote": over any sequence of
\* deliveries, edits and crashes an ingest never overwrites an estimator's number.
\* Code: _apply_group.
EstimatorsNumberKept ==
    [][EstimatorOwns => \A p \in Proc : ~WriteSection(p)]_vars

\* "Otherwise it flags, and an estimator accepts the diff": once an ingest is
\* through, a number of Beam's still in the section is the newest measurement, or
\* the estimate is flagged, or the estimator has accepted that version.
\* Code: _apply_or_flag.
NoSilentDrift ==
    /\ BeamTypeOK
    /\ Quiet /\ ~mishap /\ wrote # NoValue /\ section.sqft = wrote =>
          wrote = Value[Newest] \/ flag \/ reviewed >= Newest

\* A takeoff that was ordered gets into the database, callbacks, failed fetches
\* and the estimator's work notwithstanding.
\* Code: the callback and sweep_once.
MeasurementArrives == orders > 0 ~> Stored # {} \/ mishap

\* "only while the estimate is unpriced and the section still holds exactly what
\* we last wrote.  Otherwise it flags" (beam_sync.py): an unpriced estimate is not
\* flagged while nobody has touched the section.  It does not hold once two
\* versions were applied, of which the code takes the sum (README).
OnlyTouchedIsFlagged ==
    [][~mishap /\ ~flag /\ flag' => priced \/ EstimatorOwns]_vars
=============================================================================
