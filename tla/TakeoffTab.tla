------------------------------ MODULE TakeoffTab -------------------------------
(* The Takeoff tab of one maintenance estimate: the scanned map that is uploaded *)
(* and handed off, the two blue cells of the estimator, and the panel that       *)
(* drafts and orders an automated takeoff.  Each window works on a copy of the   *)
(* estimate that the shell fetched; every answer of a PATCH replaces that copy.  *)
(* Requests are executed and answered apart, and the handlers of the panel stop  *)
(* at each statement and while they wait for Attentive.                          *)
EXTENDS Naturals, Sequences, FiniteSets

CONSTANTS
  Scans,         \* file names of scanned maps
  Numbers,       \* what a blue cell may hold
  Blank,         \* an empty cell, null
  Negative,      \* a number below zero
  None,
  Windows,       \* windows that have the panel of the estimate open
  Overlap,       \* whether the estimator works on while a request is under way
  MaxUploads,    \* scans chosen
  MaxEdits,      \* visits to a cell
  MaxClicks,     \* clicks on Create draft, Retry and Order
  MaxMishaps     \* requests that fail, or whose answer is lost

Field == {"turfAreaAcres", "curbMiles"}
CellValue == Numbers \cup {Blank}
Copy == [meta : [Field -> CellValue], status : {"in_progress", "approved", "handed_back"}]

TabAssumption ==
  /\ Cardinality(Scans) >= 1 /\ Blank \notin Numbers /\ Negative \notin CellValue
  /\ None # "Saved to estimate" /\ Overlap \in BOOLEAN
  /\ {MaxUploads, MaxEdits, MaxClicks, MaxMishaps} \subseteq Nat

VARIABLES
  estimate,      \* the server's row
  onFile,        \* the names of its confirmed takeoff_scan attachments, oldest first
  openEstimate,  \* the shell's copy
  draft,         \* the text of the two cells
  scan,          \* the scan on the map card, and whether it is marked as persisted
  load,          \* the reload of the persisted scan: what it will set
  uploads,       \* the uploads of this tab, each at its step
  uploadState,   \* useAttachmentUpload's state, which they share
  patches,       \* the two PATCHes that may be under way
  requests,      \* the beam_requests of the estimate, oldest first
  jobs,          \* the handlers that create a draft or order, each at its statement
  panel,         \* per window: the request it shows and the mutations under way
  late,          \* history: a draft came in when a window already showed one to order
  touched,       \* history, per cell: how often the estimator changed it
  mishaps

scanVars == <<onFile, scan, load, uploads, uploadState>>
metaVars == <<draft, touched>>
panelVars == <<requests, jobs, panel, late>>
vars == <<estimate, openEstimate, patches, mishaps, scanVars, metaVars, panelVars>>

NoScan == [file |-> None, persisted |-> FALSE]
NoPatch == [at |-> "idle", handOff |-> FALSE, body |-> <<>>, answer |-> None]
Unasked == [id |-> 0, remote |-> FALSE, submitted |-> FALSE]
NoPanel == [shows |-> Unasked, creating |-> 0, ordering |-> 0]

Init ==
  /\ estimate \in [meta : [Field -> {Blank}], status : {"in_progress", "approved"}]
  /\ onFile \in {<<>>} \cup {<<s>> : s \in Scans}
  /\ openEstimate = estimate /\ draft = estimate.meta
  /\ scan = NoScan /\ load = "asked" /\ uploads = <<>> /\ uploadState = "idle"
  /\ patches = [s \in 1..2 |-> NoPatch]
  /\ requests = <<>> /\ jobs = <<>> /\ panel = [w \in Windows |-> NoPanel] /\ late = FALSE
  /\ touched = [f \in Field |-> 0] /\ mishaps = 0

Mishap == mishaps < MaxMishaps /\ mishaps' = mishaps + 1

-----------------------------------------------------------------------------
(* The scan                                                                    *)

uploadBusy == uploadState \in {"presigning", "uploading", "confirming"}

\* useEffect of the mount: a scan that was chosen meanwhile stays.
LoadScan ==
  /\ load = "asked"
  /\ load' = IF onFile = <<>> THEN None ELSE onFile[Len(onFile)]
  /\ UNCHANGED <<estimate, openEstimate, patches, mishaps, onFile, scan, uploads, uploadState, metaVars, panelVars>>
LoadAnswered ==
  /\ load \notin {"asked", None}
  /\ scan' = IF scan = NoScan THEN [file |-> load, persisted |-> TRUE] ELSE scan
  /\ load' = None
  /\ UNCHANGED <<estimate, openEstimate, patches, mishaps, onFile, uploads, uploadState, metaVars, panelVars>>

\* handleFileChange: the preview first.  Nothing stops a second choice during an upload.
ChooseScan(f) ==
  /\ Len(uploads) < MaxUploads
  /\ scan' = [file |-> f, persisted |-> FALSE]
  /\ uploads' = Append(uploads, [file |-> f, at |-> "presigning"])
  /\ uploadState' = "presigning"
  /\ UNCHANGED <<estimate, openEstimate, patches, mishaps, onFile, load, metaVars, panelVars>>

\* upload: presign, PUT, confirm; the server has the scan with the confirmation.
UploadGoesOn(u) ==
  LET to == IF uploads[u].at = "presigning" THEN "uploading" ELSE "confirming"
  IN  /\ uploads[u].at \in {"presigning", "uploading"}
      /\ uploads' = [uploads EXCEPT ![u].at = to]
      /\ uploadState' = to
      /\ UNCHANGED <<estimate, openEstimate, patches, mishaps, onFile, scan, load, metaVars, panelVars>>
Confirm(u) ==
  /\ uploads[u].at = "confirming"
  /\ uploads' = [uploads EXCEPT ![u].at = "confirmed"]
  /\ onFile' = Append(onFile, uploads[u].file)
  /\ UNCHANGED <<estimate, openEstimate, patches, mishaps, scan, load, uploadState, metaVars, panelVars>>

\* Mutant of Saved: whatever is on the card is taken for the scan that was saved.
SavedAny(f) == [scan EXCEPT !.persisted = scan.file # None]

\* The functional set of the answer: only the scan of that name.
Saved(f) == IF scan.file = f THEN [scan EXCEPT !.persisted = TRUE] ELSE scan

UploadEnds(u) ==
  /\ uploads[u].at = "confirmed"
  /\ uploads' = [uploads EXCEPT ![u].at = "ended"]
  /\ scan' = Saved(uploads[u].file) /\ uploadState' = "done"
  /\ UNCHANGED <<estimate, openEstimate, patches, mishaps, onFile, load, metaVars, panelVars>>
\* A step that is refused, a PUT that breaks, an answer to the confirmation that is lost.
UploadFails(u) ==
  /\ uploads[u].at # "ended" /\ Mishap
  /\ uploads' = [uploads EXCEPT ![u].at = "ended"]
  /\ uploadState' = "error"
  /\ UNCHANGED <<estimate, openEstimate, patches, onFile, scan, load, metaVars, panelVars>>

ScanStep ==
  \/ LoadScan \/ LoadAnswered
  \/ \E f \in Scans : ChooseScan(f)
  \/ \E u \in DOMAIN uploads : UploadGoesOn(u) \/ Confirm(u) \/ UploadEnds(u) \/ UploadFails(u)

\* The text beside the file name.
scanStatusLabel ==
  IF uploadBusy THEN "Saving scan" ELSE IF uploadState = "error" THEN "Scan save failed"
  ELSE IF scan.persisted THEN "Saved to estimate" ELSE None

-----------------------------------------------------------------------------
(* The blue cells and the hand-off: PATCHes of the estimate                     *)

Idle(s) == patches[s].at = "idle"
handedOff == openEstimate.status = "handed_back"
handingOff == \E s \in 1..2 : ~Idle(s) /\ patches[s].handOff

\* Mutant of Body: a PATCH carries both cells as the window has them.
BodyAll(f, v) == [openEstimate.meta EXCEPT ![f] = v]
\* The columns that a PATCH of a cell carries.
Body(f, v) == [g \in {f} |-> v]

Send(s, handOff, body) ==
  /\ Idle(s) /\ (s = 1 \/ ~Idle(1))
  /\ Overlap \/ \A t \in 1..2 : Idle(t)
  /\ patches' = [patches EXCEPT ![s] = [at |-> "sent", handOff |-> handOff, body |-> body, answer |-> None]]

\* commitMeta on blur: an invalid text is left, a value the copy has is not sent.
LeaveCell(s, f, v) ==
  /\ draft' = [draft EXCEPT ![f] = v]
  /\ touched[f] + (IF v = draft[f] THEN 0 ELSE 1) <= MaxEdits
  /\ touched' = [touched EXCEPT ![f] = @ + (IF v = draft[f] THEN 0 ELSE 1)]
  /\ IF v = Negative \/ v = openEstimate.meta[f] THEN v # draft[f] /\ UNCHANGED patches /\ s = 1
     ELSE Send(s, FALSE, Body(f, v))
  /\ UNCHANGED <<estimate, openEstimate, mishaps, scanVars, panelVars>>

\* handleAttachHandOff.
AttachHandOff(s) ==
  /\ ~handedOff /\ ~handingOff /\ ~uploadBusy
  /\ Send(s, TRUE, <<>>)
  /\ UNCHANGED <<estimate, openEstimate, mishaps, scanVars, metaVars, panelVars>>

\* update_estimate: the answer is the row as it is then.  Only an approved estimate
\* is handed back; anything else is refused.
Execute(s) ==
  LET p == patches[s]
      meta == [f \in Field |-> IF f \in DOMAIN p.body THEN p.body[f] ELSE estimate.meta[f]]
      row == [meta |-> meta, status |-> IF p.handOff THEN "handed_back" ELSE estimate.status]
      legal == p.handOff => estimate.status = "approved"
  IN  /\ p.at = "sent"
      /\ estimate' = IF legal THEN row ELSE estimate
      /\ patches' = [patches EXCEPT ![s].at = "executed", ![s].answer = IF legal THEN row ELSE None]
      /\ UNCHANGED <<openEstimate, mishaps, scanVars, metaVars, panelVars>>
Answered(s) ==
  /\ patches[s].at = "executed"
  /\ openEstimate' = IF patches[s].answer = None THEN openEstimate ELSE patches[s].answer
  /\ patches' = [patches EXCEPT ![s] = NoPatch]
  /\ UNCHANGED <<estimate, mishaps, scanVars, metaVars, panelVars>>
PatchFails(s) ==
  /\ ~Idle(s) /\ Mishap
  /\ patches' = [patches EXCEPT ![s] = NoPatch]
  /\ UNCHANGED <<estimate, openEstimate, scanVars, metaVars, panelVars>>

PatchStep ==
  \E s \in 1..2 :
    \/ \E f \in Field, v \in CellValue \cup {Negative} : LeaveCell(s, f, v)
    \/ AttachHandOff(s) \/ Execute(s) \/ Answered(s) \/ PatchFails(s)

-----------------------------------------------------------------------------
(* The automated takeoff                                                       *)

\* A request that never reached Attentive: the draft may be tried again.
isDraftBroken(r) == r.id # 0 /\ ~r.remote

\* latest_for_estimate, then get_request.
Latest(rs) == IF rs = <<>> THEN Unasked
              ELSE [id |-> Len(rs), remote |-> rs[Len(rs)].remote, submitted |-> rs[Len(rs)].submitted]

Click(kind, r) ==
  /\ Len(jobs) < MaxClicks
  /\ jobs' = Append(jobs, [kind |-> kind, request |-> r, at |-> "begin"])
  /\ UNCHANGED <<estimate, openEstimate, patches, mishaps, requests, late, scanVars, metaVars>>

\* handleCreateDraft, handleRetryDraft.
CreateDraft(w) ==
  LET r == panel[w].shows IN
  /\ r.id = 0 \/ isDraftBroken(r)
  /\ panel[w].creating = 0
  /\ Click("draft", 0)
  /\ panel' = [panel EXCEPT ![w].creating = Len(jobs) + 1]

\* handleGenerate: offered until the window has seen that the takeoff is ordered.
Order(w) ==
  LET r == panel[w].shows IN
  /\ r.remote /\ ~r.submitted /\ panel[w].ordering = 0
  /\ Click("order", r.id)
  /\ panel' = [panel EXCEPT ![w].ordering = Len(jobs) + 1]

\* useBeamTakeoff: fetched again when the window gets the focus.
Refetch(w) ==
  /\ panel[w].shows # Latest(requests)
  /\ panel' = [panel EXCEPT ![w].shows = Latest(requests)]
  /\ UNCHANGED <<estimate, openEstimate, patches, mishaps, requests, jobs, late, scanVars, metaVars>>

\* A success is not over before the query it invalidates is fetched again; after a
\* failure the window shows what it showed.
Over(w, kind) ==
  LET k == panel[w][kind] IN
  /\ k # 0 /\ jobs[k].at \in {"answered", "failed"}
  /\ panel' = [panel EXCEPT ![w][kind] = 0,
                            ![w].shows = IF jobs[k].at = "answered" THEN Latest(requests) ELSE @]
  /\ UNCHANGED <<estimate, openEstimate, patches, mishaps, requests, jobs, late, scanVars, metaVars>>
\* The answer is lost, or not waited for: the handler goes on.
GiveUp(w, kind) ==
  /\ panel[w][kind] # 0 /\ Mishap
  /\ panel' = [panel EXCEPT ![w][kind] = 0]
  /\ UNCHANGED <<estimate, openEstimate, patches, requests, jobs, late, scanVars, metaVars>>

\* create_draft: the row is inserted before Attentive is asked.
Insert(k) ==
  /\ jobs[k].kind = "draft" /\ jobs[k].at = "begin"
  /\ requests' = Append(requests, [remote |-> FALSE, submitted |-> FALSE, billed |-> 0, cut |-> FALSE])
  /\ jobs' = [jobs EXCEPT ![k].at = "asking", ![k].request = Len(requests) + 1]
  /\ late' = (late \/ \E w \in Windows : panel[w].shows.remote)
  /\ UNCHANGED <<estimate, openEstimate, patches, mishaps, panel, scanVars, metaVars>>

\* Mutant of AlreadyOrdered: the spend guard is not read.
NeverOrdered(r) == FALSE
AlreadyOrdered(r) == requests[r].submitted

\* generate: the guard, as it is before Attentive is asked.  cut remembers that two
\* orders of the request are under way.
Guard(k) ==
  LET r == jobs[k].request
      another == \E j \in DOMAIN jobs : jobs[j].kind = "order" /\ jobs[j].request = r /\ jobs[j].at \in {"asking", "mark"}
  IN  /\ jobs[k].kind = "order" /\ jobs[k].at = "begin"
      /\ jobs' = [jobs EXCEPT ![k].at = IF AlreadyOrdered(r) THEN "answered" ELSE "asking"]
      /\ requests' = [requests EXCEPT ![r].cut = @ \/ (another /\ ~AlreadyOrdered(r))]
      /\ UNCHANGED <<estimate, openEstimate, patches, mishaps, panel, late, scanVars, metaVars>>

OneMore(n) == IF n = 2 THEN 2 ELSE n + 1

\* What Attentive does and answers.  An order is charged for even if its answer is lost;
\* both handlers answer 502 without one.
Attentive(k, answer) ==
  LET r == jobs[k].request IN
  /\ jobs[k].at = "asking"
  /\ IF answer = "lost" THEN Mishap ELSE UNCHANGED mishaps
  /\ jobs' = [jobs EXCEPT ![k].at = IF answer = "ok" THEN "mark" ELSE "failed"]
  /\ requests' = IF jobs[k].kind = "draft" \/ answer = "refused" THEN requests
                 ELSE [requests EXCEPT ![r].billed = OneMore(@), ![r].cut = @ \/ answer = "lost"]
  /\ UNCHANGED <<estimate, openEstimate, patches, panel, late, scanVars, metaVars>>

\* The UPDATE after Attentive's answer: attentive_request_id, or submitted_at.
Mark(k) ==
  LET r == jobs[k].request IN
  /\ jobs[k].at = "mark"
  /\ jobs' = [jobs EXCEPT ![k].at = "answered"]
  /\ requests' = IF jobs[k].kind = "draft" THEN [requests EXCEPT ![r].remote = TRUE]
                 ELSE [requests EXCEPT ![r].submitted = TRUE]
  /\ UNCHANGED <<estimate, openEstimate, patches, mishaps, panel, late, scanVars, metaVars>>

\* A statement fails, or the process dies.
BreakOff(k) ==
  LET r == jobs[k].request IN
  /\ jobs[k].at \in {"begin", "asking", "mark"} /\ Mishap
  /\ jobs' = [jobs EXCEPT ![k].at = "failed"]
  /\ requests' = IF jobs[k].kind = "order" /\ jobs[k].at = "mark"
                 THEN [requests EXCEPT ![r].cut = TRUE] ELSE requests
  /\ UNCHANGED <<estimate, openEstimate, patches, panel, late, scanVars, metaVars>>

PanelStep ==
  \/ \E w \in Windows :
       \/ CreateDraft(w) \/ Order(w) \/ Refetch(w)
       \/ \E kind \in {"creating", "ordering"} : Over(w, kind) \/ GiveUp(w, kind)
  \/ \E k \in DOMAIN jobs :
       \/ Insert(k) \/ Guard(k) \/ Mark(k) \/ BreakOff(k)
       \/ \E answer \in {"ok", "refused", "lost"} : Attentive(k, answer)

Next == ScanStep \/ PatchStep \/ PanelStep
Spec == Init /\ [][Next]_vars

-----------------------------------------------------------------------------
Numbered == {onFile[i] : i \in DOMAIN onFile}

\* "Saved to estimate" beside a file name means that a scan of that name is stored,
\* whichever upload, failure or reload answered last.  Code: handleFileChange and the
\* effect that reloads the persisted scan.
SavedScanIsStored == scanStatusLabel = "Saved to estimate" => scan.file \in Numbered

\* A cell the estimator changed once is stored as typed, and one that nobody wrote is as
\* it was, in whatever order the two cells' PATCHes and the hand-off are executed and
\* answered.  Code: commitMeta and update_estimate.
TypedOnceIsStored ==
  mishaps = 0 /\ (\A s \in 1..2 : Idle(s)) =>
    \A f \in Field : draft[f] # Negative =>
      /\ touched[f] = 0 => estimate.meta[f] = Blank
      /\ touched[f] = 1 => estimate.meta[f] = draft[f]

\* However often a draft is retried, an order repeated, an answer lost or not waited for,
\* Attentive charges for one request of the estimate, unless the row of a draft came when
\* the window already had one to order; and for that request once, unless two orders
\* of it crossed or one broke off between Attentive's answer and its submitted_at.
\* Code: BeamTakeoffPanel, create_draft and generate.
OneTakeoffPaid ==
  \A r \in DOMAIN requests : requests[r].billed > 0 =>
    /\ late \/ \A q \in DOMAIN requests : requests[q].billed > 0 => q = r
    /\ requests[r].cut \/ requests[r].billed = 1
================================================================================
