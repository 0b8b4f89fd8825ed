---------------------------- MODULE ProposalRender ----------------------------
(***************************************************************************)
(* The PDF of a proposal: a toolbar asks for a render, the server reads    *)
(* the next version, waits for a slot, opens the print route in headless   *)
(* Chromium, waits for a quiet network and for __PROPOSAL_READY__,         *)
(* captures the page, uploads the file and inserts its row.                *)
(*                                                                         *)
(* The page is a set of queries, each retried once after a second.  Some   *)
(* gate the document (useProposalDocument), some are the document's own    *)
(* (ProposalPreview, InsurancePage) and start when it is drawn; an image   *)
(* starts when the answer that names it is drawn, and is not retried.      *)
(***************************************************************************)
EXTENDS Naturals, FiniteSets

CONSTANTS
  Toolbar,         \* mounted toolbars with a Generate PDF button
  Query,           \* what the print route loads
  Needs,           \* the queries whose answer a query waits for
  Required,        \* the document is not drawn without these
  Own,             \* loaded by the document itself, once drawn
  Images,          \* loaded by the browser
  MaxConcurrency,  \* PDF_MAX_CONCURRENCY
  MaxRenders,      \* bound: renders asked for
  MaxFailures      \* bound: requests, files and statements that fail

\* A gating query waits for gating queries, and no queries wait for one another.
ASSUME RenderAssumption ==
  /\ Needs \in [Query -> SUBSET Query] /\ Required \subseteq Query \ Own
  /\ Images \subseteq Own /\ Own \subseteq Query /\ MaxConcurrency \in Nat \ {0}
  /\ \A q \in Query \ Own : Needs[q] \subseteq Query \ Own
  /\ \A S \in SUBSET Query : S # {} => \E q \in S : Needs[q] \cap S = {}
  /\ MaxRenders \in Nat /\ MaxFailures \in Nat

VARIABLES
  pc,        \* where the render of a toolbar is
  version,   \* the version it read
  page,      \* the page it has open
  pdf,       \* what the page held when it was captured
  free,      \* slots of the semaphore
  objects,   \* the render whose file is under each version's key
  records,   \* proposal_renders: <<version, render>>
  latest,    \* estimates.latest_proposal_render_id: a version, or 0
  renders, failures

disk == <<objects, records, latest>>
renderVars == <<pc, version, page, pdf, free, disk, renders, failures>>

QueryStates == {"off", "flight", "wait", "again", "ok", "failed"}
\* The steps of settle: waiting for the data, for the fonts, for the images.
Settling == {"data", "fonts", "images", "ready", "stuck"}

InFlight(q) == q \in {"flight", "again"}
Loading(q) == q \in {"flight", "wait", "again"}
Loaded(query) == {q \in Query : query[q] = "ok"}

\* Mutant of Ready: the signer is not waited for.
ReadyWithoutSigner(query) == \A q \in Required : query[q] = "ok"

\* useProposalDocument: !!proposal && !!lead && !loading.
Ready(query) ==
  /\ \A q \in Required : query[q] = "ok"
  /\ \A q \in Query \ Own : ~Loading(query[q])

\* A render of the components: what has its id is asked for, and what the document
\* loads once it is drawn.
Start(query, among) ==
  [q \in Query |-> IF q \in among /\ query[q] = "off" /\ Needs[q] \subseteq Loaded(query)
                     THEN "flight" ELSE query[q]]
Drawn(query) ==
  LET gate == Start(query, Query \ Own)
  IN  IF Ready(gate) THEN Start(gate, Own) ELSE gate

\* The page with other queries: settle starts when the data is ready.
Showing(p, query) ==
  [p EXCEPT !.query = Drawn(query),
            !.settle = IF @ = "data" /\ Ready(Drawn(query)) THEN "fonts" ELSE @]

Blank == [query |-> [q \in Query |-> "off"], settle |-> "data", decoding |-> {},
          idle |-> FALSE, retried |-> FALSE]

Unprinted == [query |-> Blank.query, retried |-> FALSE]

\* The request is answered: its locals are gone.
Responded(t) ==
  /\ pc' = [pc EXCEPT ![t] = "idle"] /\ version' = [version EXCEPT ![t] = 0]
  /\ pdf' = [pdf EXCEPT ![t] = Unprinted]

Failure == failures < MaxFailures /\ failures' = failures + 1

-----------------------------------------------------------------------------

RenderInit ==
  /\ pc = [t \in Toolbar |-> "idle"] /\ version = [t \in Toolbar |-> 0]
  /\ page = [t \in Toolbar |-> Blank]
  /\ pdf = [t \in Toolbar |-> Unprinted]
  /\ free = MaxConcurrency /\ objects = <<>> /\ records = {} /\ latest = 0
  /\ renders = 0 /\ failures = 0

\* Generate PDF: disabled while the mutation of this toolbar is pending.
Generate(t) ==
  /\ pc[t] = "idle" /\ renders < MaxRenders
  /\ pc' = [pc EXCEPT ![t] = "asked"] /\ renders' = renders + 1
  /\ UNCHANGED <<version, page, pdf, free, disk, failures>>

Versions == {row[1] : row \in records}
MaxVersion == IF records = {} THEN 0 ELSE CHOOSE v \in Versions : \A w \in Versions : w <= v

\* SELECT MAX(version) + 1, and the token of the page is minted.
ReadVersion(t) ==
  /\ pc[t] = "asked"
  /\ pc' = [pc EXCEPT ![t] = "slot"] /\ version' = [version EXCEPT ![t] = MaxVersion + 1]
  /\ UNCHANGED <<page, pdf, free, disk, renders, failures>>

\* async with _semaphore: the page of this render opens and its first queries start.
Open(t) ==
  /\ pc[t] = "slot" /\ free > 0
  /\ pc' = [pc EXCEPT ![t] = "page"] /\ free' = free - 1
  /\ page' = [page EXCEPT ![t] = Showing(Blank, Blank.query)]
  /\ UNCHANGED <<version, pdf, disk, renders, failures>>

Answer(t, q) ==
  /\ pc[t] = "page" /\ InFlight(page[t].query[q])
  /\ page' = [page EXCEPT ![t] = Showing(@, [@.query EXCEPT ![q] = "ok"])]
  /\ UNCHANGED <<pc, version, pdf, free, disk, renders, failures>>

\* retry: 1. An image is not retried.
Reject(t, q) ==
  LET again == page[t].query[q] = "flight" /\ q \notin Images IN
  /\ pc[t] = "page" /\ InFlight(page[t].query[q]) /\ Failure
  /\ page' = [page EXCEPT ![t] =
                [Showing(@, [@.query EXCEPT ![q] = IF again THEN "wait" ELSE "failed"])
                   EXCEPT !.retried = TRUE]]
  /\ UNCHANGED <<pc, version, pdf, free, disk, renders>>

Retry(t, q) ==
  /\ pc[t] = "page" /\ page[t].query[q] = "wait"
  /\ page' = [page EXCEPT ![t].query[q] = "again"]
  /\ UNCHANGED <<pc, version, pdf, free, disk, renders, failures>>

\* settle: every brand face is loaded, then the images of the document are looked up.
FontsLoaded(t) ==
  /\ pc[t] = "page" /\ page[t].settle = "fonts"
  /\ page' = [page EXCEPT ![t].settle = "images",
                          ![t].decoding = {q \in Images : InFlight(page[t].query[q])}]
  /\ UNCHANGED <<pc, version, pdf, free, disk, renders, failures>>

\* A brand face is missing: the flag stays false.
FontsMissing(t) ==
  /\ pc[t] = "page" /\ page[t].settle = "fonts" /\ Failure
  /\ page' = [page EXCEPT ![t].settle = "stuck"]
  /\ UNCHANGED <<pc, version, pdf, free, disk, renders>>

\* Those images are decoded or given up and the layout has settled: the pages are
\* measured and the flag is set.
FlagReady(t) ==
  /\ pc[t] = "page" /\ page[t].settle = "images"
  /\ \A q \in page[t].decoding : ~InFlight(page[t].query[q])
  /\ page' = [page EXCEPT ![t].settle = "ready", ![t].decoding = {}]
  /\ UNCHANGED <<pc, version, pdf, free, disk, renders, failures>>

\* page.goto(wait_until="networkidle") returns: nothing was in flight for 500 ms.
NetworkIdle(t) ==
  /\ pc[t] = "page" /\ ~page[t].idle
  /\ \A q \in Query : ~InFlight(page[t].query[q])
  /\ page' = [page EXCEPT ![t].idle = TRUE]
  /\ UNCHANGED <<pc, version, pdf, free, disk, renders, failures>>

\* wait_for_function returns, page.pdf() is taken, the context is closed.
Capture(t) ==
  /\ pc[t] = "page" /\ page[t].idle /\ page[t].settle = "ready"
  /\ pc' = [pc EXCEPT ![t] = "captured"] /\ free' = free + 1
  /\ pdf' = [pdf EXCEPT ![t] = [query |-> page[t].query, retried |-> page[t].retried]]
  /\ page' = [page EXCEPT ![t] = Blank]
  /\ UNCHANGED <<version, disk, renders, failures>>

\* The flag cannot come any more: a face is missing, or a required answer was given up.
Hung(t) ==
  \/ page[t].settle = "stuck"
  \/ page[t].settle = "data" /\ \A q \in Query : ~Loading(page[t].query[q])

\* Mutant of Timeout: the slot is not given back.
TimeoutKeepingSlot(t) ==
  /\ pc[t] = "page" /\ Hung(t)
  /\ Responded(t) /\ page' = [page EXCEPT ![t] = Blank]
  /\ UNCHANGED <<free, disk, renders, failures>>

\* PDF_RENDER_TIMEOUT_MS: the route answers 503.
Timeout(t) ==
  /\ pc[t] = "page" /\ Hung(t)
  /\ Responded(t) /\ free' = free + 1
  /\ page' = [page EXCEPT ![t] = Blank]
  /\ UNCHANGED <<disk, renders, failures>>

\* The documents are appended and the file is uploaded under the key of its version.
Upload(t) ==
  /\ pc[t] = "captured"
  /\ pc' = [pc EXCEPT ![t] = "uploaded"]
  /\ objects' = [v \in DOMAIN objects \cup {version[t]} |->
                   IF v = version[t] THEN t ELSE objects[v]]
  /\ UNCHANGED <<version, page, pdf, free, records, latest, renders, failures>>

\* Mutant of InsertRow: the row is written before the file.
InsertFirst(t) ==
  /\ pc[t] = "captured" /\ version[t] \notin Versions
  /\ pc' = [pc EXCEPT ![t] = "inserted"] /\ records' = records \cup {<<version[t], t>>}
  /\ UNCHANGED <<version, page, pdf, free, objects, latest, renders, failures>>

\* INSERT INTO proposal_renders.
InsertRow(t) ==
  /\ pc[t] = "uploaded" /\ version[t] \notin Versions
  /\ pc' = [pc EXCEPT ![t] = "inserted"] /\ records' = records \cup {<<version[t], t>>}
  /\ UNCHANGED <<version, page, pdf, free, objects, latest, renders, failures>>

\* UNIQUE (proposal_id, version): another render has inserted this version.
Duplicate(t) ==
  /\ pc[t] = "uploaded" /\ version[t] \in Versions
  /\ Responded(t)
  /\ UNCHANGED <<page, free, disk, renders, failures>>

\* UPDATE estimates SET latest_proposal_render_id; the render is answered.
Point(t) ==
  /\ pc[t] = "inserted"
  /\ Responded(t) /\ latest' = version[t]
  /\ UNCHANGED <<page, free, objects, records, renders, failures>>

\* A statement, a document or the storage fails: 422 or 503.
Fail(t) ==
  /\ pc[t] \in {"asked", "captured", "uploaded", "inserted"} /\ Failure
  /\ Responded(t)
  /\ UNCHANGED <<page, free, disk, renders>>

Step(t) ==
  \/ ReadVersion(t) \/ Open(t)
  \/ FontsLoaded(t) \/ FlagReady(t) \/ NetworkIdle(t) \/ Capture(t) \/ Timeout(t)
  \/ Upload(t) \/ InsertRow(t) \/ Duplicate(t) \/ Point(t)
  \/ \E q \in Query : Answer(t, q) \/ Retry(t, q)

RenderNext ==
  \E t \in Toolbar :
    \/ Generate(t) \/ FontsMissing(t) \/ Fail(t)
    \/ \E q \in Query : Reject(t, q)
    \/ Step(t)

RenderSpec ==
  /\ RenderInit /\ [][RenderNext]_renderVars
  /\ \A t \in Toolbar : WF_renderVars(Step(t)) /\ SF_renderVars(Open(t))

-----------------------------------------------------------------------------

\* A captured PDF holds the document, nothing that gates it was still loading
\* (useProposalDocument: "if Chromium captured before this resolved, the PDF would go
\* out signed Your Juniper Representative"), and if every answer came at the first
\* attempt nothing is missing from it, its own queries and images included.
CapturedIsLoaded ==
  \A t \in Toolbar : pc[t] \in {"captured", "uploaded", "inserted"} =>
    /\ \A q \in Required : pdf[t].query[q] = "ok"
    /\ \A q \in Query \ Own : ~Loading(pdf[t].query[q])
    /\ ~pdf[t].retried => \A q \in Query : pdf[t].query[q] = "ok"

\* The rows of a proposal are numbered without a gap, each has a file, and the latest
\* render of the estimate is one of them, whatever overlaps and fails.
RendersAreOnFile ==
  /\ Versions = 1..Cardinality(records)
  /\ Versions \subseteq DOMAIN objects
  /\ latest \in Versions \cup {0}

\* What a render stores is complete, as a document and as a record.
RendersAreComplete == CapturedIsLoaded /\ RendersAreOnFile

\* insurance-page.tsx:13: every <img> is awaited "so the capture cannot beat the
\* certificate": what a captured PDF lacks was given up, not still loading.
CertificateCaptured ==
  \A t \in Toolbar : pc[t] \in {"captured", "uploaded", "inserted"} =>
    \A q \in Own : ~Loading(pdf[t].query[q])

\* A render that was asked for is answered, and its button works again.
EveryRenderAnswered == \A t \in Toolbar : pc[t] # "idle" ~> pc[t] = "idle"

=============================================================================
