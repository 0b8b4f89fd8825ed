--------------------------- MODULE ProposalDocuments ---------------------------
(***************************************************************************)
(* Generating a proposal in the studio: the rep opens the builder from a   *)
(* lead's panel or from the Proposals page, attaches a lead and a property,*)
(* makes picks, uploads the documents to append, and submits.  A document  *)
(* hangs off the lead's approved estimate when the builder knows one, off  *)
(* the lead otherwise, and creating a proposal that names the estimate     *)
(* re-anchors what hangs off the lead.                                     *)
(*                                                                         *)
(* Every call to the server is two steps or more, so that its answer can   *)
(* arrive after the rep went on: to another lead, another file, or away.   *)
(* An estimate is named by its lead.                                       *)
(***************************************************************************)
EXTENDS Naturals, FiniteSets

CONSTANTS
  Leads,
  Files,         \* uploads: each is picked once
  Kinds,         \* the upload slots
  Single,        \* the slots that hold one file (contract, measurements)
  WithProperty,  \* the leads that have a property at first
  WithEstimate,  \* the leads that have an approved estimate
  Proposals,     \* ids of proposals
  None,
  MaxMoves       \* bound: what the rep does besides picking leads, files and form values

ASSUME DocumentsAssumption ==
  /\ Single \subseteq Kinds /\ None \notin Leads \cup Files /\ MaxMoves \in Nat
  /\ WithProperty \cup WithEstimate \subseteq Leads

VARIABLES
  property,   \* leads that have a property (database)
  rows,       \* intake_attachments: [lead, est, kind, status] of every file
  stored,     \* the objects in storage
  saved,      \* proposal_requests; inherits is history: its lead's documents at creation
  form,       \* the builder: [entry, lead, withProperty, picks]
  known,      \* the approved-estimate query of each lead: asking (or not asked), no, yes
  listed,     \* what the document slots show
  asked,      \* scopes whose list is under way
  uploads,    \* one upload per file
  attaching,  \* the property being attached: [lead, here]
  creating,   \* the proposal being created
  moves,      \* bound only
  kept,       \* history: uploads that went through and that nobody asked to remove
  unasked     \* history: leads attached by an answer and not by the rep

database == <<property, rows, stored, saved>>
browser == <<form, known, listed, asked, uploads, attaching, creating>>
vars == <<database, browser, moves, kept, unasked>>

Slots == {"lead", "estimate"}
NoScope == [to |-> None, of |-> None]
Scopes == {[to |-> t, of |-> l] : t \in Slots, l \in Leads}
NoRow == [lead |-> None, est |-> None, kind |-> None, status |-> "none"]
NoUpload == [step |-> "none", scope |-> NoScope, prev |-> None, here |-> FALSE]
NoForm == [entry |-> None, lead |-> None, withProperty |-> FALSE, picks |-> {}]
NoCreate == [id |-> None, lead |-> None, est |-> None, picks |-> {}, step |-> "none", here |-> FALSE]
NoAttach == [lead |-> None, here |-> FALSE]

-----------------------------------------------------------------------------
(* What the server selects                                                   *)

Live(f) == rows[f].status \notin {"none", "deleted"}

\* The list endpoints: the one of a lead also lists what was re-anchored.
Listing(s) ==
  {f \in Files : Live(f) /\ (IF s.to = "lead" THEN rows[f].lead ELSE rows[f].est) = s.of}

\* The lookup of confirm and delete.  By estimate, it finds deleted rows too.
Finds(s, f) == rows[f].status # "none" /\ (IF s.to = "lead" THEN rows[f].lead ELSE rows[f].est) = s.of

\* What a render appends to proposal p, and whether it goes through.
Tail(p) ==
  {f \in Files : Live(f) /\ (IF saved[p].est # None THEN rows[f].est = saved[p].est
                             ELSE rows[f].lead = saved[p].lead /\ rows[f].est = None)}
Renders(p) == \A f \in Tail(p) : rows[f].status = "stored" /\ f \in stored

\* The summary under the preview of proposal p.
Summary(p) ==
  LET s == [to |-> IF saved[p].est # None THEN "estimate" ELSE "lead", of |-> saved[p].lead]
  IN  {f \in Listing(s) : rows[f].status = "stored"}

-----------------------------------------------------------------------------
(* What the builder shows                                                    *)

Estimate == IF form.lead # None /\ known[form.lead] = "yes" THEN form.lead ELSE None

\* The mounted document section; the lead panel waits for the estimate query first.
Scope ==
  IF form.lead = None THEN NoScope
  ELSE [to |-> IF Estimate # None THEN "estimate" ELSE "lead", of |-> form.lead]

InSlot(k) == {f \in listed : rows[f].kind = k}
Uploading(k) ==
  \E f \in Files : /\ uploads[f].here /\ rows[f].kind = k
                   /\ uploads[f].step \in {"put", "confirm", "confirmed"}

\* The components of the builder are unmounted: calls go on, nothing hears their answers.
Unheard(u) == [f \in Files |-> [u[f] EXCEPT !.here = FALSE]]

\* The document section shows scope s next; another kind of scope is another component.
Section(s) ==
  /\ asked' = IF s = Scope THEN asked
              ELSE IF s = NoScope THEN {}
              ELSE IF s.to = Scope.to THEN asked \cup {s} ELSE {s}
  /\ listed' = IF s.to = Scope.to THEN listed ELSE {}
  /\ uploads' = IF s.to = Scope.to THEN uploads ELSE Unheard(uploads)

ScopeOf(l, k) == [to |-> IF k[l] = "yes" THEN "estimate" ELSE "lead", of |-> l]

\* An upload that is over, one way or the other.
Ended(f) == [uploads EXCEPT ![f].step = "ended", ![f].prev = None, ![f].here = FALSE]

Move == moves < MaxMoves /\ moves' = moves + 1

-----------------------------------------------------------------------------
Init ==
  /\ property = WithProperty
  /\ rows = [f \in Files |-> NoRow] /\ stored = {}
  /\ saved = [p \in {} |-> NoCreate]
  /\ form = NoForm /\ known = [l \in Leads |-> "asking"]
  /\ listed = {} /\ asked = {} /\ uploads = [f \in Files |-> NoUpload]
  /\ attaching = NoAttach /\ creating = NoCreate
  /\ moves = 0 /\ kept = {} /\ unasked = {}

-----------------------------------------------------------------------------
(* Opening the builder, and the lead it is for                               *)

\* A new instance of the builder: default form, fresh slots.
Opened(entry, l, k) ==
  /\ form' = [entry |-> entry, lead |-> l, withProperty |-> l \in property, picks |-> {}]
  /\ listed' = {} /\ asked' = IF l = None THEN {} ELSE {ScopeOf(l, k)}
  /\ uploads' = Unheard(uploads)
  /\ attaching' = [attaching EXCEPT !.here = FALSE]
  /\ creating' = [creating EXCEPT !.here = FALSE]
  /\ unasked' = {}

\* NewProposalPackageDialog.
OpenDialog ==
  /\ form.entry # "dialog" /\ Move
  /\ Opened("dialog", None, known)
  /\ UNCHANGED <<database, known, kept>>

\* The panel of lead l: BidTab mounts the builder when the estimate query has answered.
OpenPanel(l) ==
  /\ form.entry # "dialog" /\ form.lead # l /\ known[l] \in {"no", "yes"} /\ Move
  /\ Opened("panel", l, known)
  /\ UNCHANGED <<database, known, kept>>

\* Next or Prev while the panel is open, with both queries of lead l in the cache:
\* nothing is unmounted, the builder follows the lead and keeps its picks.
NextLead(l) ==
  /\ form.entry = "panel" /\ form.lead # l /\ known[l] \in {"no", "yes"} /\ Move
  /\ form' = [form EXCEPT !.lead = l, !.withProperty = l \in property]
  /\ Section(ScopeOf(l, known))
  /\ unasked' = {}
  /\ UNCHANGED <<database, known, attaching, creating, kept>>

\* The builder goes away: closed by the rep, or left for the preview.
Gone ==
  /\ form' = NoForm /\ listed' = {} /\ asked' = {} /\ uploads' = Unheard(uploads)
  /\ attaching' = [attaching EXCEPT !.here = FALSE] /\ unasked' = {}

Close ==
  /\ form.entry # None /\ Gone
  /\ creating' = [creating EXCEPT !.here = FALSE]
  /\ UNCHANGED <<database, known, moves, kept>>

\* handleLeadChange: the picks made for another lead are dropped; shown is the lead
\* attached when the caller was rendered.
LeadChanged(shown, next, withProperty) ==
  form' = [form EXCEPT !.lead = next, !.withProperty = withProperty,
                       !.picks = IF shown # next THEN {} ELSE @]

\* The Proposals page: a lead found by the search, and Change.
PickLead(l) ==
  /\ form.entry = "dialog" /\ form.lead = None
  /\ LeadChanged(None, l, l \in property)
  /\ Section(ScopeOf(l, known))
  /\ unasked' = {}
  /\ UNCHANGED <<database, known, attaching, creating, moves, kept>>

ChangeLead ==
  /\ form.entry = "dialog" /\ form.lead # None /\ Move
  /\ LeadChanged(form.lead, None, FALSE)
  /\ Section(NoScope)
  /\ unasked' = {}
  /\ UNCHANGED <<database, known, attaching, creating, kept>>

\* useApprovedEstimate answers, at first or on a refetch; a failure, and an estimate that
\* is approved only later, read as no estimate.
EstimateAnswered(l, found) ==
  /\ found # known[l] /\ (found = "yes" => l \in WithEstimate)
  /\ known[l] # "asking" => found = "yes"
  /\ known' = [known EXCEPT ![l] = found]
  /\ IF form.lead = l THEN Section(ScopeOf(l, known')) ELSE UNCHANGED <<listed, asked, uploads>>
  /\ UNCHANGED <<database, form, attaching, creating, moves, kept, unasked>>

\* attachProperty: PATCH the lead, then hand the lead of the click to the form.
AttachProperty ==
  /\ form.lead # None /\ ~form.withProperty /\ attaching = NoAttach /\ Move
  /\ attaching' = [lead |-> form.lead, here |-> TRUE]
  /\ UNCHANGED <<database, form, known, listed, asked, uploads, creating, kept, unasked>>

Attached ==
  LET l == attaching.lead IN
  /\ attaching # NoAttach
  /\ property' = property \cup {l} /\ attaching' = NoAttach
  /\ IF attaching.here
     THEN /\ LeadChanged(l, l, TRUE)
          /\ Section(ScopeOf(l, known))
          /\ unasked' = IF form.lead # l THEN unasked \cup {l} ELSE unasked
      ELSE UNCHANGED <<form, listed, asked, uploads, unasked>>
  /\ UNCHANGED <<rows, stored, saved, known, creating, moves, kept>>

\* The PATCH fails, or is served and its answer is lost.
AttachFails ==
  /\ attaching # NoAttach /\ attaching' = NoAttach
  /\ property' \in {property, property \cup {attaching.lead}}
  /\ UNCHANGED <<rows, stored, saved, form, known, listed, asked, uploads, creating,
                 moves, kept, unasked>>

\* A pick on the form: sections, team, references, portfolio, org chart, startup plan.
Tick ==
  /\ form.lead # None /\ form.lead \notin form.picks
  /\ form' = [form EXCEPT !.picks = @ \cup {form.lead}]
  /\ UNCHANGED <<database, known, listed, asked, uploads, attaching, creating, moves, kept, unasked>>

-----------------------------------------------------------------------------
(* The document slots                                                        *)

\* hydrate's answer replaces what the slots show, whatever they show by now; a list that
\* cannot be read changes nothing, as one that is not answered yet.
ShowList(s) ==
  /\ s \in asked /\ asked' = asked \ {s}
  /\ listed' = Listing(s)
  /\ UNCHANGED <<database, form, known, uploads, attaching, creating, moves, kept, unasked>>

\* A slot that shows a file offers Replace even while an upload runs.
CanPick(k) == Scope # NoScope /\ (~Uploading(k) \/ (k \in Single /\ InSlot(k) # {}))

\* handlePick: presign inserts a pending row; previous is what the slot showed.
Presign(f, k, prev, heard) ==
  /\ uploads[f] = NoUpload /\ CanPick(k)
  /\ prev \in IF k \in Single /\ InSlot(k) # {} THEN InSlot(k) ELSE {None}
  /\ rows' = [rows EXCEPT ![f] =
       [lead |-> IF Scope.to = "lead" THEN Scope.of ELSE None,
        est |-> IF Scope.to = "estimate" THEN Scope.of ELSE None,
        kind |-> k, status |-> "pending"]]
  /\ uploads' = [uploads EXCEPT ![f] =
       IF heard THEN [step |-> "put", scope |-> Scope, prev |-> prev, here |-> TRUE]
       ELSE [NoUpload EXCEPT !.step = "ended", !.scope = Scope]]
  /\ UNCHANGED <<property, stored, saved, form, known, listed, asked, attaching,
                 creating, moves, kept, unasked>>

\* The bytes land in storage, or do not.
Put(f) ==
  /\ uploads[f].step = "put"
  /\ stored' = stored \cup {f}
  /\ uploads' = [uploads EXCEPT ![f].step = "confirm"]
  /\ UNCHANGED <<property, rows, saved, form, known, listed, asked, attaching, creating,
                 moves, kept, unasked>>

UploadFails(f) ==
  /\ uploads[f].step \in {"put", "confirm", "found", "missing"}
  /\ uploads' = Ended(f)
  /\ UNCHANGED <<database, form, known, listed, asked, attaching, creating, moves, kept, unasked>>

\* confirm reads the row and looks at the object ...
ConfirmReads(f) ==
  LET u == uploads[f] IN
  /\ u.step = "confirm"
  /\ uploads' = IF ~Finds(u.scope, f) THEN Ended(f)
                ELSE [uploads EXCEPT ![f].step = IF f \in stored THEN "found" ELSE "missing"]
  /\ UNCHANGED <<database, form, known, listed, asked, attaching, creating, moves, kept, unasked>>

\* ... and writes the row by its id, whatever became of it.
ConfirmWrites(f) ==
  LET found == uploads[f].step = "found" IN
  /\ uploads[f].step \in {"found", "missing"}
  /\ rows' = IF rows[f].status = "none" THEN rows
             ELSE [rows EXCEPT ![f].status = IF found THEN "stored" ELSE "failed"]
  /\ uploads' = IF found THEN [uploads EXCEPT ![f].step = "confirmed"] ELSE Ended(f)
  /\ kept' = IF found /\ rows[f].status # "none" THEN kept \cup {f} ELSE kept
  /\ UNCHANGED <<property, stored, saved, form, known, listed, asked, attaching, creating,
                 moves, unasked>>

\* The two delete endpoints: by estimate the row stays as deleted, by lead it goes.
Deleted(s, f) ==
  IF ~Finds(s, f) THEN UNCHANGED <<rows, stored>>
  ELSE /\ stored' = stored \ {f}
       /\ rows' = [rows EXCEPT ![f] = IF s.to = "lead" THEN NoRow ELSE [@ EXCEPT !.status = "deleted"]]

\* What the slots read again, if they are still mounted.
Hydrates(here, s) == asked' = IF here THEN asked \cup {s} ELSE asked

\* A confirmed upload deletes the file it replaces; a refused delete is swallowed.
Replaced(f, done) ==
  LET u == uploads[f] IN
  /\ u.step = "confirmed" /\ uploads' = Ended(f)
  /\ IF u.prev # None /\ done THEN Deleted(u.scope, u.prev) ELSE UNCHANGED <<rows, stored>>
  /\ kept' = kept \ {u.prev}
  /\ Hydrates(u.here, u.scope)
  /\ UNCHANGED <<property, saved, form, known, listed, attaching, creating, moves, unasked>>

\* handleRemove.
Remove(f, done) ==
  /\ Scope # NoScope /\ f \in listed /\ Move
  /\ IF done THEN Deleted(Scope, f) ELSE UNCHANGED <<rows, stored>>
  /\ kept' = kept \ {f}
  /\ Hydrates(TRUE, Scope)
  /\ UNCHANGED <<property, saved, form, known, listed, uploads, attaching, creating, unasked>>

-----------------------------------------------------------------------------
(* Submitting                                                                *)

\* handleSubmit: the payload is what the form says now.
Submit ==
  /\ form.lead # None /\ form.withProperty /\ creating = NoCreate
  /\ \E p \in Proposals \ DOMAIN saved :
       creating' = [id |-> p, lead |-> form.lead, est |-> Estimate, picks |-> form.picks,
                    step |-> "insert", here |-> TRUE]
  /\ UNCHANGED <<database, form, known, listed, asked, uploads, attaching, moves, kept, unasked>>

\* create_proposal: the checks and the insert ...
Insert ==
  LET c == creating IN
  /\ c.step = "insert" /\ c.lead \in property
  /\ saved' = [p \in DOMAIN saved \cup {c.id} |->
       IF p = c.id THEN [lead |-> c.lead, est |-> c.est, picks |-> c.picks, inherits |-> {}]
                   ELSE saved[p]]
  /\ creating' = [c EXCEPT !.step = "anchor"]
  /\ UNCHANGED <<property, rows, stored, form, known, listed, asked, uploads, attaching,
                 moves, kept, unasked>>

\* ... then, as a statement of its own, the lead's documents move to the estimate.
ReanchorAnyLead(e, l) ==
  [f \in Files |-> IF e # None /\ Live(f) /\ rows[f].est = None
                   THEN [rows[f] EXCEPT !.est = e] ELSE rows[f]]
ReanchorStored(e, l) ==
  [f \in Files |-> IF e # None /\ rows[f].status = "stored" /\ rows[f].lead = l /\ rows[f].est = None
                   THEN [rows[f] EXCEPT !.est = e] ELSE rows[f]]
Reanchored(e, l) ==
  [f \in Files |-> IF e # None /\ Live(f) /\ rows[f].lead = l /\ rows[f].est = None
                   THEN [rows[f] EXCEPT !.est = e] ELSE rows[f]]

Anchor ==
  /\ creating.step = "anchor"
  /\ rows' = Reanchored(creating.est, creating.lead)
  /\ saved' = [saved EXCEPT ![creating.id].inherits =
       {f \in Files : Live(f) /\ uploads[f].scope.of = creating.lead}]
  /\ creating' = [creating EXCEPT !.step = "answer"]
  /\ UNCHANGED <<property, stored, form, known, listed, asked, uploads, attaching,
                 moves, kept, unasked>>

\* The answer takes the rep to the preview of the new proposal.
Answered ==
  LET c == creating IN
  /\ c.step = "answer" /\ creating' = NoCreate
  /\ IF c.here THEN Gone ELSE UNCHANGED <<form, listed, asked, uploads, attaching, unasked>>
  /\ UNCHANGED <<database, known, moves, kept>>

\* A refusal, a crash between the statements or a lost answer: the form stays.
CreateFails ==
  /\ creating # NoCreate /\ creating' = NoCreate
  /\ UNCHANGED <<database, form, known, listed, asked, uploads, attaching, moves, kept, unasked>>

-----------------------------------------------------------------------------
Documents ==
  \E f \in Files :
    \/ \E k \in Kinds, prev \in Files \cup {None}, heard \in BOOLEAN : Presign(f, k, prev, heard)
    \/ Put(f) \/ UploadFails(f) \/ ConfirmReads(f) \/ ConfirmWrites(f)
    \/ \E done \in BOOLEAN : Replaced(f, done) \/ Remove(f, done)

Next ==
  \/ \E l \in Leads :
       \/ OpenPanel(l) \/ NextLead(l) \/ PickLead(l)
       \/ \E found \in {"no", "yes"} : EstimateAnswered(l, found)
  \/ OpenDialog \/ Close \/ ChangeLead \/ AttachProperty \/ Attached \/ AttachFails \/ Tick
  \/ \E s \in Scopes : ShowList(s)
  \/ Documents
  \/ Submit \/ Insert \/ Anchor \/ Answered \/ CreateFails

Spec == Init /\ [][Next]_vars

-----------------------------------------------------------------------------
(* Properties                                                                *)

DocumentsTypeOK ==
  /\ property \subseteq Leads /\ stored \subseteq Files
  /\ \A f \in Files : rows[f].status \in {"none", "pending", "stored", "failed", "deleted"}
  /\ DOMAIN saved \subseteq Proposals
  /\ form.entry \in {None, "dialog", "panel"} /\ form.lead \in Leads \cup {None}
  /\ form.withProperty => form.lead \in property
  /\ listed \cup kept \subseteq Files /\ asked \subseteq Scopes
  /\ \A f \in Files : uploads[f].step \in
       {"none", "put", "confirm", "found", "missing", "confirmed", "ended"}

\* In the dialog, what the form holds was picked for the attached lead, unless the
\* late answer of attaching a property put back a lead the rep had left.
FormFollowsLead ==
  form.entry = "dialog" /\ unasked = {} => form.picks \subseteq {form.lead}

\* What a proposal appends was uploaded for its own lead, however the uploads of two
\* leads, the answers of their queries and the creation interleave; and the form itself
\* does not carry picks from one lead to the next.
DocsOfOneLead ==
  /\ DocumentsTypeOK /\ FormFollowsLead
  /\ \A p \in DOMAIN saved : \A f \in Tail(p) : uploads[f].scope.of = saved[p].lead

\* A proposal that names the estimate appends every document of its lead that existed
\* when it was created, also one whose upload was still running then and went through
\* later; until somebody removes or replaces it.
AnsweredIsInherited ==
  \A p \in DOMAIN saved :
    saved[p].est # None => saved[p].inherits \cap kept \subseteq Tail(p)

\* (Does not hold.)  A replaceable slot holds one document.
OneContract ==
  \A p \in DOMAIN saved : \A k \in Single :
    Cardinality({f \in Tail(p) : rows[f].kind = k /\ rows[f].status = "stored"}) <= 1

\* (Does not hold.)  The summary lists what the render appends.
PanelIsTail == \A p \in DOMAIN saved : Renders(p) => Summary(p) = Tail(p)
=============================================================================
