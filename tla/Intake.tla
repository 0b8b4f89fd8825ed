-------------------------------- MODULE Intake --------------------------------
(***************************************************************************)
(* The two intake forms of the studio.  A rep picks or creates a property, *)
(* fills in the sections, attaches files and submits; the server stores    *)
(* the estimate and then, one statement at a time, its intake, its ITB     *)
(* project and the lead's status; the form uploads the files one by one.   *)
(* The maintenance form looks up the lead of the property, the install     *)
(* form has a typed one and is saved as a draft and resumed.               *)
(*                                                                         *)
(* A form stays mounted while it is closed, and nothing resets it.         *)
(* Day 0 is the business day (New York); a deadline is a number of days.   *)
(***************************************************************************)
EXTENDS Integers, SequencesExt

CONSTANTS
  Types,         \* the forms: maintenance, install
  Properties,    \* the properties of the search
  Fresh,         \* the property the form creates
  Leads,
  LeadOf,        \* the lead the lookup of a property finds, or None
  None,
  Deadlines,     \* the days a rep types
  Window,        \* company_settings.sla_return_window_days
  Fallback,      \* what the studio assumes until that row is loaded
  FileKinds,     \* the attachments a rep has: property_map, rfp, other
  Overlap,       \* whether the rep acts before a draft call is answered
  MaxEdits,      \* bound, per form: fields typed, files picked and properties cleared
  MaxOpens,      \* bound, per form: times it is opened
  MaxCreates,    \* bound, per form: submissions that reach the server
  MaxDrafts,     \* bound: drafts ever saved
  MaxMishaps     \* bound: requests that fail or whose answer is lost

SectionsOf(t) == IF t = "install" THEN {"opportunity", "client", "landscape", "irrigation", "rfi"}
                 ELSE {"contact", "contract", "occurrences"}
\* What a form may hold, and a draft: a section is blank, filled in, or a number that is zero or none.
TextOf(t) == [parts : [SectionsOf(t) -> {"", "typed", "zero", "wrong"}],
              due : Deadlines \cup {None}, typed : Leads \cup {None}]
Texts == UNION {TextOf(t) : t \in Types}

IntakeAssumption ==
  /\ Types \subseteq {"maintenance", "install"} /\ Fresh \notin Properties
  /\ None \notin Texts
  /\ LeadOf \in [Properties \cup {Fresh} -> Leads \cup {None}] /\ Deadlines \subseteq Int
  /\ Window \in Nat \ {0} /\ Fallback \in Nat \ {0}
  /\ FileKinds \subseteq {"property_map", "rfp", "other"} /\ Overlap \in BOOLEAN
  /\ {MaxEdits, MaxOpens, MaxCreates} \subseteq [Types -> Nat] /\ {MaxDrafts, MaxMishaps} \subseteq Nat

VARIABLES
  type,      \* the form in use
  form,      \* its fields, the property and what the lookup found
  lookups,   \* leads of a property being looked up: no, live, cancelled
  making,    \* a property is being created
  run,       \* the submission the page waits for: [of, draft, todo]
  creates,   \* what became of every submission
  drafts,    \* intake_submissions with is_draft = 1, in order of creation
  calls,     \* draft calls under way
  edits, opens, mishaps,
  last,      \* ghost: what the rep last saw saved and has not submitted
  spoilt     \* ghost: a draft call failed

page == <<form, lookups, making, run>>
bounds == <<edits, opens, mishaps>>
vars == <<type, page, creates, drafts, calls, bounds, last, spoilt>>

Known == Properties \cup {Fresh}
Sections == SectionsOf(type)
Idle == [of |-> 0, draft |-> 0, todo |-> <<>>]
NoText == [s \in Sections |-> ""]

\* What a page starts with, and what a draft is merged into.
defaultForm == [parts |-> NoText, due |-> None, typed |-> None]
NewForm == [open |-> FALSE, prop |-> None, lead |-> None, settled |-> FALSE, loaded |-> FALSE,
            text |-> defaultForm, files |-> [k \in FileKinds |-> "none"], draft |-> 0]
NotSent == [step |-> "none"]
Busy == run.of # 0
Quiet == Overlap \/ (calls = {} /\ ~Busy)

-----------------------------------------------------------------------------
(* Dates and numbers                                                         *)

IsRushInclusive(due, window) == 0 <= due /\ due <= window

\* _is_rush: from today to the day before the window closes.
IsRush(due, window) == 0 <= due /\ due < window

\* isRushWindowDate: the hint under the field, on the rep's own calendar.
isRushWindowDate(due, window, local) == 0 <= due - local /\ due - local < window

isPastCalendarDate(due, local) == due # None /\ due < local

\* defaultDueBackDate: business today plus the window the page knows.
SeenWindow == IF form.loaded THEN Window ELSE Fallback
defaultDueBackDate == 0 + SeenWindow

\* A blank number is unknown and not zero; the form refuses what is no number.
parseContractBudget(v) == IF v = "" THEN None ELSE v
parseOccurrenceInput(v) == IF v = "" THEN None ELSE v
Refused == type = "maintenance" /\ \/ parseContractBudget(form.text.parts["contract"]) = "wrong"
                                   \/ parseOccurrenceInput(form.text.parts["occurrences"]) = "wrong"

\* The uploads of the click, in order: the kind of each file and whether it is of a type that is accepted.
Picked(k) == IF k \in FileKinds /\ form.files[k] # "none" THEN <<[kind |-> k, file |-> form.files[k]]>> ELSE <<>>
Uploads == Picked("property_map") \o Picked("rfp") \o Picked("other")

-----------------------------------------------------------------------------
(* The fields                                                                *)

Init ==
  /\ type \in Types /\ form = NewForm /\ lookups = [p \in Known |-> "no"] /\ making = FALSE
  /\ run = Idle /\ creates = [c \in 1..MaxCreates[type] |-> NotSent] /\ drafts = <<>> /\ calls = {}
  /\ edits = 0 /\ opens = 0 /\ mishaps = 0 /\ last = None /\ spoilt = FALSE

Edit(f) ==
  /\ form.open /\ edits < MaxEdits[type] /\ edits' = edits + 1 /\ form' = f
  /\ UNCHANGED <<type, lookups, making, run, creates, drafts, calls, opens, mishaps, last, spoilt>>

Typed(s, values) ==
  \E v \in values \ {form.text.parts[s]} : Edit([form EXCEPT !.text.parts[s] = v])

\* The maintenance sections.  A section that is not listed has no field that a guard or a property reads.
EditContact == type = "maintenance" /\ Typed("contact", {"typed"})
EditContract == type = "maintenance" /\ Typed("contract", {"zero", "wrong", ""})
EditOccurrences == type = "maintenance" /\ Typed("occurrences", {"zero", "wrong", ""})

\* The install sections.
EditRequest == type = "install" /\ \E l \in Leads \ {form.text.typed} : Edit([form EXCEPT !.text.typed = l])
EditOpportunity == type = "install" /\ Typed("opportunity", {"typed"})
EditClient == type = "install" /\ Typed("client", {"typed"})
EditLandscape == type = "install" /\ Typed("landscape", {"typed"})
EditIrrigation == type = "install" /\ Typed("irrigation", {"typed"})
EditRfi == type = "install" /\ Typed("rfi", {"typed"})

EditDates == \E d \in Deadlines \ {form.text.due} : Edit([form EXCEPT !.text.due = d])

\* A file row takes what the picker gives it: an RFP may be of a type nobody accepts.
AttachFile == \E k \in FileKinds : \E v \in IF k = "rfp" THEN {"good", "wrong"} ELSE {"good"} :
  form.files[k] # v /\ Edit([form EXCEPT !.files[k] = v])
RemoveFile == \E k \in FileKinds : form.files[k] # "none" /\ Edit([form EXCEPT !.files[k] = "none"])

\* The company settings arrive.
LoadSettings ==
  /\ ~form.loaded /\ form' = [form EXCEPT !.loaded = TRUE]
  /\ UNCHANGED <<type, lookups, making, run, creates, drafts, calls, bounds, last, spoilt>>

-----------------------------------------------------------------------------
(* The property, and the lead behind it                                      *)

Looks(open, p) == type = "maintenance" /\ open /\ p \in Known

WatchNothing(open, p) ==
  lookups' = [q \in Known |-> IF q = p /\ Looks(open, p) THEN "live" ELSE lookups[q]]

\* The effect on (open, property): the lookup under way no longer counts.
Watch(open, p) ==
  lookups' = [q \in Known |-> IF q = p /\ Looks(open, p) THEN "live"
                                   ELSE IF lookups[q] = "live" THEN "cancelled" ELSE lookups[q]]

\* What the page knew of a lead stays until a lookup says otherwise.
Select(p) ==
  /\ form.open /\ form' = [form EXCEPT !.prop = p, !.settled = FALSE]
  /\ Watch(TRUE, p)
  /\ UNCHANGED <<type, run, creates, drafts, calls, opens, mishaps, last, spoilt>>

\* Picking a search result, and "Change".
PickProperty ==
  /\ form.prop = None /\ (Overlap \/ ~making) /\ \E p \in Properties : Select(p)
  /\ UNCHANGED <<making, edits>>
ClearProperty ==
  /\ form.prop # None /\ edits < MaxEdits[type] /\ edits' = edits + 1 /\ Select(None)
  /\ UNCHANGED making

\* CreatePropertyForm: its answer selects the property, whatever was picked meanwhile.
CreateProperty ==
  /\ form.open /\ form.prop = None /\ ~making /\ making' = TRUE
  /\ UNCHANGED <<type, form, lookups, run, creates, drafts, calls, bounds, last, spoilt>>
PropertyCreated ==
  /\ making /\ making' = FALSE /\ form' = [form EXCEPT !.prop = Fresh, !.settled = FALSE]
  /\ Watch(form.open, Fresh)
  /\ UNCHANGED <<type, run, creates, drafts, calls, bounds, last, spoilt>>

LeadArrives(p) ==
  /\ lookups[p] # "no" /\ lookups' = [lookups EXCEPT ![p] = "no"]
  /\ form' = IF lookups[p] = "live" THEN [form EXCEPT !.lead = LeadOf[p], !.settled = TRUE] ELSE form
  /\ UNCHANGED <<type, making, run, creates, drafts, calls, bounds, last, spoilt>>

-----------------------------------------------------------------------------
(* Opening, closing, reloading                                               *)

Call(op, id, text) == [op |-> op, id |-> id, text |-> text, done |-> FALSE, heard |-> TRUE,
                       n |-> Min((0..Cardinality(calls)) \ {x.n : x \in calls})]
Fetch == IF type = "install" THEN calls' = calls \cup {Call("list", 0, None)} ELSE UNCHANGED calls

Open ==
  /\ ~form.open /\ Quiet /\ opens < MaxOpens[type] /\ opens' = opens + 1
  /\ form' = [form EXCEPT !.open = TRUE, !.settled = FALSE] /\ Watch(TRUE, form.prop) /\ Fetch
  /\ UNCHANGED <<type, making, run, creates, drafts, edits, mishaps, last, spoilt>>

\* A list under way is not heard of again.
Deafen(ops) == {IF x.op \in ops THEN [x EXCEPT !.heard = FALSE] ELSE x : x \in calls}
Close ==
  /\ form.open /\ Quiet /\ form' = [form EXCEPT !.open = FALSE, !.settled = FALSE]
  /\ Watch(FALSE, form.prop) /\ calls' = Deafen({"list"})
  /\ UNCHANGED <<type, making, run, creates, drafts, bounds, last, spoilt>>

Reload ==
  /\ form # NewForm /\ Quiet /\ form' = NewForm /\ lookups' = [p \in Known |-> "no"]
  /\ making' = FALSE /\ run' = Idle /\ calls' = Deafen({"list", "save"})
  /\ UNCHANGED <<type, creates, drafts, bounds, last, spoilt>>

-----------------------------------------------------------------------------
(* Submitting                                                                *)

\* buildIntakePayload and the body of create, as of the click and its day.
Body(local) ==
  [prop |-> form.prop, lead |-> IF type = "install" THEN form.text.typed ELSE form.lead, files |-> Uploads,
   due |-> IF form.text.due = None THEN defaultDueBackDate ELSE form.text.due, local |-> local]

\* handleSubmit, up to the request; the rep's calendar may be a day behind.
Submit ==
  \E c \in {x \in 1..MaxCreates[type] : creates[x] = NotSent /\ \A y \in 1..(x - 1) : creates[y] # NotSent}, local \in {-1, 0} :
    /\ form.open /\ Quiet /\ ~Busy /\ form.prop # None
    /\ ~isPastCalendarDate(form.text.due, local) /\ ~Refused
    /\ creates' = [creates EXCEPT ![c] = [step |-> "sent", body |-> Body(local), number |-> 0, has |-> {},
                                          rows |-> [k \in FileKinds |-> "none"]]]
    /\ run' = [of |-> c, draft |-> form.draft, todo |-> <<>>]
    /\ UNCHANGED <<type, form, lookups, making, drafts, calls, bounds, last, spoilt>>

Over(r) == [r EXCEPT !.rows = [k \in FileKinds |-> "none"],
                     !.body = [prop |-> None, lead |-> None, files |-> <<>>, due |-> 0, local |-> 0]]

At(c, step) == creates[c].step = step
Server(c, r) ==
  /\ creates' = [creates EXCEPT ![c] = r]
  /\ UNCHANGED <<type, page, drafts, calls, bounds, last, spoilt>>
Has(c, piece, next) == Server(c, [creates[c] EXCEPT !.has = @ \cup {piece}, !.step = next])

Numbers == {creates[c].number : c \in {x \in 1..MaxCreates[type] : creates[x] # NotSent /\ "estimate" \in creates[x].has}}

\* create_estimate: the deadline is checked, then the next number is read inside the transaction.
\* What no later step reads is forgotten here, and at the end.
Check(c) ==
  /\ At(c, "sent")
  /\ Server(c, IF creates[c].body.due < 0 THEN [Over(creates[c]) EXCEPT !.step = "refused"]
               ELSE [creates[c] EXCEPT !.step = "numbered", !.number = Max(Numbers \cup {0}) + 1,
                                       !.body.prop = None, !.body.due = 0, !.body.local = 0])

InsertAnyNumber(c) == At(c, "numbered") /\ Has(c, "estimate", "stored")

\* The insert; the unique key on estimate_number undoes the second of two with one number.
Insert(c) ==
  /\ At(c, "numbered")
  /\ IF creates[c].number \in Numbers THEN Server(c, [Over(creates[c]) EXCEPT !.step = "refused"])
     ELSE Has(c, "estimate", "stored")

AddIntake(c) == At(c, "stored") /\ Has(c, "intake", "filed")
AddProject(c) == At(c, "filed") /\ Has(c, "project", "tracked")
MoveLead(c) == At(c, "tracked") /\ (IF creates[c].body.lead = None THEN Server(c, [creates[c] EXCEPT !.step = "created"])
                                     ELSE Has(c, "lead", "created"))

\* The answer: the uploads, or the form again with a message.
Created(c) ==
  /\ run.of = c /\ At(c, "created")
  /\ run' = [run EXCEPT !.todo = creates[c].body.files] /\ creates' = [creates EXCEPT ![c].step = "uploading"]
  /\ UNCHANGED <<type, form, lookups, making, drafts, calls, bounds, last, spoilt>>
NotCreated(c) ==
  /\ run.of = c /\ creates[c].step \in {"refused", "died"} /\ run' = Idle
  /\ UNCHANGED <<type, form, lookups, making, creates, drafts, calls, bounds, last, spoilt>>

\* clientValidate, presign, PUT and confirm of the next file; a failure is noted and the next one starts.
Upload(status) ==
  /\ Busy /\ At(run.of, "uploading") /\ run.todo # <<>>
  /\ run' = [run EXCEPT !.todo = Tail(@)]
  /\ creates' = [creates EXCEPT ![run.of].rows[Head(run.todo).kind] = status]
  /\ UNCHANGED <<type, form, lookups, making, drafts, calls, edits, opens, last, spoilt>>
Accepted(u) == u.file = "good"
UploadFile == Upload(IF Accepted(Head(run.todo)) THEN "stored" ELSE "none") /\ UNCHANGED mishaps
UploadFails == \E s \in {"none", "pending"} : mishaps < MaxMishaps /\ mishaps' = mishaps + 1 /\ Upload(s)

FinishKeepsDraft ==
  /\ Busy /\ At(run.of, "uploading") /\ run.todo = <<>>
  /\ creates' = [creates EXCEPT ![run.of] = [Over(@) EXCEPT !.step = "done"]] /\ run' = Idle
  /\ form' = [form EXCEPT !.open = FALSE, !.settled = FALSE]
  /\ Watch(FALSE, form.prop) /\ last' = None /\ calls' = Deafen({"list"})
  /\ UNCHANGED <<type, making, drafts, bounds, spoilt>>

\* All done: the draft goes, the form closes.
Finish ==
  /\ Busy /\ At(run.of, "uploading") /\ run.todo = <<>>
  /\ creates' = [creates EXCEPT ![run.of] = [Over(@) EXCEPT !.step = "done"]] /\ run' = Idle
  /\ form' = [form EXCEPT !.open = FALSE, !.settled = FALSE, !.draft = IF run.draft # 0 THEN 0 ELSE @]
  /\ Watch(FALSE, form.prop) /\ last' = None
  /\ calls' = Deafen({"list"}) \cup (IF run.draft # 0 THEN {Call("delete", run.draft, None)} ELSE {})
  /\ UNCHANGED <<type, making, drafts, bounds, spoilt>>

-----------------------------------------------------------------------------
(* Drafts of the install form                                                *)

SaveDraft ==
  /\ type = "install" /\ form.open /\ ~Busy /\ Quiet /\ Len(drafts) + Cardinality({x \in calls : x.op = "save"}) < MaxDrafts
  /\ calls' = calls \cup {Call("save", form.draft, form.text)}
  /\ UNCHANGED <<type, page, creates, drafts, bounds, last, spoilt>>

Latest == LET live == {d \in DOMAIN drafts : drafts[d] # None} IN IF live = {} THEN 0 ELSE Max(live)
Exists(d) == d \in DOMAIN drafts /\ drafts[d] # None

\* The endpoints: a save without an id inserts, one with the id of no draft is a 404.
Serve(x) ==
  /\ ~x.done
  /\ drafts' = CASE x.op = "save" /\ x.id = 0 -> Append(drafts, x.text)
                 [] x.op = "save" /\ Exists(x.id) -> [drafts EXCEPT ![x.id] = x.text]
                 [] x.op = "delete" /\ Exists(x.id) -> [drafts EXCEPT ![x.id] = None]
                 [] OTHER -> drafts
  /\ LET id == CASE x.op = "list" -> Latest
                 [] x.op = "save" /\ x.id = 0 -> Len(drafts) + 1
                 [] x.op = "save" /\ x.id # 0 /\ ~Exists(x.id) -> 0
                 [] OTHER -> x.id
         answer == [x EXCEPT !.done = TRUE, !.id = id,
                             !.text = IF x.op = "list" /\ id # 0 THEN drafts[id] ELSE @]
     IN calls' = (calls \ {x}) \cup (IF x.heard /\ x.op # "delete" THEN {answer} ELSE {})
  /\ UNCHANGED <<type, page, creates, bounds, last, spoilt>>

Saved(x) ==
  /\ x.done /\ x.op = "save" /\ calls' = calls \ {x}
  /\ form' = IF x.id # 0 THEN [form EXCEPT !.draft = x.id] ELSE form
  /\ last' = IF x.id # 0 THEN x.text ELSE last
  /\ UNCHANGED <<type, lookups, making, run, creates, drafts, bounds, spoilt>>

\* The latest draft replaces the fields, what the rep typed meanwhile included.
Resume(x) ==
  /\ x.done /\ x.op = "list" /\ calls' = calls \ {x}
  /\ form' = IF x.id # 0 THEN [form EXCEPT !.draft = x.id, !.text = x.text] ELSE form
  /\ UNCHANGED <<type, lookups, making, run, creates, drafts, bounds, last, spoilt>>

-----------------------------------------------------------------------------
(* What goes wrong                                                           *)

Mishap == mishaps < MaxMishaps /\ mishaps' = mishaps + 1 /\ UNCHANGED <<type, drafts, edits, opens, last>>

\* The page gives up on a submission that the server still works on, or has answered.
AnswerLost ==
  /\ Mishap /\ Busy /\ creates[run.of].step \notin {"uploading", "refused", "died"} /\ run' = Idle
  /\ UNCHANGED <<form, lookups, making, creates, calls, spoilt>>
\* A statement fails, or the process stops: what is committed stays.
CreateDies(c) ==
  /\ Mishap /\ creates[c].step \in {"sent", "numbered", "stored", "filed", "tracked"}
  /\ creates' = [creates EXCEPT ![c] = [Over(@) EXCEPT !.step = "died"]]
  /\ UNCHANGED <<page, calls, spoilt>>
LookupFails ==
  /\ Mishap /\ \E p \in Known : lookups[p] # "no" /\ lookups' = [lookups EXCEPT ![p] = "no"]
  /\ UNCHANGED <<form, making, run, creates, calls, spoilt>>
CallFails ==
  /\ Mishap /\ \E x \in calls : calls' = calls \ {x}
  /\ spoilt' = TRUE /\ UNCHANGED <<page, creates>>
PropertyFails == Mishap /\ making /\ making' = FALSE /\ UNCHANGED <<form, lookups, run, creates, calls, spoilt>>

Fields ==
  \/ EditContact \/ EditContract \/ EditOccurrences \/ EditDates \/ AttachFile \/ RemoveFile
  \/ EditRequest \/ EditOpportunity \/ EditClient \/ EditLandscape \/ EditIrrigation \/ EditRfi
  \/ PickProperty \/ ClearProperty \/ CreateProperty \/ PropertyCreated \/ LoadSettings
  \/ \E p \in Known : LeadArrives(p)
Create(c) == Check(c) \/ Insert(c) \/ AddIntake(c) \/ AddProject(c) \/ MoveLead(c) \/ Created(c) \/ NotCreated(c)
Next ==
  \/ Fields \/ Open \/ Close \/ Reload \/ Submit \/ UploadFile \/ UploadFails \/ Finish \/ SaveDraft
  \/ \E c \in 1..MaxCreates[type] : Create(c) \/ CreateDies(c)
  \/ \E x \in calls : Serve(x) \/ Saved(x) \/ Resume(x)
  \/ AnswerLost \/ LookupFails \/ CallFails \/ PropertyFails

Spec == Init /\ [][Next]_vars

-----------------------------------------------------------------------------
(* Properties                                                                *)

Sent == {c \in 1..MaxCreates[type] : creates[c] # NotSent}

\* An estimate is built in one order and, once the form heard of it, is there
\* with all its parts and every acceptable file whose upload went through;
\* two estimates never share a number.
EstimateIsWhole ==
  /\ \A c \in Sent : /\ "lead" \in creates[c].has => "project" \in creates[c].has
                     /\ "project" \in creates[c].has => "intake" \in creates[c].has
                     /\ "intake" \in creates[c].has => "estimate" \in creates[c].has
                     /\ creates[c].step \in {"created", "uploading", "done"} =>
                          {"estimate", "intake", "project"} \subseteq creates[c].has
                          /\ (creates[c].body.lead # None => "lead" \in creates[c].has)
  /\ Busy /\ At(run.of, "uploading") /\ run.todo = <<>> /\ mishaps = 0 =>
       {k \in FileKinds : creates[run.of].rows[k] = "stored"} =
       {u.kind : u \in {v \in ToSet(creates[run.of].body.files) : Accepted(v)}}
  /\ \A c, d \in Sent : c # d /\ {"estimate"} \subseteq creates[c].has \cap creates[d].has => creates[c].number # creates[d].number

Leaves(c) == creates[c] = NotSent /\ creates'[c] # NotSent

\* The lead the maintenance form links is the one of the property it submits,
\* when the lookup of that property had answered.
LeadIsOfProperty(c) ==
  type = "maintenance" /\ form.settled => creates'[c].body.lead = LeadOf[creates'[c].body.prop]

\* An estimate is a rush on the day it is sent only if a deadline was typed and
\* the form said so, when the page knows the window and is on the business day.
RushAsShown(c) ==
  form.loaded /\ creates'[c].body.local = 0 =>
    (IsRush(creates'[c].body.due, Window) <=> form.text.due # None /\ isRushWindowDate(form.text.due, SeenWindow, 0))

\* What leaves the form is what it showed: the lead of the property, a rush or none.
SentAsShown == [][\A c \in 1..MaxCreates[type] : Leaves(c) => LeadIsOfProperty(c) /\ RushAsShown(c)]_vars

\* For a rep who waits for the draft calls, none of which fails: what was last saved
\* and not submitted is the one draft there is, and a submitted one is gone.
DraftsFollow ==
  ~Overlap /\ ~spoilt /\ calls = {} /\ ~Busy =>
    /\ {drafts[d] : d \in {x \in DOMAIN drafts : Exists(x)}} = IF last = None THEN {} ELSE {last}
    /\ form.draft # 0 => Exists(form.draft)
================================================================================
