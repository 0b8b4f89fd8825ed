----------------------------- MODULE CompanyPanel -----------------------------
(***************************************************************************)
(* The panel of the Accounts page that makes a management company or edits *)
(* one.  An edit is one PATCH of the company and then, all at once, one    *)
(* request per contact that was deleted, changed or added, found by        *)
(* comparing the rows of the form with the list the page holds.  The list  *)
(* is read again after every request that succeeded.  A company is made by *)
(* one request that the server serves statement by statement.              *)
(*                                                                         *)
(* The panel of a card stays mounted: its rows are made when the card is   *)
(* drawn and again by Cancel, never by a save or by a newer list.          *)
(* The optional fields of a company are one text, its website; a contact   *)
(* is a name, which stands for name and email, and a title, which stands   *)
(* for what is optional.                                                   *)
(***************************************************************************)
EXTENDS Integers, SequencesExt

CONSTANTS
  Sites, Names, Titles,   \* what is typed
  Empty,                  \* a field that is left blank, and NULL
  Overlap,                \* whether an edit is saved or cancelled before earlier answers and the list are in
  MaxTyped,               \* bound: changes of the form
  MaxClicks,              \* bound: saves
  MaxLosses               \* bound: requests that never arrive, or die half way

PanelAssumption ==
  /\ Empty \notin Sites \cup Names \cup Titles /\ Overlap \in BOOLEAN
  /\ {MaxTyped, MaxClicks, MaxLosses} \subseteq Nat

VARIABLES
  mode,      \* whether the panel makes a company or edits one
  company,   \* property_management_companies and its hoa_contact_information
  list,      \* the company as the page has it, the initialValues of the panel
  fetch,     \* the reading of the list that is under way
  shown,     \* the panel is open
  stage,     \* the save that is running: idle, create, edit, contacts
  fields,    \* the website and the rows of the form
  sent,      \* what the save works on: fields and list at the click
  requests,  \* requests under way, tagged with the save they belong to
  told,      \* ghost: the fields the rep was last told are stored
  typed, clicks, losses

panel == <<shown, stage, fields>>
bounds == <<typed, clicks, losses>>
vars == <<mode, company, list, fetch, panel, sent, requests, told, bounds>>

NewRow == [id |-> 0, name |-> Empty, title |-> Empty]
NoCompany == [site |-> Empty, contacts |-> {}, made |-> 0]
NoFields == [site |-> Empty, rows |-> <<>>]
Nothing == [fields |-> NoFields, list |-> NoCompany]
NotAsked == [step |-> "none", read |-> NoCompany]
Quiet == Overlap \/ (requests = {} /\ fetch = NotAsked)

\* draftFromInitial: a row per contact, in the order of their ids.
UpTo(co, c) == {d \in co.contacts : d.id <= c.id}
draftFromInitial(co) ==
  [i \in 1..Cardinality(co.contacts) |-> CHOOSE c \in co.contacts : Cardinality(UpTo(co, c)) = i]
\* What the form starts with, and what Cancel puts back.
FieldsOf(co) == IF mode = "edit" THEN [site |-> co.site, rows |-> draftFromInitial(co)]
                ELSE [site |-> Empty, rows |-> <<NewRow>>]

Init ==
  /\ mode \in {"edit", "create"}
  /\ \E n \in Names, t \in Titles \cup {Empty} :
       company = IF mode = "create" THEN NoCompany
                 ELSE [site |-> Empty, contacts |-> {[id |-> 1, name |-> n, title |-> t]}, made |-> 1]
  /\ list = company /\ fetch = NotAsked
  /\ shown = FALSE /\ stage = "idle" /\ fields = FieldsOf(company)
  /\ sent = Nothing /\ requests = {} /\ told = NoFields
  /\ typed = 0 /\ clicks = 0 /\ losses = 0

-----------------------------------------------------------------------------
(* The form                                                                  *)

Open ==
  /\ ~shown /\ clicks < MaxClicks /\ shown' = TRUE
  /\ UNCHANGED <<mode, company, list, fetch, stage, fields, sent, requests, told, bounds>>

Typing(new) ==
  /\ shown /\ typed < MaxTyped /\ new # fields
  /\ typed' = typed + 1 /\ fields' = new
  /\ UNCHANGED <<mode, company, list, fetch, shown, stage, sent, requests, told, clicks, losses>>

setField == \E v \in Sites \cup {Empty} : Typing([fields EXCEPT !.site = v])
setContactDraftField == \E i \in DOMAIN fields.rows :
  \/ \E v \in Names \cup {Empty} : Typing([fields EXCEPT !.rows[i].name = v])
  \/ \E v \in Titles \cup {Empty} : Typing([fields EXCEPT !.rows[i].title = v])
addContactDraft == Typing([fields EXCEPT !.rows = Append(@, NewRow)])
\* A panel that makes a company keeps its last row.
removeContactDraft == \E i \in DOMAIN fields.rows :
  (mode = "create" => Len(fields.rows) > 1) /\ Typing([fields EXCEPT !.rows = RemoveAt(@, i)])

\* Cancel, Escape and the backdrop: also while a save is running.
handleClose ==
  /\ shown /\ (mode = "create" \/ Quiet)
  /\ shown' = FALSE /\ fields' = FieldsOf(list)
  /\ UNCHANGED <<mode, company, list, fetch, stage, sent, requests, told, bounds>>

-----------------------------------------------------------------------------
(* Saving                                                                    *)

Request(op, key, row, changed) ==
  [op |-> op, key |-> key, row |-> row, changed |-> changed, save |-> clicks, state |-> "sent", done |-> 0]
NotBlank(r) == r.name # Empty

\* handleSubmit: one save at a time of this panel.
handleSubmit ==
  /\ shown /\ stage = "idle" /\ clicks < MaxClicks
  /\ Quiet /\ (mode = "create" => requests = {})
  /\ clicks' = clicks + 1 /\ stage' = mode /\ told' = NoFields
  /\ sent' = [fields |-> fields, list |-> list]
  /\ requests' = requests \cup {[Request(mode, 0, NewRow, {}) EXCEPT !.save = clicks + 1]}
  /\ UNCHANGED <<mode, company, list, fetch, shown, fields, typed, losses>>

Original(row) == CHOOSE c \in sent.list.contacts : c.id = row.id
ChangedIn(row) == {f \in {"name", "title"} : row[f] # Original(row)[f]}

\* The contacts of the list that are not in the rows, the rows that differ from theirs, and the
\* rows that are new and not blank.
Rows == sent.fields.rows
Deletions == {Request("delete", 0, c, {}) : c \in {d \in sent.list.contacts :
                \A i \in DOMAIN Rows : Rows[i].id # d.id}}
Updates == {Request("update", i, Rows[i], ChangedIn(Rows[i])) : i \in {j \in DOMAIN Rows :
              /\ \E c \in sent.list.contacts : c.id = Rows[j].id
              /\ ChangedIn(Rows[j]) # {}}}
Additions == {Request("add", i, Rows[i], {}) : i \in {j \in DOMAIN Rows : Rows[j].id = 0 /\ NotBlank(Rows[j])}}
Reconcile == Deletions \cup Updates \cup Additions

-----------------------------------------------------------------------------
(* The server                                                                *)

\* A field sent as null is dropped (exclude_none); a name is never null.
Kept(c) == c.changed \ (IF c.row.title = Empty THEN {"title"} ELSE {})
Found(c) == \E d \in company.contacts : d.id = c.row.id
Accepted(c) == CASE c.op = "delete" -> Found(c)
                 [] c.op = "update" -> Found(c) /\ Kept(c) # {}
                 [] OTHER -> TRUE
Inserted(row) == [company EXCEPT !.contacts = @ \cup {[row EXCEPT !.id = company.made + 1]}, !.made = @ + 1]
Written(d, c) == [f \in DOMAIN d |-> IF f \in Kept(c) THEN c.row[f] ELSE d[f]]

Effect(c) ==
  CASE c.op = "edit" -> IF sent.fields.site = Empty THEN company ELSE [company EXCEPT !.site = sent.fields.site]
    [] c.op = "add" -> Inserted(c.row)
    [] c.op = "delete" -> [company EXCEPT !.contacts = {d \in @ : d.id # c.row.id}]
    [] c.op = "update" -> [company EXCEPT !.contacts = {IF d.id = c.row.id THEN Written(d, c) ELSE d : d \in @}]

Step(c, state) == requests' = (requests \ {c}) \cup {[c EXCEPT !.state = state]}

Serve == \E c \in requests :
  /\ c.state = "sent" /\ c.op # "create"
  /\ Step(c, IF Accepted(c) THEN "ok" ELSE "failed")
  /\ company' = IF Accepted(c) THEN Effect(c) ELSE company
  /\ UNCHANGED <<mode, list, fetch, panel, sent, told, bounds>>

\* create_management_company: the company, then its contacts one by one, each committed.
CreateCompany == \E c \in requests :
  /\ c.state = "sent" /\ c.op = "create"
  /\ Step(c, "running")
  /\ company' = [NoCompany EXCEPT !.site = sent.fields.site]
  /\ UNCHANGED <<mode, list, fetch, panel, sent, told, bounds>>
ToCreate(c) == {i \in DOMAIN Rows : i > c.done /\ NotBlank(Rows[i])}
CreateContact == \E c \in requests :
  /\ c.state = "running"
  /\ IF ToCreate(c) # {}
     THEN LET i == Min(ToCreate(c)) IN
          /\ company' = Inserted(Rows[i])
          /\ requests' = (requests \ {c}) \cup {[c EXCEPT !.done = i]}
     ELSE Step(c, "ok") /\ UNCHANGED company
  /\ UNCHANGED <<mode, list, fetch, panel, sent, told, bounds>>

\* A request never arrives, or its handler dies between two statements.
Lose == \E c \in requests :
  /\ c.state \in {"sent", "running"} /\ losses < MaxLosses /\ losses' = losses + 1
  /\ Step(c, "failed")
  /\ UNCHANGED <<mode, company, list, fetch, panel, sent, told, typed, clicks>>

-----------------------------------------------------------------------------
(* The answers                                                               *)

\* The last answer of a save closes the panel.  One that edits keeps its rows.
Finish ==
  /\ told' = sent.fields /\ shown' = FALSE /\ stage' = "idle"
  /\ fields' = IF mode = "edit" THEN fields ELSE FieldsOf(company)

\* A request that succeeded has the list read again, a reading under way from the start.
Succeeds == \E c \in requests :
  /\ c.state = "ok"
  /\ fetch' = [NotAsked EXCEPT !.step = "asked"]
  /\ LET rest == IF c.op = "edit" THEN Reconcile ELSE {} IN
     /\ requests' = (requests \ {c}) \cup rest
     /\ IF stage # "idle" /\ c.save = clicks /\ {d \in requests \ {c} : d.save = clicks} \cup rest = {}
        THEN Finish
        ELSE stage' = (IF c.op = "edit" THEN "contacts" ELSE stage) /\ UNCHANGED <<shown, fields, told>>
  /\ UNCHANGED <<mode, company, list, sent, bounds>>

\* The first request that fails ends the save; what is still under way goes on.
Fails == \E c \in requests :
  /\ c.state = "failed"
  /\ requests' = requests \ {c}
  /\ stage' = IF c.save = clicks THEN "idle" ELSE stage
  /\ UNCHANGED <<mode, company, list, fetch, shown, fields, sent, told, bounds>>

ReadList ==
  /\ fetch.step = "asked"
  /\ fetch' = [step |-> "read", read |-> company]
  /\ UNCHANGED <<mode, company, list, panel, sent, requests, told, bounds>>
ShowList ==
  /\ fetch.step = "read"
  /\ list' = fetch.read /\ fetch' = NotAsked
  /\ UNCHANGED <<mode, company, panel, sent, requests, told, bounds>>

Next ==
  \/ Open \/ setField \/ setContactDraftField \/ addContactDraft \/ removeContactDraft \/ handleClose
  \/ handleSubmit \/ Serve \/ CreateCompany \/ CreateContact \/ Lose \/ Succeeds \/ Fails
  \/ ReadList \/ ShowList
-----------------------------------------------------------------------------
(* What the rep was told is stored, is stored.                               *)

RowIds == {told.rows[i].id : i \in DOMAIN told.rows} \ {0}
NewRows == {i \in DOMAIN told.rows : told.rows[i].id = 0 /\ NotBlank(told.rows[i])}
OtherContacts == {c \in company.contacts : c.id \notin RowIds}
\* A blank title asks for no change.
Shows(r, c) == r.name = c.name /\ (r.title # Empty => r.title = c.title)
Alike(r, c) == r.name = c.name /\ r.title = c.title

\* After a save that closed the panel, every row that stood for a contact is that contact, the
\* other contacts are the new rows, each as often as it was typed, and a website that was typed
\* is the company's: nothing is left of earlier attempts and no row was lost to a stale list.
SavedIsStored == told # NoFields =>
  /\ told.site # Empty => company.site = told.site
  /\ \A i \in DOMAIN told.rows : told.rows[i].id # 0 =>
       \E c \in company.contacts : c.id = told.rows[i].id /\ Shows(told.rows[i], c)
  /\ Cardinality(NewRows) = Cardinality(OtherContacts)
  /\ \A c \in OtherContacts :
       Cardinality({i \in NewRows : Alike(told.rows[i], c)}) = Cardinality({d \in OtherContacts : Alike(d, c)})
=============================================================================
