------------------------------ MODULE SettingsRows ------------------------------
(*****************************************************************************)
(* A row of the settings lists that feed a proposal: a team member, a client *)
(* reference, a licence or certificate, a portfolio property.  The four      *)
(* sections have the same life.  A row is edited in a form that copies it    *)
(* when it opens, compares what was typed with the row the list has when it  *)
(* is saved, sends what differs and closes when the server agrees; a row has *)
(* pictures, objects in a bucket whose keys it stores; and there may be only *)
(* one insurance document.  The list is read again after every write.        *)
(*****************************************************************************)
EXTENDS SequencesExt, FiniteSets

CONSTANTS
  Texts, Blank, Null,  \* what a field holds: a text, an empty string, SQL NULL
  Absent,              \* no row, nothing expected of a field
  Keys,                \* object keys: the formats of a portrait, or photos
  Admins,              \* browser windows that add documents
  Overlap,             \* whether the server works on several requests at once
  MaxTyped, MaxSaves, MaxOthers, MaxPictures, MaxDocs, MaxMishaps   \* bounds

RowAssumption ==
  /\ Blank \notin Texts /\ Null \notin Texts \cup {Blank} /\ Absent \notin Texts \cup {Blank, Null}
  /\ Overlap \in BOOLEAN

VARIABLES
  section,   \* which of the lists this is
  row,       \* the stored row: its fields, whether it is active
  list,      \* the row as the list of this window has it
  fetch,     \* the list is being read again, and what the server read
  form,      \* the form of the row
  saves,     \* the PATCHes of the row
  pictures, bucket,  \* the stored keys in order, and the objects
  tasks,     \* uploads, removals and moves of pictures
  shown,     \* the keys the list has
  docs,      \* insurance documents: active, past their date
  admins,    \* the windows that add one
  wanted, undone, kept, unwanted, missed,  \* ghosts, see the properties
  others, mishaps

rowVars == <<row, list, form, saves, wanted, undone, others>>
pictureVars == <<pictures, bucket, tasks, shown, kept, unwanted, missed>>
docVars == <<docs, admins>>
vars == <<section, fetch, mishaps, rowVars, pictureVars, docVars>>

-----------------------------------------------------------------------------
(* The forms.  One field stands for all of a kind: required ones, those whose
   emptied input becomes null, and those that may be empty strings.            *)

RosterForm == [label |-> "required", note |-> "nullable"]
ReferenceForm == [label |-> "required", note |-> "nullable", plain |-> "plain"]
DocumentForm == [label |-> "required", note |-> "nullable"]
PortfolioForm == [label |-> "required"]

FormOf == [roster |-> RosterForm, references |-> ReferenceForm,
           documents |-> DocumentForm, portfolio |-> PortfolioForm]
Fields == DOMAIN FormOf[section]

\* existing?.location ?? ''
Shown(v) == IF v = Null THEN Blank ELSE v

\* Mutant of Sent: every empty input becomes null.
SentNull(f, v) == IF v = Blank THEN Null ELSE v

\* location || null
Sent(f, v) == IF FormOf[section][f] = "nullable" /\ v = Blank THEN Null ELSE v

\* Mutant of Differing: everything in the form is sent.
Everything(typed, existing) == Fields

Differing(typed, existing) == {f \in Fields : typed[f] # Shown(existing.fields[f])}

\* getattr(body, camel) is not None: a null never reaches the UPDATE.
Written(body) == {f \in DOMAIN body : body[f] # Null}

NoForm == [open |-> FALSE, typed |-> [f \in Fields |-> Blank], touched |-> {}, renewed |-> FALSE, save |-> 0]
NoSave == [at |-> "idle", body |-> <<>>, touched |-> {}, renewed |-> FALSE, typed |-> <<>>]
NoFetch == [at |-> "none", row |-> Absent, keys |-> <<>>]
NoTask == [kind |-> "none", key |-> Absent, at |-> "idle", order |-> <<>>, prior |-> <<>>, heard |-> TRUE]
NoAdmin == [seen |-> FALSE, past |-> FALSE, kind |-> "license", at |-> "idle"]

Init ==
  /\ section \in DOMAIN FormOf
  /\ row \in [fields : [Fields -> {CHOOSE t \in Texts : TRUE}], active : {TRUE}]
  /\ list = row /\ fetch = NoFetch /\ form = NoForm
  /\ saves = [i \in 1..MaxSaves |-> NoSave]
  /\ pictures = <<>> /\ bucket = {} /\ shown = <<>> /\ tasks = [i \in 1..MaxPictures |-> NoTask]
  /\ docs = [d \in 1..MaxDocs |-> [at |-> "none", past |-> FALSE]] /\ admins = [w \in Admins |-> NoAdmin]
  /\ wanted = [f \in Fields |-> Absent] /\ undone = FALSE /\ kept = {} /\ unwanted = {} /\ missed = {}
  /\ others = 0 /\ mishaps = 0

\* onSuccess: invalidateQueries, which also restarts a read that is under way.
ReadAgain == fetch' = [NoFetch EXCEPT !.at = "sent"]
Mishap == mishaps < MaxMishaps /\ mishaps' = mishaps + 1

-----------------------------------------------------------------------------
(* The list and its rows                                                      *)

ServeList ==
  /\ fetch.at = "sent"
  /\ fetch' = [at |-> "served", row |-> IF row.active THEN row ELSE Absent, keys |-> pictures]
  /\ UNCHANGED <<section, mishaps, rowVars, pictureVars, docVars>>

\* The row is replaced under an open form; a row that is gone takes its form with it.
ShowList ==
  /\ fetch.at = "served" /\ fetch' = NoFetch
  /\ list' = fetch.row /\ shown' = fetch.keys
  /\ form' = IF fetch.row = Absent THEN NoForm
             ELSE IF form.open /\ list # fetch.row THEN [form EXCEPT !.renewed = TRUE] ELSE form
  /\ UNCHANGED <<section, mishaps, row, saves, wanted, undone, others,
                 pictures, bucket, tasks, kept, unwanted, missed, docVars>>

FetchFails ==
  /\ fetch.at # "none" /\ Mishap /\ fetch' = NoFetch
  /\ UNCHANGED <<section, rowVars, pictureVars, docVars>>

Edit ==
  /\ ~form.open /\ list # Absent
  /\ form' = [NoForm EXCEPT !.open = TRUE, !.typed = [f \in Fields |-> Shown(list.fields[f])]]
  /\ UNCHANGED <<section, fetch, mishaps, row, list, saves, wanted, undone, others,
                 pictureVars, docVars>>

Type(f, v) ==
  /\ form.open /\ form.typed[f] # v /\ Cardinality(form.touched \cup {f}) <= MaxTyped
  /\ form' = [form EXCEPT !.typed[f] = v, !.touched = @ \cup {f}]
  /\ UNCHANGED <<section, fetch, mishaps, row, list, saves, wanted, undone, others,
                 pictureVars, docVars>>

Cancel ==
  /\ form.open /\ form' = NoForm
  /\ UNCHANGED <<section, fetch, mishaps, row, list, saves, wanted, undone, others,
                 pictureVars, docVars>>

\* onSubmit: a form without a required value stays, one without a difference closes.
Submit(i) ==
  LET sent == Differing(form.typed, list) IN
  /\ form.open /\ form.save = 0
  /\ saves[i] = NoSave /\ \A j \in 1..(i - 1) : saves[j] # NoSave
  /\ \A f \in Fields : FormOf[section][f] = "required" => form.typed[f] # Blank
  /\ IF sent = {} THEN form' = NoForm /\ UNCHANGED saves
     ELSE /\ form' = [form EXCEPT !.save = i]
          /\ saves' = [saves EXCEPT ![i] = [at |-> "sent", body |-> [f \in sent |-> Sent(f, form.typed[f])],
                                            touched |-> form.touched, renewed |-> form.renewed,
                                            typed |-> form.typed]]
  /\ UNCHANGED <<section, fetch, mishaps, row, list, wanted, undone, others,
                 pictureVars, docVars>>

\* The handler; it looks at no `active`, and a body of nulls is refused with a 400.
Patch(i) ==
  /\ saves[i].at = "sent" /\ (Overlap \/ \A j \in 1..(i - 1) : saves[j].at # "sent")
  /\ LET columns == Written(saves[i].body) IN
     /\ saves' = [saves EXCEPT ![i].at = IF columns = {} THEN "refused" ELSE "stored"]
     /\ row' = [row EXCEPT !.fields = [f \in Fields |-> IF f \in columns THEN saves[i].body[f] ELSE @[f]]]
     /\ undone' = (undone \/ (~saves[i].renewed /\
          \E f \in columns \ saves[i].touched : saves[i].body[f] # row.fields[f]))
     /\ wanted' = [f \in Fields |->
          IF f \notin DOMAIN saves[i].body THEN wanted[f]
          ELSE IF f \in saves[i].touched /\ ~(saves[i].typed[f] = Blank /\ FormOf[section][f] = "nullable")
          THEN saves[i].typed[f] ELSE Absent]
  /\ UNCHANGED <<section, fetch, mishaps, list, form, others, pictureVars, docVars>>

\* The form that sent it closes, if it is still there; one that was cancelled is not told.
Saved(i) ==
  /\ saves[i].at = "stored"
  /\ saves' = [saves EXCEPT ![i] = [NoSave EXCEPT !.at = "over"]] /\ ReadAgain
  /\ form' = IF form.save = i THEN NoForm ELSE form
  /\ UNCHANGED <<section, mishaps, row, list, wanted, undone, others, pictureVars, docVars>>

SaveFails(i) ==
  /\ \/ saves[i].at = "refused" /\ UNCHANGED mishaps
     \/ saves[i].at \in {"sent", "stored"} /\ Mishap
  /\ saves' = [saves EXCEPT ![i] = [NoSave EXCEPT !.at = "over"]]
  /\ form' = IF form.save = i THEN [form EXCEPT !.save = 0] ELSE form
  /\ UNCHANGED <<section, fetch, row, list, wanted, undone, others, pictureVars, docVars>>

\* The form of a new row is sent and answered, and the list read again.
Add ==
  /\ others < MaxOthers /\ others' = others + 1 /\ ReadAgain
  /\ UNCHANGED <<section, mishaps, row, list, form, saves, wanted, undone, pictureVars, docVars>>

\* The button of a row whose form is closed.
Deactivate ==
  /\ ~form.open /\ list # Absent /\ row' = [row EXCEPT !.active = FALSE] /\ ReadAgain
  /\ UNCHANGED <<section, mishaps, list, form, saves, wanted, undone, others, pictureVars, docVars>>

\* Another manager saves the same row.
OtherSaves(f, v) ==
  /\ others < MaxOthers /\ others' = others + 1
  /\ row.fields[f] # v /\ row' = [row EXCEPT !.fields[f] = v]
  /\ wanted' = [wanted EXCEPT ![f] = Absent]
  /\ UNCHANGED <<section, fetch, mishaps, list, form, saves, undone, pictureVars, docVars>>

RowStep ==
  \/ ServeList \/ ShowList \/ FetchFails \/ Edit \/ Cancel \/ Add \/ Deactivate
  \/ \E f \in Fields : \E v \in Texts \cup {Blank} : Type(f, v)
  \/ \E f \in Fields : \E v \in Texts : OtherSaves(f, v)
  \/ \E i \in 1..MaxSaves : Submit(i) \/ Patch(i) \/ Saved(i) \/ SaveFails(i)

-----------------------------------------------------------------------------
(* Pictures: the portrait of a team member and the scan of a document are
   replaced, the photos of a property are added, removed and moved.            *)

Portrait == section \in {"roster", "documents"}
Waiting == \E i \in 1..MaxPictures : tasks[i].kind # "none" /\ tasks[i].heard
Running(i) == tasks[i].at \notin {"idle", "done"}

\* ImageUploadField, DocumentScanCell: disabled while a request is pending.
Ask(i, t) ==
  /\ ~Waiting /\ tasks[i].kind = "none" /\ tasks[i].at = "idle"
  /\ \A j \in 1..(i - 1) : tasks[j] # NoTask
  /\ tasks' = [tasks EXCEPT ![i] = [t EXCEPT !.at = "read"]]
  /\ UNCHANGED <<section, fetch, mishaps, rowVars, pictures, bucket, shown, docVars>>

Upload(i, k) ==
  /\ section # "references" /\ (Portrait \/ \A j \in 1..MaxPictures : tasks[j].key # k)
  /\ Ask(i, [NoTask EXCEPT !.kind = "upload", !.key = k]) /\ UNCHANGED <<kept, unwanted, missed>>

RemovePicture(i, k) ==
  /\ section \in {"roster", "portfolio"} /\ k \in ToSet(shown)
  /\ Ask(i, [NoTask EXCEPT !.kind = "remove", !.key = k])
  /\ unwanted' = unwanted \cup {k} /\ UNCHANGED <<kept, missed>>

\* Mutant of Moved: the photo is copied over its neighbour.
MovedOver(s, a, b) == [s EXCEPT ![b] = s[a]]

\* movePhoto: the whole array in its new order.
Moved(s, a, b) == [s EXCEPT ![a] = s[b], ![b] = s[a]]

Move(i, a) ==
  /\ section = "portfolio" /\ a + 1 \in DOMAIN shown
  /\ Ask(i, [NoTask EXCEPT !.kind = "move", !.order = Moved(shown, a, a + 1)])
  /\ missed' = missed \cup ({tasks[j].key : j \in 1..MaxPictures} \ ToSet(shown))
  /\ UNCHANGED <<kept, unwanted>>

\* Mutant of Superseded: the object is deleted whatever replaced it.
EverySuperseded(t) == IF t.kind = "remove" THEN {t.key} ELSE IF section = "roster" THEN ToSet(t.prior) ELSE {}

\* Objects no row refers to any more; the scan of a document is never deleted.
Superseded(t) ==
  IF t.kind = "remove" THEN {t.key}
  ELSE IF section = "roster" THEN ToSet(t.prior) \ {t.key} ELSE {}

\* [k for k in keys if k != key]; an array has a key once.
WithoutKey(s, k) ==
  IF k \in ToSet(s) THEN RemoveAt(s, CHOOSE n \in DOMAIN s : s[n] = k) ELSE s

NewKeys(t) ==
  CASE t.kind = "move" -> t.order
    [] t.kind = "remove" -> WithoutKey(t.prior, t.key)
    [] t.kind = "upload" -> IF Portrait THEN <<t.key>> ELSE Append(t.prior, t.key)

\* The handlers, step by step: the row is read, the object stored, the row written, the
\* object that is no longer needed deleted.
Work(i) ==
  LET t == tasks[i]
      Goto(step) == tasks' = [tasks EXCEPT ![i].at = step] IN
  /\ Running(i) /\ (Overlap \/ \A j \in 1..(i - 1) : ~Running(j))
  /\ \/ /\ t.at = "read"
        /\ IF t.kind = "remove" /\ t.key \notin ToSet(pictures) /\ section = "portfolio"
           THEN tasks' = [tasks EXCEPT ![i].at = "done"]
           ELSE tasks' = [tasks EXCEPT ![i].prior = pictures, ![i].at = IF t.kind = "upload" THEN "store" ELSE "write"]
        /\ UNCHANGED <<pictures, bucket, kept>>
     \/ t.at = "store" /\ bucket' = bucket \cup {t.key} /\ Goto("write") /\ UNCHANGED <<pictures, kept>>
     \/ /\ t.at = "write" /\ pictures' = NewKeys(t) /\ Goto("tidy") /\ UNCHANGED bucket
        /\ kept' = IF t.kind = "upload" THEN kept \cup {t.key} ELSE kept
     \/ t.at = "tidy" /\ bucket' = bucket \ Superseded(t) /\ Goto("done") /\ UNCHANGED <<pictures, kept>>
  /\ UNCHANGED <<section, fetch, mishaps, rowVars, shown, unwanted, missed, docVars>>

Over(i) == tasks' = [tasks EXCEPT ![i] = [NoTask EXCEPT !.kind = "over", !.key = tasks[i].key, !.heard = FALSE]]

PictureAnswered(i) ==
  /\ tasks[i].at = "done" /\ Over(i)
  /\ IF tasks[i].heard THEN ReadAgain ELSE UNCHANGED fetch
  /\ UNCHANGED <<section, mishaps, rowVars, pictures, bucket, shown, kept, unwanted, missed, docVars>>

\* The server dies, or the answer never comes and the handler goes on.
PictureFails(i) ==
  /\ Running(i) /\ tasks[i].heard /\ Mishap
  /\ Over(i) \/ tasks' = [tasks EXCEPT ![i].heard = FALSE]
  /\ UNCHANGED <<section, fetch, rowVars, pictures, bucket, shown, kept, unwanted, missed, docVars>>

PictureStep ==
  \/ ServeList \/ ShowList \/ FetchFails
  \/ \E i \in 1..MaxPictures :
       \/ Work(i) \/ PictureAnswered(i) \/ PictureFails(i)
       \/ \E k \in Keys : Upload(i, k) \/ RemovePicture(i, k)
       \/ \E a \in 1..MaxPictures : Move(i, a)

-----------------------------------------------------------------------------
(* Insurance: one active document for the whole company                        *)

Active == {d \in DOMAIN docs : docs[d].at = "active"}

\* list_licenses: rows that are inactive or past their date only on request.
Listed(past) == IF past THEN {d \in DOMAIN docs : docs[d].at # "none"} ELSE {d \in Active : ~docs[d].past}
Window(w, a) == admins' = [admins EXCEPT ![w] = a]

ReadDocs(w) ==
  \E past \in BOOLEAN :
    /\ Window(w, [admins[w] EXCEPT !.seen = Listed(past) \cap Active # {}, !.past = past])
    /\ UNCHANGED <<section, fetch, mishaps, rowVars, pictureVars, docs>>

\* availableKinds: insurance is offered while the list shows no active one.
ChooseInsurance(w) ==
  /\ admins[w].at = "idle" /\ admins[w].kind = "license" /\ ~admins[w].seen
  /\ Window(w, [admins[w] EXCEPT !.kind = "insurance"])
  /\ UNCHANGED <<section, fetch, mishaps, rowVars, pictureVars, docs>>

SendDoc(w) ==
  /\ admins[w].at = "idle" /\ admins[w].kind = "insurance" /\ Window(w, [admins[w] EXCEPT !.at = "sent"])
  /\ UNCHANGED <<section, fetch, mishaps, rowVars, pictureVars, docs>>

\* Mutant of Standing: a document past its date does not count.
StandingValid == {d \in Active : ~docs[d].past}

\* create_license: the documents that forbid another one.
Standing == Active

CheckDoc(w) ==
  /\ admins[w].at = "sent" /\ (Overlap \/ \A x \in Admins : admins[x].at # "insert")
  /\ Window(w, [admins[w] EXCEPT !.at = IF Standing = {} THEN "insert" ELSE "answer"])
  /\ UNCHANGED <<section, fetch, mishaps, rowVars, pictureVars, docs>>

InsertDoc(w) ==
  /\ admins[w].at = "insert"
  /\ \E d \in DOMAIN docs :
       /\ docs[d].at = "none" /\ \A e \in 1..(d - 1) : docs[e].at # "none"
       /\ docs' = [docs EXCEPT ![d].at = "active"]
  /\ Window(w, [NoAdmin EXCEPT !.past = admins[w].past, !.seen = admins[w].seen])
  /\ UNCHANGED <<section, fetch, mishaps, rowVars, pictureVars>>

\* The 409: the form stays as it is.
DocRefused(w) ==
  /\ admins[w].at = "answer" /\ Window(w, [admins[w] EXCEPT !.at = "idle"])
  /\ UNCHANGED <<section, fetch, mishaps, rowVars, pictureVars, docs>>

DocChanges(d) ==
  /\ docs[d].at = "active"
  /\ \/ docs' = [docs EXCEPT ![d].at = "inactive"]
     \/ ~docs[d].past /\ docs' = [docs EXCEPT ![d].past = TRUE]
  /\ UNCHANGED <<section, fetch, mishaps, rowVars, pictureVars, admins>>

DocStep ==
  \/ \E w \in Admins : ReadDocs(w) \/ ChooseInsurance(w) \/ SendDoc(w) \/ CheckDoc(w) \/ InsertDoc(w) \/ DocRefused(w)
  \/ \E d \in DOMAIN docs : DocChanges(d)

Next == RowStep \/ PictureStep \/ DocStep
Spec == Init /\ [][Next]_vars

-----------------------------------------------------------------------------
(* Properties                                                                *)

\* A save the server carried out left in the row what was typed into the form, until
\* someone writes that field again.  An emptied nullable field is the
\* exception: its null is dropped, and the old text stays.
SavedFormIsStored == \A f \in Fields : wanted[f] # Absent => row.fields[f] = wanted[f]

\* A save overwrites a field nobody typed into only if the list was read again under
\* the open form; otherwise what another manager stored meanwhile survives.
OthersSurvive == ~undone

\* A photo that was stored goes only if its removal was asked for, or if photos were moved
\* on a list that did not show it yet: nothing else takes a photo out of the array.
PhotosStay == section = "portfolio" => kept \ (unwanted \cup missed) \subseteq ToSet(pictures)

\* (Does not hold.)  A photo stays until its removal is asked for, whatever is moved.
MovesLoseNothing == section = "portfolio" => kept \ unwanted \subseteq ToSet(pictures)

\* A team member or a document never refers to an object that is not there.
PortraitExists == Portrait => ToSet(pictures) \subseteq bucket

\* There is at most one active insurance document, valid or not.
OneInsurance == \A d, e \in Active : d = e
===============================================================================
