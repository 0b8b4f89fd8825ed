------------------------------- MODULE UserAdmin -------------------------------
(*****************************************************************************)
(* Administration of users: the row of a user with its editor, its switch    *)
(* for the active flag and its link to Aspire, and the form that authorizes  *)
(* a person of the directory.  The editor sends the role and the whole set   *)
(* of branches; the server writes role, flag and branches one statement      *)
(* after the other, and works on the requests of several windows at once.    *)
(* A field sales role needs a contact in Aspire.                             *)
(*****************************************************************************)
EXTENDS FiniteSets, Naturals

CONSTANTS
  FieldSales, OtherRoles,  \* assignable roles, with and without a contact
  Retired,                 \* a role of old that cannot be assigned any more
  Unknown,                 \* a stored value that is no role
  Branches,                \* all the branches
  Manageable,              \* those the pickers offer
  People,                  \* the directory
  Windows,                 \* browser windows of administrators
  Nobody, Nothing,         \* no rep, no person, no value
  MaxRequests, MaxMishaps  \* bounds

Assignable == FieldSales \cup OtherRoles

UserAssumption ==
  /\ FieldSales \cap OtherRoles = {} /\ Retired \notin Assignable /\ Unknown \notin Assignable \cup {Retired}
  /\ Manageable \subseteq Branches /\ FieldSales # {} /\ OtherRoles # {}
  /\ Nothing \notin BOOLEAN \cup Assignable \cup {Retired, Unknown} /\ Nobody \notin People

VARIABLES
  user,     \* the stored user: role, active, whether a rep is linked, branches
  contact,  \* whether Aspire has a contact for the e-mail addresses
  editors,  \* per window: the editor of the row
  patches,  \* per window: the PATCH, of the editor or of the switch
  link,     \* the request to link a rep
  asked,    \* ghost: what the last save that worked alone promised
  forms,    \* per window: the form that authorizes
  auths,    \* per window: its request
  rows,     \* the user that was made for a person, and by which request
  sent, mishaps

userVars == <<user, editors, patches, link, asked>>
authVars == <<forms, auths, rows>>
vars == <<contact, sent, mishaps, userVars, authVars>>

-----------------------------------------------------------------------------
Idle == [at |-> "idle", role |-> Nothing, active |-> Nothing, branches |-> Nothing,
         current |-> Nothing, left |-> {}, alone |-> TRUE, chose |-> FALSE]
NoEditor == [open |-> FALSE, role |-> Nothing, branches |-> {}]
NoForm == [picked |-> Nobody, role |-> Nothing, block |-> FALSE]
NoAuth == [at |-> "idle", person |-> Nobody, role |-> Nothing, branches |-> {}, rep |-> FALSE]

Init ==
  /\ contact = FALSE
  /\ user \in [role : Assignable \cup {Retired, Unknown}, active : {TRUE}, rep : BOOLEAN, branches : {Branches}]
  /\ user.role \in FieldSales => user.rep
  /\ editors = [w \in Windows |-> NoEditor]
  /\ patches = [w \in Windows |-> Idle] /\ link = "idle" /\ asked = Nothing
  /\ forms = [w \in Windows |-> NoForm] /\ auths = [w \in Windows |-> NoAuth]
  /\ rows = [p \in People |-> Nothing]
  /\ sent = 0 /\ mishaps = 0

Mishap == mishaps < MaxMishaps /\ mishaps' = mishaps + 1
Ask == sent < MaxRequests /\ sent' = sent + 1

\* The administrators of Aspire add the contact.
ContactAppears == ~contact /\ contact' = TRUE /\ UNCHANGED <<sent, mishaps, userVars, authVars>>

-----------------------------------------------------------------------------
(* The row of a user                                                         *)

Editor(w, e) == editors' = [editors EXCEPT ![w] = e]

\* Mutant of storedEditorRole: every role that cannot be chosen is replaced.
assignableEditorRole(role) == IF role \in Assignable THEN role ELSE CHOOSE r \in FieldSales : TRUE

\* A retired role stays selected, anything else unknown starts as a field sales role.
storedEditorRole(role) ==
  IF role \in Assignable \cup {Retired} THEN role ELSE CHOOSE r \in FieldSales : TRUE

\* The editor copies the user of the list; one that opens from a list of old is, for the
\* server, one that was opened earlier.
ToggleEditor(w) ==
  /\ sent < MaxRequests /\ patches[w].at = "idle"  \* reduction: its content matters to requests only
  /\ Editor(w, IF editors[w].open THEN NoEditor
               ELSE [open |-> TRUE, role |-> storedEditorRole(user.role), branches |-> user.branches])
  /\ UNCHANGED <<contact, sent, mishaps, user, patches, link, asked, authVars>>

\* What can be chosen by the time Save is pressed: RoleSelect emits assignable roles,
\* CheckboxList ticks boxes one by one or all that the search leaves visible, and a
\* branch that is not offered keeps its place in the set.
ChosenRoles(role) == Assignable \cup {role}
ChosenBranches(selected) == {(selected \ Manageable) \cup ticked : ticked \in SUBSET Manageable}

\* Both buttons share one mutation, and are disabled while it is pending.
Send(w, body) ==
  /\ patches[w].at = "idle" /\ Ask
  /\ patches' = [patches EXCEPT ![w] = [body EXCEPT !.at = "read"]]
  /\ UNCHANGED <<contact, mishaps, user, editors, link, asked, authVars>>

Save(w) ==
  /\ editors[w].open
  /\ \E role \in ChosenRoles(editors[w].role), ids \in ChosenBranches(editors[w].branches) :
       Send(w, [Idle EXCEPT !.role = role, !.branches = ids, !.chose = role # editors[w].role])
\* The opposite of what the list shows, which may be old.
ToggleActive(w) == \E a \in BOOLEAN : Send(w, [Idle EXCEPT !.active = a])

\* patch_user, statement by statement.
Goto(w, step) == [patches EXCEPT ![w].at = step]
Onward(w) == Goto(w, IF patches[w].active # Nothing THEN "active" ELSE "delete")
Kept == UNCHANGED <<contact, sent, mishaps, editors, link, authVars>>
Working(w) == patches[w].at \in {"read", "role", "active", "delete", "insert"}

\* A write by one request takes the others' claim to have worked alone.
Disturb(w, q) == [v \in Windows |-> IF v # w /\ Working(v) THEN [q[v] EXCEPT !.alone = FALSE] ELSE q[v]]

ReadRow(w) ==
  /\ patches[w].at = "read"
  /\ patches' = [patches EXCEPT ![w].at = "role", ![w].current = [role |-> user.role, rep |-> user.rep],
                                ![w].alone = \A v \in Windows \ {w} : ~Working(v)]
  /\ UNCHANGED <<user, asked>> /\ Kept

\* Mutant of SkipsRole: an equal role is checked and written like any other.
NeverSkips(p) == p.role = Nothing

\* An equal role skips assignability, and what follows is done all the same.
SkipsRole(p) == p.role \in {Nothing, p.current.role}

\* Mutants of RoleAllowed: a retired role is accepted, the hard block is missing.
RoleKnown(p) == p.role \in Assignable \cup {Retired} /\ (p.role \in FieldSales => p.current.rep \/ contact)
RoleUnblocked(p) == p.role \in Assignable

\* ensure_assignable_role, and the hard block: the rep that was read, or a contact now.
RoleAllowed(p) == p.role \in Assignable /\ (p.role \in FieldSales => p.current.rep \/ contact)

ApplyRole(w) ==
  LET p == patches[w] IN
  /\ p.at = "role"
  /\ \/ SkipsRole(p) /\ patches' = Onward(w) /\ UNCHANGED <<user, asked>>
     \/ ~SkipsRole(p) /\ ~RoleAllowed(p) /\ patches' = Goto(w, "refused") /\ UNCHANGED <<user, asked>>
     \/ /\ ~SkipsRole(p) /\ RoleAllowed(p) /\ patches' = Disturb(w, Onward(w))
        /\ user' = [user EXCEPT !.role = p.role, !.rep = p.current.rep \/ (p.role \in FieldSales /\ contact)]
        /\ asked' = Nothing
  /\ Kept

\* The switch sends nothing else.
ApplyActive(w) ==
  /\ patches[w].at = "active" /\ patches' = Goto(w, "done")
  /\ user' = [user EXCEPT !.active = patches[w].active]
  /\ UNCHANGED asked /\ Kept

\* Mutant of Cleared: what is about to be inserted is deleted, the rest is kept.
ClearedSent(p) == user.branches \ p.branches

\* DELETE FROM user_branches WHERE user_id = ...
Cleared(p) == {}

DeleteBranches(w) ==
  LET p == patches[w] IN
  /\ p.at = "delete" /\ user' = [user EXCEPT !.branches = Cleared(p)]
  /\ patches' = Disturb(w, [patches EXCEPT ![w].at = "insert", ![w].left = p.branches])
  /\ asked' = Nothing /\ Kept

\* One INSERT per branch; a pair that is there already ends the request with an error.
InsertBranch(w) ==
  LET p == patches[w] IN
  /\ p.at = "insert"
  /\ \/ /\ p.left = {} /\ patches' = Goto(w, "done") /\ UNCHANGED user
        /\ asked' = IF p.alone THEN [role |-> p.role, branches |-> p.branches] ELSE Nothing
     \/ \E b \in p.left :
          /\ b \notin user.branches /\ user' = [user EXCEPT !.branches = @ \cup {b}]
          /\ patches' = Disturb(w, [patches EXCEPT ![w].left = @ \ {b}]) /\ UNCHANGED asked
     \/ \E b \in p.left : b \in user.branches /\ patches' = Goto(w, "refused") /\ UNCHANGED <<user, asked>>
  /\ Kept

\* Success of either button closes the editor, whatever is in it.
Settled(w) ==
  /\ patches[w].at \in {"done", "refused"}
  /\ editors' = IF patches[w].at = "done" THEN [editors EXCEPT ![w] = NoEditor] ELSE editors
  /\ patches' = [patches EXCEPT ![w] = Idle]
  /\ UNCHANGED <<contact, sent, mishaps, user, link, asked, authVars>>

\* The server dies between two statements.
PatchFails(w) ==
  /\ Working(w) /\ Mishap /\ patches' = [patches EXCEPT ![w] = Idle]
  /\ UNCHANGED <<contact, sent, user, editors, link, asked, authVars>>

\* Link Aspire Rep: resolve, then write; who asks makes no difference.
Link ==
  /\ UNCHANGED <<contact, mishaps, editors, patches, asked, authVars>>
  /\ \/ (\E w \in Windows : editors[w].open) /\ link = "idle" /\ Ask /\ link' = "sent" /\ UNCHANGED user
     \/ link = "sent" /\ link' = (IF contact THEN "found" ELSE "idle") /\ UNCHANGED <<sent, user>>
     \/ link = "found" /\ link' = "idle" /\ user' = [user EXCEPT !.rep = TRUE] /\ UNCHANGED sent

RowStep ==
  \/ ContactAppears \/ Link
  \/ \E w \in Windows :
       \/ ToggleEditor(w) \/ Save(w) \/ ToggleActive(w)
       \/ ReadRow(w) \/ ApplyRole(w) \/ ApplyActive(w) \/ DeleteBranches(w) \/ InsertBranch(w)
       \/ Settled(w) \/ PatchFails(w)

-----------------------------------------------------------------------------
(* The form that authorizes                                                  *)

Form(w, f) == forms' = [forms EXCEPT ![w] = f]

\* The directory stays open while a request is pending, and a pick clears the block.
Pick(w, p) ==
  /\ forms[w].picked # p
  /\ Form(w, [forms[w] EXCEPT !.picked = p, !.block = FALSE,
                              !.role = IF @ = Nothing THEN CHOOSE r \in OtherRoles : TRUE ELSE @])
  /\ UNCHANGED <<contact, sent, mishaps, userVars, auths, rows>>

SetRole(w, r) ==
  /\ forms[w].picked # Nobody /\ forms[w].role # r /\ Form(w, [forms[w] EXCEPT !.role = r, !.block = FALSE])
  /\ UNCHANGED <<contact, sent, mishaps, userVars, auths, rows>>

\* The button, and Link Aspire Rep beside the block, which does the same.
SubmitUser(w, branches) ==
  /\ forms[w].picked # Nobody /\ auths[w].at = "idle" /\ Ask
  /\ Form(w, [forms[w] EXCEPT !.block = FALSE])
  /\ auths' = [auths EXCEPT ![w] = [NoAuth EXCEPT !.at = "check", !.person = forms[w].picked,
                                                  !.role = forms[w].role, !.branches = branches]]
  /\ UNCHANGED <<contact, mishaps, userVars, rows>>

\* authorize_user: the checks, then one transaction for the user and its branches.  A
\* branch that is unknown to the database undoes it with a 422, the e-mail address that
\* somebody else has added meanwhile with a 409.
Unlinked(a) == a.role \in FieldSales /\ ~contact

CheckUser(w) ==
  LET a == auths[w] IN
  /\ a.at = "check"
  /\ auths' = [auths EXCEPT ![w].at =
       IF rows[a.person] # Nothing THEN "error" ELSE IF Unlinked(a) THEN "blocked" ELSE "insert",
                            ![w].rep = a.role \in FieldSales /\ contact]
  /\ UNCHANGED <<contact, sent, mishaps, userVars, forms, rows>>

\* Mutant of Undone: the user row stays when its branches are refused.
UserStays(before, after) == after

\* Leaving the transaction with an exception rolls it back.
Undone(before, after) == before

InsertUser(w) ==
  LET a == auths[w]
      made == [rows EXCEPT ![a.person] = [role |-> a.role, rep |-> a.rep, by |-> w]] IN
  /\ a.at = "insert"
  /\ \/ rows[a.person] # Nothing /\ auths' = [auths EXCEPT ![w].at = "error"] /\ UNCHANGED rows
     \/ rows[a.person] = Nothing /\ a.branches \subseteq Manageable
        /\ rows' = made /\ auths' = [auths EXCEPT ![w].at = "made"]
     \/ rows[a.person] = Nothing /\ ~(a.branches \subseteq Manageable)
        /\ rows' = Undone(rows, made) /\ auths' = [auths EXCEPT ![w].at = "blocked"]
  /\ UNCHANGED <<contact, sent, mishaps, userVars, forms>>

\* Success empties the form, a 422 shows its text beside whoever is picked by now.
AuthAnswered(w) ==
  /\ auths[w].at \in {"made", "blocked", "error"}
  /\ Form(w, CASE auths[w].at = "made" -> NoForm
               [] auths[w].at = "blocked" -> [forms[w] EXCEPT !.block = TRUE]
               [] OTHER -> forms[w])
  /\ auths' = [auths EXCEPT ![w] = NoAuth]
  /\ UNCHANGED <<contact, sent, mishaps, userVars, rows>>

AuthFails(w) ==
  /\ auths[w].at # "idle" /\ Mishap /\ auths' = [auths EXCEPT ![w] = NoAuth]
  /\ UNCHANGED <<contact, sent, userVars, forms, rows>>

AuthStep ==
  \/ ContactAppears
  \/ \E w \in Windows :
       \/ CheckUser(w) \/ InsertUser(w) \/ AuthAnswered(w) \/ AuthFails(w)
       \/ \E p \in People : Pick(w, p)
       \/ \E r \in Assignable : SetRole(w, r)
       \/ \E s \in SUBSET Branches : SubmitUser(w, s)

Next == RowStep \/ AuthStep
Spec == Init /\ [][Next]_vars

-----------------------------------------------------------------------------
(* Properties                                                                *)

\* Whatever the windows do at once, a user with a field sales role has a rep in Aspire,
\* so that opportunities can name it.
FieldSalesHaveRep ==
  /\ user.role \in FieldSales => user.rep
  /\ \A p \in People : rows[p] # Nothing => (rows[p].role \in FieldSales => rows[p].rep)

\* A user keeps the retired role until somebody chooses another one, however often its
\* branches are saved, and then never gets it back, not even from an editor opened before.
RetiredOnlyByChoice ==
  [][/\ user'.role = Retired => user.role = Retired
     /\ user.role = Retired /\ user'.role # Retired => \E w \in Windows : patches[w].at = "role" /\ patches[w].chose]_user

\* A save that no other save crossed has done all it was asked: the role and exactly the
\* branches of the editor are stored, when nobody is writing them.
SavedUserIsStored ==
  asked # Nothing /\ (\A w \in Windows : ~Working(w)) => user.branches = asked.branches /\ user.role = asked.role

\* Saving the branches of a user with a retired role is not refused.
RetiredCanBeSaved ==
  \A w \in Windows : patches[w].at = "refused" /\ patches[w].alone => patches[w].role # patches[w].current.role

\* A request that was blocked has left no user behind.
BlockedLeavesNobody ==
  \A w \in Windows : auths[w].at = "blocked" => rows[auths[w].person] = Nothing \/ rows[auths[w].person].by # w

\* Saving a user does all or, when it is blocked, nothing.
UsersAreSaved == SavedUserIsStored /\ RetiredCanBeSaved /\ BlockedLeavesNobody
===============================================================================
