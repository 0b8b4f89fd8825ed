---------------------------- MODULE Settings_proofs ----------------------------
(*****************************************************************************)
(* What holds of the settings pages for any number of windows, people,       *)
(* branches, fields, factors and requests, and with any crash.  UserAdmin:   *)
(* one inductive invariant for the row of a user, one for the form that      *)
(* authorizes.  SettingsForms: one for each of the company row, the material *)
(* factors and the production rates.  SettingsRows: one for a row and its    *)
(* form, one for its pictures, one for the insurance document.               *)
(*****************************************************************************)
EXTENDS MCSettings, Sequences, TLAPS

-----------------------------------------------------------------------------
(* The row of a user                                                         *)

Stored == Assignable \cup {Retired, Unknown}
Selectable == Assignable \cup {Retired}

UserRow == [role : Stored, active : BOOLEAN, rep : BOOLEAN, branches : SUBSET Branches]

EditorType == [open : BOOLEAN, role : Selectable \cup {Nothing}, branches : SUBSET Branches]

PatchType ==
  [at : {"idle", "read", "role", "active", "delete", "insert", "done", "refused"},
   role : Selectable \cup {Nothing}, active : BOOLEAN \cup {Nothing},
   branches : (SUBSET Branches) \cup {Nothing},
   current : [role : Stored, rep : BOOLEAN] \cup {Nothing},
   left : SUBSET Branches, alone : BOOLEAN, chose : BOOLEAN]

RowTypeOK ==
  /\ contact \in BOOLEAN /\ user \in UserRow
  /\ editors \in [Windows -> EditorType] /\ patches \in [Windows -> PatchType]

\* What a request carries: a save has a role and branches, the switch has a flag.
Carries(p) ==
  /\ p.at \in {"role", "active", "delete", "insert"} => p.current \in [role : Stored, rep : BOOLEAN]
  /\ p.at # "idle" => p.active \in BOOLEAN \/ (p.active = Nothing /\ p.role \in Selectable /\ p.branches \in SUBSET Branches)
  /\ p.at = "active" => p.active \in BOOLEAN
  /\ p.at \in {"delete", "insert"} => p.active = Nothing

\* How far a save has come that nobody has crossed.
Progress(p, u) ==
  p.alone =>
    /\ p.at = "role" => u.role = p.current.role
    /\ p.at \in {"delete", "insert"} => u.role = p.role
    /\ p.at = "insert" => u.branches = p.branches \ p.left /\ p.left \subseteq p.branches

\* Beside it nobody inserts.
Uncrossed(w) ==
  patches[w].alone /\ Working(w) /\ patches[w].at # "read" =>
    \A v \in Windows \ {w} : patches[v].at # "insert"

\* What a finished save promised stands until the next write.
PromiseStands ==
  asked # Nothing =>
    /\ user.branches = asked.branches /\ user.role = asked.role
    /\ \A w \in Windows : patches[w].at # "insert"

\* A retired role is offered as it is, and nobody can ask for it otherwise.
RetiredOffered ==
  user.role = Retired =>
    \A w \in Windows :
      /\ editors[w].open => editors[w].role = Retired
      /\ patches[w].at \in {"read", "role"} /\ ~patches[w].chose => patches[w].role \in {Nothing, Retired}

RowInv ==
  /\ RowTypeOK
  /\ \A w \in Windows : (editors[w].open => editors[w].role \in Selectable) /\ Carries(patches[w]) /\ Progress(patches[w], user) /\ Uncrossed(w)
  /\ user.role \in FieldSales => user.rep
  /\ PromiseStands /\ RetiredOffered /\ RetiredCanBeSaved

-----------------------------------------------------------------------------
(* The form that authorizes                                                  *)

FormType == [picked : People \cup {Nobody}, role : Assignable \cup {Nothing}, block : BOOLEAN]
AuthType ==
  [at : {"idle", "check", "insert", "made", "blocked", "error"}, person : People \cup {Nobody},
   role : Assignable \cup {Nothing}, branches : SUBSET Branches, rep : BOOLEAN]

AuthTypeOK ==
  /\ forms \in [Windows -> FormType] /\ auths \in [Windows -> AuthType]
  /\ rows \in [People -> [role : Assignable \cup {Nothing}, rep : BOOLEAN, by : Windows] \cup {Nothing}]

AuthInv ==
  /\ contact \in BOOLEAN /\ AuthTypeOK
  /\ \A w \in Windows :
       /\ auths[w].at # "idle" => auths[w].person \in People
       /\ auths[w].at = "insert" /\ auths[w].role \in FieldSales => auths[w].rep
  /\ \A p \in People : rows[p] # Nothing => (rows[p].role \in FieldSales => rows[p].rep)
  /\ BlockedLeavesNobody

-----------------------------------------------------------------------------
(* Proofs about the row.                                                     *)

\* What the list hands to an editor can be selected.
LEMMA EditorRole ==
  ASSUME UserAssumption, NEW role \in Stored
  PROVE  storedEditorRole(role) \in Selectable /\ (role = Retired => storedEditorRole(role) = Retired)
BY DEF storedEditorRole, UserAssumption, Stored, Selectable, Assignable

\* Sending a body that carries something keeps the invariant.
LEMMA SendInv ==
  ASSUME UserAssumption, RowInv, NEW w \in Windows, NEW body \in PatchType, Send(w, body),
         body.alone,
         body.active \in BOOLEAN \/ (body.active = Nothing /\ body.role \in Selectable /\ body.branches \in SUBSET Branches),
         user.role = Retired /\ ~body.chose => body.role \in {Nothing, Retired}
  PROVE  RowInv'
<1> DEFINE q == [body EXCEPT !.at = "read"]
<1>1. q \in PatchType /\ q.at = "read" /\ q.role = body.role /\ q.active = body.active
      /\ q.branches = body.branches /\ q.chose = body.chose
  BY DEF PatchType
<1>2. /\ patches[w].at = "idle" /\ patches' = [patches EXCEPT ![w] = q]
      /\ UNCHANGED <<contact, user, editors, asked>>
  BY DEF Send
<1> HIDE DEF q
<1>3. \A v \in Windows : patches'[v] = IF v = w THEN q ELSE patches[v]
  BY <1>2 DEF RowInv, RowTypeOK
<1>4. RowTypeOK'
  BY <1>1, <1>2 DEF RowInv, RowTypeOK
<1>5. \A v \in Windows : (editors'[v].open => editors'[v].role \in Selectable) /\ Carries(patches'[v]) /\ Progress(patches'[v], user')
  BY <1>1, <1>2, <1>3 DEF RowInv, Carries, Progress
<1>6. \A v \in Windows : Uncrossed(v)'
  BY <1>1, <1>2, <1>3 DEF RowInv, Uncrossed, Working
<1>7. (user.role \in FieldSales => user.rep)' /\ PromiseStands' /\ RetiredOffered' /\ RetiredCanBeSaved'
  BY <1>1, <1>2, <1>3 DEF RowInv, PromiseStands, RetiredOffered, RetiredCanBeSaved
<1> QED BY <1>4, <1>5, <1>6, <1>7 DEF RowInv

\* A step of one request by which neither the role nor the branches change, which opens
\* no editor and does not turn to inserting, keeps the invariant when it keeps what is
\* said of that request.
LEMMA QuietStep ==
  ASSUME RowInv, NEW w \in Windows, NEW p \in PatchType,
         patches' = [patches EXCEPT ![w] = p], UNCHANGED contact,
         user' \in UserRow, user'.role = user.role, user'.branches = user.branches, user.rep => user'.rep,
         editors' \in [Windows -> EditorType],
         \A v \in Windows : editors'[v].open => editors[v].open /\ editors'[v].role = editors[v].role,
         p.at # "insert" \/ patches[w].at = "insert",
         Carries(p), Progress(p, user),
         p.alone /\ p.at \in {"role", "active", "delete", "insert"} =>
           \A v \in Windows \ {w} : patches[v].at # "insert",
         asked' = asked \/ asked' = Nothing,
         user.role = Retired /\ p.at \in {"read", "role"} /\ ~p.chose => p.role \in {Nothing, Retired},
         p.at = "refused" /\ p.alone => p.role # p.current.role
  PROVE  RowInv'
<1>1. \A v \in Windows : patches'[v] = IF v = w THEN p ELSE patches[v]
  BY DEF RowInv, RowTypeOK
<1>2. RowTypeOK'
  BY DEF RowInv, RowTypeOK
<1>3. \A v \in Windows : (editors'[v].open => editors'[v].role \in Selectable) /\ Carries(patches'[v]) /\ Progress(patches'[v], user')
  BY <1>1 DEF RowInv, Carries, Progress
<1>4. \A v \in Windows : Uncrossed(v)'
  BY <1>1 DEF RowInv, Uncrossed, Working
<1>5. (user.role \in FieldSales => user.rep)' /\ PromiseStands' /\ RetiredOffered' /\ RetiredCanBeSaved'
  BY <1>1 DEF RowInv, PromiseStands, RetiredOffered, RetiredCanBeSaved
<1> QED BY <1>2, <1>3, <1>4, <1>5 DEF RowInv

\* Others that work lose the claim to have worked alone, nothing else.
LEMMA Disturbed ==
  ASSUME RowTypeOK, NEW w \in Windows, NEW p \in PatchType, patches' = Disturb(w, [patches EXCEPT ![w] = p])
  PROVE  /\ patches' \in [Windows -> PatchType] /\ patches'[w] = p
         /\ \A v \in Windows \ {w} :
              /\ patches'[v].at = patches[v].at /\ patches'[v].role = patches[v].role
              /\ patches'[v].branches = patches[v].branches /\ patches'[v].current = patches[v].current
              /\ patches'[v].active = patches[v].active /\ patches'[v].chose = patches[v].chose
              /\ Working(v) => ~patches'[v].alone
              /\ ~Working(v) => patches'[v] = patches[v]
<1> DEFINE q == [patches EXCEPT ![w] = p]
           cut(r) == [r EXCEPT !.alone = FALSE]
<1>1. q \in [Windows -> PatchType] /\ q[w] = p /\ \A v \in Windows \ {w} : q[v] = patches[v]
  BY DEF RowTypeOK
<1>2. patches' = [v \in Windows |-> IF v # w /\ Working(v) THEN cut(q[v]) ELSE q[v]]
  BY DEF Disturb
<1>3. \A r \in PatchType :
        /\ cut(r) \in PatchType /\ ~cut(r).alone /\ cut(r).at = r.at /\ cut(r).role = r.role
        /\ cut(r).branches = r.branches /\ cut(r).current = r.current
        /\ cut(r).active = r.active /\ cut(r).chose = r.chose
  BY DEF PatchType
<1> HIDE DEF q, cut
<1>4. patches' \in [Windows -> PatchType] /\ patches'[w] = p
  BY <1>1, <1>2, <1>3
<1>5. ASSUME NEW v \in Windows \ {w}
      PROVE  /\ patches'[v].at = patches[v].at /\ patches'[v].role = patches[v].role
             /\ patches'[v].branches = patches[v].branches /\ patches'[v].current = patches[v].current
             /\ patches'[v].active = patches[v].active /\ patches'[v].chose = patches[v].chose
             /\ Working(v) => ~patches'[v].alone
             /\ ~Working(v) => patches'[v] = patches[v]
  <2>1. patches[v] \in PatchType /\ patches'[v] = IF Working(v) THEN cut(patches[v]) ELSE patches[v]
    BY <1>1, <1>2 DEF RowTypeOK
  <2> QED BY <1>3, <2>1
<1> QED BY <1>4, <1>5, Zenon

LEMMA InitRow == ASSUME UserAssumption, Init PROVE RowInv
<1>1. Idle \in PatchType /\ NoEditor \in EditorType
  BY DEF Idle, NoEditor, PatchType, EditorType
<1>2. RowTypeOK
  BY <1>1 DEF Init, RowTypeOK, UserRow, Stored
<1>3. \A w \in Windows : patches[w] = Idle /\ editors[w] = NoEditor
  BY DEF Init
<1>4. \A w \in Windows : (editors[w].open => editors[w].role \in Selectable) /\ Carries(patches[w]) /\ Progress(patches[w], user) /\ Uncrossed(w)
  BY <1>3 DEF Idle, NoEditor, Carries, Progress, Uncrossed, Working
<1>5. PromiseStands /\ RetiredOffered /\ RetiredCanBeSaved /\ (user.role \in FieldSales => user.rep)
  BY <1>3 DEF Init, Idle, NoEditor, PromiseStands, RetiredOffered, RetiredCanBeSaved
<1> QED BY <1>2, <1>4, <1>5 DEF RowInv

\* What the row of the list and its buttons do.
LEMMA ButtonSteps ==
  ASSUME UserAssumption, RowInv, NEW w \in Windows, ToggleEditor(w) \/ Save(w) \/ ToggleActive(w)
  PROVE  RowInv'
<1>1. CASE ToggleEditor(w)
  <2> DEFINE e == IF editors[w].open THEN NoEditor
                  ELSE [open |-> TRUE, role |-> storedEditorRole(user.role), branches |-> user.branches]
  <2>1. /\ e \in EditorType /\ (e.open => e.role \in Selectable)
        /\ user.role = Retired => (e.open => e.role = Retired)
    BY EditorRole DEF NoEditor, EditorType, RowInv, RowTypeOK, UserRow
  <2>2. editors' = [editors EXCEPT ![w] = e] /\ UNCHANGED <<contact, user, patches, asked>>
    BY <1>1 DEF ToggleEditor, Editor
  <2> HIDE DEF e
  <2>3. \A v \in Windows : editors'[v] = IF v = w THEN e ELSE editors[v]
    BY <2>2 DEF RowInv, RowTypeOK
  <2>4. RowTypeOK' /\ RetiredOffered'
    BY <2>1, <2>2, <2>3 DEF RowInv, RowTypeOK, RetiredOffered
  <2>5. \A v \in Windows : (editors'[v].open => editors'[v].role \in Selectable) /\ Carries(patches'[v]) /\ Progress(patches'[v], user') /\ Uncrossed(v)'
    BY <2>1, <2>2, <2>3 DEF RowInv, Progress, Uncrossed, Working
  <2> QED BY <2>2, <2>4, <2>5 DEF RowInv, PromiseStands, RetiredCanBeSaved
<1>2. CASE Save(w)
  <2>1. PICK role \in ChosenRoles(editors[w].role), ids \in ChosenBranches(editors[w].branches) :
          editors[w].open /\ Send(w, [Idle EXCEPT !.role = role, !.branches = ids, !.chose = role # editors[w].role])
    BY <1>2 DEF Save
  <2> DEFINE body == [Idle EXCEPT !.role = role, !.branches = ids, !.chose = role # editors[w].role]
  <2>2. editors[w].role \in Selectable /\ editors[w].branches \in SUBSET Branches
        /\ (user.role = Retired => editors[w].role = Retired)
    BY <2>1 DEF RowInv, RowTypeOK, EditorType, RetiredOffered
  <2>3. role \in Selectable /\ ids \in SUBSET Branches
    BY <2>2 DEF ChosenRoles, ChosenBranches, Selectable, UserAssumption
  <2>4. /\ body \in PatchType /\ body.alone /\ body.active = Nothing /\ body.role = role
        /\ body.branches = ids /\ (body.chose <=> role # editors[w].role)
    BY <2>3 DEF Idle, PatchType
  <2> HIDE DEF body
  <2> QED BY <2>1, <2>2, <2>3, <2>4, SendInv DEF body
<1>3. CASE ToggleActive(w)
  <2>1. PICK a \in BOOLEAN : Send(w, [Idle EXCEPT !.active = a])
    BY <1>3 DEF ToggleActive
  <2> DEFINE body == [Idle EXCEPT !.active = a]
  <2>2. body \in PatchType /\ body.alone /\ body.active \in BOOLEAN /\ body.role = Nothing
    BY DEF Idle, PatchType
  <2> HIDE DEF body
  <2> QED BY <2>1, <2>2, SendInv DEF body
<1> QED BY <1>1, <1>2, <1>3

\* The handler reads the row, and skips, refuses or writes the role.
LEMMA ReadStep ==
  ASSUME UserAssumption, RowInv, NEW w \in Windows, ReadRow(w)
  PROVE  RowInv'
<1> DEFINE p == [patches[w] EXCEPT !.at = "role", !.current = [role |-> user.role, rep |-> user.rep],
                                   !.alone = \A v \in Windows \ {w} : ~Working(v)]
<1>1. /\ patches[w] \in PatchType /\ patches[w].at = "read" /\ patches' = [patches EXCEPT ![w] = p]
      /\ UNCHANGED <<contact, user, editors, asked>>
  BY DEF ReadRow, Kept, RowInv, RowTypeOK
<1>2. (\A v \in Windows \ {w} : ~Working(v)) \in BOOLEAN
  OBVIOUS
<1>3. /\ p \in PatchType /\ p.at = "role" /\ p.current = [role |-> user.role, rep |-> user.rep]
      /\ p.role = patches[w].role /\ p.active = patches[w].active /\ p.branches = patches[w].branches
      /\ p.chose = patches[w].chose /\ p.alone = \A v \in Windows \ {w} : ~Working(v)
  BY <1>1, <1>2 DEF PatchType, RowInv, RowTypeOK, UserRow
<1> HIDE DEF p
<1>4. p.alone => \A v \in Windows \ {w} : patches[v].at # "insert"
  BY <1>3 DEF Working
<1>5. Carries(p) /\ Progress(p, user)
  BY <1>1, <1>3 DEF Carries, Progress, RowInv, RowTypeOK, UserRow
<1>6. user.role = Retired /\ ~p.chose => p.role \in {Nothing, Retired}
  BY <1>1, <1>3 DEF RowInv, RetiredOffered
<1>7. user \in UserRow /\ editors \in [Windows -> EditorType]
  BY DEF RowInv, RowTypeOK
<1> QED BY <1>1, <1>3, <1>4, <1>5, <1>6, <1>7, QuietStep

\* A write of role or branches keeps the invariant when the writer is right about what
\* it has done, and the others no longer claim to work alone.
LEMMA WriteStep ==
  ASSUME RowInv, NEW w \in Windows, NEW p \in PatchType,
         patches' = Disturb(w, [patches EXCEPT ![w] = p]), UNCHANGED <<contact, editors>>,
         user' \in UserRow, user'.role \in FieldSales => user'.rep, user'.role = Retired => user.role = Retired,
         p.at \in {"active", "delete", "insert"}, Carries(p), Progress(p, user'),
         p.alone => \A v \in Windows \ {w} : patches[v].at # "insert",
         asked' = Nothing
  PROVE  RowInv'
<1>1. RowTypeOK
  BY DEF RowInv
<1>2. /\ patches' \in [Windows -> PatchType] /\ patches'[w] = p
      /\ \A v \in Windows \ {w} :
           /\ patches'[v].at = patches[v].at /\ patches'[v].role = patches[v].role
           /\ patches'[v].branches = patches[v].branches /\ patches'[v].current = patches[v].current
           /\ patches'[v].active = patches[v].active /\ patches'[v].chose = patches[v].chose
           /\ Working(v) => ~patches'[v].alone
           /\ ~Working(v) => patches'[v] = patches[v]
  BY <1>1, Disturbed
<1>3. \A v \in Windows \ {w} : patches'[v].at = patches[v].at
  BY <1>2, Zenon
<1>4. RowTypeOK'
  BY <1>2 DEF RowInv, RowTypeOK
<1>5. ASSUME NEW v \in Windows
      PROVE  (editors'[v].open => editors'[v].role \in Selectable) /\ Carries(patches'[v])
             /\ Progress(patches'[v], user') /\ Uncrossed(v)'
  <2>1. CASE v = w
    <3>1. patches'[v] = p
      BY <1>2, <2>1, Zenon
    <3>2. editors'[v].open => editors'[v].role \in Selectable
      BY DEF RowInv
    <3>3. Uncrossed(v)'
      BY <1>3, <2>1, <3>1 DEF Uncrossed
    <3> QED BY <3>1, <3>2, <3>3
  <2>2. CASE v # w
    <3>1. /\ patches'[v].at = patches[v].at /\ patches'[v].role = patches[v].role
          /\ patches'[v].branches = patches[v].branches /\ patches'[v].current = patches[v].current
          /\ patches'[v].active = patches[v].active
      BY <1>2, <2>2, Zenon
    <3>2. Working(v) => ~patches'[v].alone
      BY <1>2, <2>2, Zenon
    <3>3. editors'[v].open => editors'[v].role \in Selectable
      BY DEF RowInv
    <3>4. Carries(patches'[v])
      BY <3>1 DEF RowInv, Carries
    <3>5. Progress(patches'[v], user')
      BY <3>1, <3>2 DEF Progress, Working
    <3>6. Uncrossed(v)'
      BY <3>1, <3>2 DEF Uncrossed, Working
    <3> QED BY <3>3, <3>4, <3>5, <3>6
  <2> QED BY <2>1, <2>2
<1>6. PromiseStands' /\ RetiredOffered'
  <2>1. \A v \in Windows : editors'[v].open /\ user'.role = Retired => editors'[v].role = Retired
    BY DEF RowInv, RetiredOffered
  <2>2. \A v \in Windows : user'.role = Retired /\ patches'[v].at \in {"read", "role"} /\ ~patches'[v].chose
                            => patches'[v].role \in {Nothing, Retired}
    BY <1>2 DEF RowInv, RetiredOffered
  <2> QED BY <2>1, <2>2 DEF PromiseStands, RetiredOffered
<1>7. ASSUME NEW v \in Windows, patches'[v].at = "refused", patches'[v].alone
      PROVE  patches'[v].role # patches'[v].current.role
  <2>1. v # w
    BY <1>2, <1>7
  <2>2. patches'[v] = patches[v]
    BY <1>2, <1>3, <1>7, <2>1 DEF Working
  <2> QED BY <1>7, <2>2 DEF RowInv, RetiredCanBeSaved
<1>8. RetiredCanBeSaved'
  BY <1>7 DEF RetiredCanBeSaved
<1> QED BY <1>4, <1>5, <1>6, <1>8 DEF RowInv

\* The role is skipped, refused, or written together with the rep it needs.
LEMMA RoleStep ==
  ASSUME UserAssumption, RowInv, NEW w \in Windows, ApplyRole(w)
  PROVE  RowInv'
<1> DEFINE p == patches[w]
           step == IF p.active # Nothing THEN "active" ELSE "delete"
           next == [p EXCEPT !.at = step]
           refused == [p EXCEPT !.at = "refused"]
<1>1. /\ p \in PatchType /\ p.at = "role" /\ UNCHANGED <<contact, editors>>
      /\ p.current \in [role : Stored, rep : BOOLEAN] /\ Carries(p) /\ Progress(p, user) /\ Uncrossed(w)
      /\ user \in UserRow /\ editors \in [Windows -> EditorType]
  BY DEF ApplyRole, Kept, RowInv, RowTypeOK, Carries
<1>2. Onward(w) = [patches EXCEPT ![w] = next] /\ Goto(w, "refused") = [patches EXCEPT ![w] = refused]
  BY DEF Onward, Goto
<1>3. /\ next \in PatchType /\ next.at = step /\ next.alone = p.alone /\ next.role = p.role
      /\ next.active = p.active /\ next.branches = p.branches /\ next.current = p.current
  BY <1>1 DEF PatchType
<1>4. /\ refused \in PatchType /\ refused.at = "refused" /\ refused.alone = p.alone /\ refused.role = p.role
      /\ refused.active = p.active /\ refused.branches = p.branches /\ refused.current = p.current
  BY <1>1 DEF PatchType
<1>5. p.alone => \A v \in Windows \ {w} : patches[v].at # "insert"
  BY <1>1 DEF Uncrossed, Working
<1>6. Carries(next) /\ Carries(refused) /\ Progress(refused, user)
  BY <1>1, <1>3, <1>4 DEF Carries, Progress
<1>7. (next.at = "delete" => p.role \in Selectable) /\ next.at \in {"active", "delete"}
  BY <1>1, <1>3 DEF Carries, UserAssumption
<1> HIDE DEF next, refused, step
<1>8. CASE SkipsRole(p) /\ patches' = Onward(w) /\ UNCHANGED <<user, asked>>
  <2>1. Progress(next, user)
    BY <1>1, <1>3, <1>7, <1>8 DEF Progress, SkipsRole, UserAssumption, Selectable
  <2> QED BY <1>1, <1>2, <1>3, <1>5, <1>6, <1>7, <1>8, <2>1, QuietStep
<1>9. CASE ~SkipsRole(p) /\ patches' = Goto(w, "refused") /\ UNCHANGED <<user, asked>>
  <2>1. p.role # p.current.role
    BY <1>9 DEF SkipsRole
  <2> QED BY <1>1, <1>2, <1>4, <1>5, <1>6, <1>9, <2>1, QuietStep
<1>10. CASE /\ RoleAllowed(p) /\ patches' = Disturb(w, Onward(w)) /\ asked' = Nothing
            /\ user' = [user EXCEPT !.role = p.role, !.rep = p.current.rep \/ (p.role \in FieldSales /\ contact)]
  <2>1. p.role \in Assignable /\ contact \in BOOLEAN /\ (p.role \in FieldSales => p.current.rep \/ contact)
    BY <1>10 DEF RoleAllowed, RowInv, RowTypeOK
  <2>2. (p.current.rep \/ (p.role \in FieldSales /\ contact)) \in BOOLEAN
    OBVIOUS
  <2>3. /\ user' \in UserRow /\ user'.role = p.role
        /\ user'.rep = (p.current.rep \/ (p.role \in FieldSales /\ contact))
    BY <1>1, <1>10, <2>1, <2>2 DEF UserRow, Stored
  <2>4. (user'.role \in FieldSales => user'.rep) /\ user'.role # Retired
    BY <2>1, <2>3 DEF UserAssumption
  <2>5. Progress(next, user')
    BY <1>3, <1>7, <2>3 DEF Progress
  <2> QED BY <1>1, <1>2, <1>3, <1>5, <1>6, <1>7, <1>10, <2>3, <2>4, <2>5, WriteStep
<1> QED BY <1>8, <1>9, <1>10 DEF ApplyRole

\* The switch writes the flag; a save deletes the branches before it inserts its own.
LEMMA FlagAndDelete ==
  ASSUME UserAssumption, RowInv, NEW w \in Windows, ApplyActive(w) \/ DeleteBranches(w)
  PROVE  RowInv'
<1>1. CASE ApplyActive(w)
  <2> DEFINE p == [patches[w] EXCEPT !.at = "done"]
  <2>1. /\ patches[w] \in PatchType /\ patches[w].at = "active" /\ Carries(patches[w]) /\ user \in UserRow
        /\ patches' = [patches EXCEPT ![w] = p] /\ UNCHANGED <<contact, editors, asked>>
        /\ user' = [user EXCEPT !.active = patches[w].active] /\ editors \in [Windows -> EditorType]
    BY <1>1 DEF ApplyActive, Goto, Kept, RowInv, RowTypeOK
  <2>2. p \in PatchType /\ p.at = "done" /\ p.active = patches[w].active /\ p.role = patches[w].role
        /\ p.branches = patches[w].branches
    BY <2>1 DEF PatchType
  <2>3. patches[w].active \in BOOLEAN
    BY <2>1 DEF Carries
  <2>4. user' \in UserRow /\ user'.role = user.role /\ user'.branches = user.branches /\ user'.rep = user.rep
    BY <2>1, <2>3 DEF UserRow
  <2>5. Carries(p) /\ Progress(p, user)
    BY <2>1, <2>2 DEF Carries, Progress
  <2> HIDE DEF p
  <2> QED BY <2>1, <2>2, <2>4, <2>5, QuietStep
<1>2. CASE DeleteBranches(w)
  <2> DEFINE p == [patches[w] EXCEPT !.at = "insert", !.left = patches[w].branches]
  <2>1. /\ patches[w] \in PatchType /\ patches[w].at = "delete" /\ user \in UserRow
        /\ Carries(patches[w]) /\ Progress(patches[w], user) /\ Uncrossed(w)
        /\ user.role \in FieldSales => user.rep
    BY <1>2 DEF DeleteBranches, RowInv, RowTypeOK
  <2>2. /\ patches' = Disturb(w, [patches EXCEPT ![w] = p]) /\ UNCHANGED <<contact, editors>> /\ asked' = Nothing
        /\ user' = [user EXCEPT !.branches = {}]
    BY <1>2 DEF DeleteBranches, Cleared, Kept
  <2>3. patches[w].active = Nothing /\ patches[w].role \in Selectable /\ patches[w].branches \in SUBSET Branches
    BY <2>1 DEF Carries, UserAssumption
  <2>4. /\ p \in PatchType /\ p.at = "insert" /\ p.left = patches[w].branches /\ p.branches = patches[w].branches
        /\ p.role = patches[w].role /\ p.active = patches[w].active /\ p.alone = patches[w].alone
        /\ p.current = patches[w].current
    BY <2>1, <2>3 DEF PatchType
  <2> HIDE DEF p
  <2>5. user' \in UserRow /\ user'.branches = {} /\ user'.role = user.role /\ user'.rep = user.rep
    BY <2>1, <2>2 DEF UserRow
  <2>6. Carries(p) /\ Progress(p, user')
    BY <2>1, <2>3, <2>4, <2>5 DEF Carries, Progress
  <2>7. p.alone => \A v \in Windows \ {w} : patches[v].at # "insert"
    BY <2>1, <2>4 DEF Uncrossed, Working
  <2> QED BY <2>1, <2>2, <2>4, <2>5, <2>6, <2>7, WriteStep
<1> QED BY <1>1, <1>2

\* Branches are inserted one by one, until all are there or one was there already.
LEMMA InsertStep ==
  ASSUME UserAssumption, RowInv, NEW w \in Windows, InsertBranch(w)
  PROVE  RowInv'
<1> DEFINE p == patches[w]
           done == [p EXCEPT !.at = "done"]
           refused == [p EXCEPT !.at = "refused"]
<1>1. /\ p \in PatchType /\ p.at = "insert" /\ Carries(p) /\ Progress(p, user) /\ Uncrossed(w)
      /\ user \in UserRow /\ editors \in [Windows -> EditorType] /\ UNCHANGED <<contact, editors>>
      /\ (user.role \in FieldSales => user.rep)
  BY DEF InsertBranch, Kept, RowInv, RowTypeOK
<1>2. p.active = Nothing /\ p.role \in Selectable /\ p.branches \in SUBSET Branches /\ asked = Nothing
  BY <1>1 DEF Carries, UserAssumption, RowInv, PromiseStands
<1>3. p.alone => \A v \in Windows \ {w} : patches[v].at # "insert"
  BY <1>1 DEF Uncrossed, Working
<1>4. CASE p.left = {} /\ patches' = Goto(w, "done") /\ UNCHANGED user
           /\ asked' = IF p.alone THEN [role |-> p.role, branches |-> p.branches] ELSE Nothing
  <2>1. /\ done \in PatchType /\ done.at = "done" /\ done.active = p.active /\ done.role = p.role
        /\ done.branches = p.branches
    BY <1>1 DEF PatchType
  <2>2. patches' = [patches EXCEPT ![w] = done]
    BY <1>4 DEF Goto
  <2> HIDE DEF done
  <2>3. \A v \in Windows : patches'[v] = IF v = w THEN done ELSE patches[v]
    BY <2>2 DEF RowInv, RowTypeOK
  <2>4. RowTypeOK'
    BY <1>1, <1>4, <2>1, <2>2 DEF RowInv, RowTypeOK
  <2>5. \A v \in Windows : (editors'[v].open => editors'[v].role \in Selectable) /\ Carries(patches'[v])
                           /\ Progress(patches'[v], user') /\ Uncrossed(v)'
    BY <1>1, <1>2, <1>4, <2>1, <2>3 DEF RowInv, Carries, Progress, Uncrossed, Working
  <2>6. PromiseStands'
    BY <1>1, <1>3, <1>4, <2>1, <2>3 DEF PromiseStands, Progress
  <2>7. (user.role \in FieldSales => user.rep)' /\ RetiredOffered' /\ RetiredCanBeSaved'
    BY <1>1, <1>4, <2>1, <2>3 DEF RowInv, RetiredOffered, RetiredCanBeSaved
  <2> QED BY <2>4, <2>5, <2>6, <2>7 DEF RowInv
<1>5. ASSUME NEW b \in p.left, b \notin user.branches, user' = [user EXCEPT !.branches = @ \cup {b}],
             patches' = Disturb(w, [patches EXCEPT ![w].left = @ \ {b}]), UNCHANGED asked
      PROVE  RowInv'
  <2> DEFINE more == [p EXCEPT !.left = @ \ {b}]
  <2>1. patches' = Disturb(w, [patches EXCEPT ![w] = more]) /\ asked' = Nothing
    BY <1>2, <1>5
  <2>2. /\ more \in PatchType /\ more.at = "insert" /\ more.left = p.left \ {b} /\ more.branches = p.branches
        /\ more.role = p.role /\ more.active = p.active /\ more.alone = p.alone /\ more.current = p.current
    BY <1>1 DEF PatchType
  <2> HIDE DEF more
  <2>3. b \in Branches
    BY <1>1 DEF PatchType
  <2>4. /\ user' \in UserRow /\ user'.branches = user.branches \cup {b} /\ user'.role = user.role
        /\ user'.rep = user.rep
    BY <1>1, <1>5, <2>3 DEF UserRow
  <2>5. Carries(more) /\ Progress(more, user')
    BY <1>1, <1>2, <2>2, <2>4 DEF Carries, Progress
  <2> HIDE DEF p
  <2>6. (user'.role \in FieldSales => user'.rep) /\ (user'.role = Retired => user.role = Retired)
        /\ (more.alone => \A v \in Windows \ {w} : patches[v].at # "insert")
    BY <1>1, <1>3, <2>2, <2>4
  <2> QED BY <1>1, <2>1, <2>2, <2>4, <2>5, <2>6, WriteStep
<1>6. CASE (\E b \in p.left : b \in user.branches) /\ patches' = Goto(w, "refused") /\ UNCHANGED <<user, asked>>
  <2>1. /\ refused \in PatchType /\ refused.at = "refused" /\ refused.active = p.active /\ refused.role = p.role
        /\ refused.branches = p.branches /\ refused.alone = p.alone /\ refused.left = p.left
    BY <1>1 DEF PatchType
  <2>2. patches' = [patches EXCEPT ![w] = refused]
    BY <1>6 DEF Goto
  <2>3. ~refused.alone
    BY <1>1, <1>6, <2>1 DEF Progress
  <2>4. Carries(refused) /\ Progress(refused, user)
    BY <1>2, <2>1, <2>3 DEF Carries, Progress
  <2> HIDE DEF refused, p
  <2> QED BY <1>1, <1>6, <2>1, <2>2, <2>3, <2>4, QuietStep
<1> QED BY <1>4, <1>5, <1>6 DEF InsertBranch

\* The answer arrives, or the server dies.
LEMMA EndStep ==
  ASSUME UserAssumption, RowInv, NEW w \in Windows, Settled(w) \/ PatchFails(w)
  PROVE  RowInv'
<1>1. /\ patches' = [patches EXCEPT ![w] = Idle] /\ UNCHANGED <<contact, user, asked>>
      /\ editors' \in {editors, [editors EXCEPT ![w] = NoEditor]}
      /\ user \in UserRow /\ editors \in [Windows -> EditorType]
  BY DEF Settled, PatchFails, RowInv, RowTypeOK
<1>2. NoEditor \in EditorType /\ ~NoEditor.open
  BY DEF NoEditor, EditorType
<1>3. /\ editors' \in [Windows -> EditorType]
      /\ \A v \in Windows : editors'[v].open => editors[v].open /\ editors'[v].role = editors[v].role
  BY <1>1, <1>2
<1>4. Idle \in PatchType /\ Idle.at = "idle"
  BY DEF Idle, PatchType
<1>5. Carries(Idle) /\ Progress(Idle, user)
  BY <1>4 DEF Carries, Progress
<1> HIDE DEF Idle
<1> QED BY <1>1, <1>3, <1>4, <1>5, QuietStep

\* Aspire gets the contact, and the link is asked for, found and written.
LEMMA LinkStep ==
  ASSUME RowInv, ContactAppears \/ Link
  PROVE  RowInv'
<1>1. /\ UNCHANGED <<editors, patches, asked>> /\ user \in UserRow /\ contact \in BOOLEAN
      /\ contact' \in BOOLEAN /\ (UNCHANGED user \/ user' = [user EXCEPT !.rep = TRUE])
  BY DEF ContactAppears, Link, userVars, RowInv, RowTypeOK
<1>2. /\ user' \in UserRow /\ user'.role = user.role /\ user'.branches = user.branches /\ (user.rep => user'.rep)
  BY <1>1 DEF UserRow
<1>3. RowTypeOK'
  BY <1>1, <1>2 DEF RowInv, RowTypeOK
<1>4. ASSUME NEW v \in Windows
      PROVE  (editors'[v].open => editors'[v].role \in Selectable) /\ Carries(patches'[v])
             /\ Progress(patches'[v], user') /\ Uncrossed(v)'
  BY <1>1, <1>2 DEF RowInv, Progress, Uncrossed, Working
<1>5. (user.role \in FieldSales => user.rep)' /\ PromiseStands' /\ RetiredOffered' /\ RetiredCanBeSaved'
  BY <1>1, <1>2 DEF RowInv, PromiseStands, RetiredOffered, RetiredCanBeSaved
<1> QED BY <1>3, <1>4, <1>5 DEF RowInv

\* A step that leaves the row, its editors and its requests alone.
LEMMA RowUntouched == ASSUME RowInv, UNCHANGED <<contact, user, editors, patches, asked>> PROVE RowInv'
<1>1. RowTypeOK'
  BY DEF RowInv, RowTypeOK
<1>2. ASSUME NEW v \in Windows
      PROVE  (editors'[v].open => editors'[v].role \in Selectable) /\ Carries(patches'[v])
             /\ Progress(patches'[v], user') /\ Uncrossed(v)'
  BY DEF RowInv, Uncrossed, Working
<1>3. (user.role \in FieldSales => user.rep)' /\ PromiseStands' /\ RetiredOffered' /\ RetiredCanBeSaved'
  BY DEF RowInv, PromiseStands, RetiredOffered, RetiredCanBeSaved
<1> QED BY <1>1, <1>2, <1>3 DEF RowInv

LEMMA RowInvariant == ASSUME UserAssumption, RowInv, [Next]_vars PROVE RowInv'
<1>1. CASE AuthStep
  <2>1. CASE ContactAppears BY <2>1, LinkStep
  <2>2. CASE UNCHANGED <<contact, user, editors, patches, asked>> BY <2>2, RowUntouched
  <2> QED BY <1>1, <2>1, <2>2 DEF AuthStep, CheckUser, InsertUser, AuthAnswered, AuthFails, Pick, SetRole,
                                  SubmitUser, userVars
<1>2. CASE UNCHANGED vars
  BY <1>2, RowUntouched DEF vars, userVars
<1>3. CASE RowStep
  BY <1>3, ButtonSteps, ReadStep, RoleStep, FlagAndDelete, InsertStep, EndStep, LinkStep DEF RowStep
<1> QED BY <1>1, <1>2, <1>3 DEF Next

-----------------------------------------------------------------------------
(* Proofs about the form.                                                    *)

LEMMA InitAuth == ASSUME UserAssumption, Init PROVE AuthInv
<1>1. NoForm \in FormType /\ NoAuth \in AuthType /\ NoAuth.at = "idle"
  BY DEF NoForm, NoAuth, FormType, AuthType
<1>2. /\ forms = [w \in Windows |-> NoForm] /\ auths = [w \in Windows |-> NoAuth]
      /\ rows = [p \in People |-> Nothing] /\ contact = FALSE
  BY DEF Init
<1> HIDE DEF NoForm, NoAuth
<1> QED BY <1>1, <1>2 DEF AuthInv, AuthTypeOK, BlockedLeavesNobody

\* A step of one window's request keeps the invariant when it keeps what is said of it.
LEMMA AuthMoves ==
  ASSUME AuthInv, NEW w \in Windows, NEW f \in FormType, NEW a \in AuthType,
         forms' = [forms EXCEPT ![w] = f], auths' = [auths EXCEPT ![w] = a], UNCHANGED <<contact, rows>>,
         a.at # "idle" => a.person \in People,
         a.at = "insert" /\ a.role \in FieldSales => a.rep,
         a.at = "blocked" => rows[a.person] = Nothing \/ rows[a.person].by # w
  PROVE  AuthInv'
<1>1. \A v \in Windows : auths'[v] = IF v = w THEN a ELSE auths[v]
  BY DEF AuthInv, AuthTypeOK
<1>2. AuthTypeOK'
  BY DEF AuthInv, AuthTypeOK
<1> QED BY <1>1, <1>2 DEF AuthInv, BlockedLeavesNobody

\* What the administrator does in the form.
LEMMA FormSteps ==
  ASSUME UserAssumption, AuthInv, NEW w \in Windows,
         \/ \E p \in People : Pick(w, p)
         \/ \E r \in Assignable : SetRole(w, r)
         \/ \E s \in SUBSET Branches : SubmitUser(w, s)
  PROVE  AuthInv'
<1>1. /\ forms[w] \in FormType /\ auths[w] \in AuthType
      /\ forms \in [Windows -> FormType] /\ auths \in [Windows -> AuthType]
  BY DEF AuthInv, AuthTypeOK
<1>2. auths = [auths EXCEPT ![w] = auths[w]]
  BY <1>1
<1>3. /\ auths[w].at # "idle" => auths[w].person \in People
      /\ auths[w].at = "insert" /\ auths[w].role \in FieldSales => auths[w].rep
      /\ auths[w].at = "blocked" => rows[auths[w].person] = Nothing \/ rows[auths[w].person].by # w
  BY DEF AuthInv, BlockedLeavesNobody
<1>4. CASE \E p \in People : Pick(w, p)
  <2>1. PICK p \in People : Pick(w, p)
    BY <1>4
  <2> DEFINE f == [forms[w] EXCEPT !.picked = p, !.block = FALSE,
                                   !.role = IF @ = Nothing THEN CHOOSE r \in OtherRoles : TRUE ELSE @]
  <2>2. (CHOOSE r \in OtherRoles : TRUE) \in Assignable
    BY DEF UserAssumption, Assignable
  <2>3. f \in FormType
    BY <1>1, <2>2 DEF FormType
  <2>4. forms' = [forms EXCEPT ![w] = f] /\ auths' = [auths EXCEPT ![w] = auths[w]] /\ UNCHANGED <<contact, rows>>
    BY <1>2, <2>1 DEF Pick, Form
  <2> HIDE DEF f
  <2> QED BY <1>1, <1>3, <2>3, <2>4, AuthMoves
<1>5. CASE \E r \in Assignable : SetRole(w, r)
  <2>1. PICK r \in Assignable : SetRole(w, r)
    BY <1>5
  <2> DEFINE f == [forms[w] EXCEPT !.role = r, !.block = FALSE]
  <2>2. f \in FormType
    BY <1>1 DEF FormType
  <2>3. forms' = [forms EXCEPT ![w] = f] /\ auths' = [auths EXCEPT ![w] = auths[w]] /\ UNCHANGED <<contact, rows>>
    BY <1>2, <2>1 DEF SetRole, Form
  <2> HIDE DEF f
  <2> QED BY <1>1, <1>3, <2>2, <2>3, AuthMoves
<1>6. CASE \E s \in SUBSET Branches : SubmitUser(w, s)
  <2>1. PICK s \in SUBSET Branches : SubmitUser(w, s)
    BY <1>6
  <2> DEFINE f == [forms[w] EXCEPT !.block = FALSE]
             a == [NoAuth EXCEPT !.at = "check", !.person = forms[w].picked, !.role = forms[w].role, !.branches = s]
  <2>2. f \in FormType
    BY <1>1 DEF FormType
  <2>3. forms[w].picked \in People
    BY <1>1, <2>1 DEF SubmitUser, FormType
  <2>4. a \in AuthType /\ a.at = "check" /\ a.person \in People
    BY <1>1, <2>3 DEF NoAuth, AuthType, FormType
  <2>5. forms' = [forms EXCEPT ![w] = f] /\ auths' = [auths EXCEPT ![w] = a] /\ UNCHANGED <<contact, rows>>
    BY <2>1 DEF SubmitUser, Form
  <2> HIDE DEF f, a
  <2> QED BY <1>1, <2>2, <2>4, <2>5, AuthMoves
<1> QED BY <1>4, <1>5, <1>6

\* The checks of the handler, its answer and its failure.
LEMMA HandlerSteps ==
  ASSUME UserAssumption, AuthInv, NEW w \in Windows, CheckUser(w) \/ AuthAnswered(w) \/ AuthFails(w)
  PROVE  AuthInv'
<1>1. /\ forms[w] \in FormType /\ auths[w] \in AuthType /\ contact \in BOOLEAN
      /\ forms \in [Windows -> FormType] /\ auths \in [Windows -> AuthType]
      /\ auths[w].at # "idle" => auths[w].person \in People
  BY DEF AuthInv, AuthTypeOK
<1>2. forms = [forms EXCEPT ![w] = forms[w]]
  BY <1>1
<1>3. NoForm \in FormType /\ NoAuth \in AuthType /\ NoAuth.at = "idle"
  BY DEF NoForm, NoAuth, FormType, AuthType
<1>4. CASE CheckUser(w)
  <2> DEFINE verdict == IF rows[auths[w].person] # Nothing THEN "error"
                        ELSE IF Unlinked(auths[w]) THEN "blocked" ELSE "insert"
             a == [auths[w] EXCEPT !.at = verdict, !.rep = auths[w].role \in FieldSales /\ contact]
  <2>1. (auths[w].role \in FieldSales /\ contact) \in BOOLEAN
    OBVIOUS
  <2>2. /\ a \in AuthType /\ a.at = verdict /\ a.person = auths[w].person /\ a.role = auths[w].role
        /\ a.rep = (auths[w].role \in FieldSales /\ contact)
    BY <1>1, <2>1 DEF AuthType
  <2>3. auths' = [auths EXCEPT ![w] = a] /\ UNCHANGED <<contact, rows, forms>> /\ auths[w].at = "check"
    BY <1>4 DEF CheckUser
  <2> HIDE DEF a
  <2>4. /\ a.person \in People
        /\ a.at = "insert" /\ a.role \in FieldSales => a.rep
        /\ a.at = "blocked" => rows[a.person] = Nothing
    BY <1>1, <2>2, <2>3 DEF Unlinked
  <2> QED BY <1>1, <1>2, <2>2, <2>3, <2>4, AuthMoves
<1>5. CASE AuthAnswered(w)
  <2> DEFINE f == CASE auths[w].at = "made" -> NoForm
                    [] auths[w].at = "blocked" -> [forms[w] EXCEPT !.block = TRUE]
                    [] OTHER -> forms[w]
  <2>1. f \in FormType
    BY <1>1, <1>3 DEF FormType
  <2>2. forms' = [forms EXCEPT ![w] = f] /\ auths' = [auths EXCEPT ![w] = NoAuth] /\ UNCHANGED <<contact, rows>>
    BY <1>5 DEF AuthAnswered, Form
  <2> HIDE DEF f, NoAuth
  <2> QED BY <1>3, <2>1, <2>2, AuthMoves
<1>6. CASE AuthFails(w)
  <2>1. auths' = [auths EXCEPT ![w] = NoAuth] /\ forms' = [forms EXCEPT ![w] = forms[w]] /\ UNCHANGED <<contact, rows>>
    BY <1>2, <1>6 DEF AuthFails
  <2> HIDE DEF NoAuth
  <2> QED BY <1>1, <1>3, <2>1, AuthMoves
<1> QED BY <1>4, <1>5, <1>6

\* The one transaction, which makes the user or is undone.
LEMMA TransactionStep ==
  ASSUME UserAssumption, AuthInv, NEW w \in Windows, InsertUser(w)
  PROVE  AuthInv'
<1> DEFINE a == auths[w]
<1>1. /\ a \in AuthType /\ a.at = "insert" /\ a.person \in People /\ (a.role \in FieldSales => a.rep)
      /\ UNCHANGED <<contact, forms>>
      /\ forms \in [Windows -> FormType] /\ auths \in [Windows -> AuthType] /\ forms[w] \in FormType
      /\ rows \in [People -> [role : Assignable \cup {Nothing}, rep : BOOLEAN, by : Windows] \cup {Nothing}]
  BY DEF InsertUser, AuthInv, AuthTypeOK
<1>2. forms = [forms EXCEPT ![w] = forms[w]]
  BY <1>1
<1>3. CASE rows[a.person] # Nothing /\ auths' = [auths EXCEPT ![w].at = "error"] /\ UNCHANGED rows
  <2> DEFINE c == [a EXCEPT !.at = "error"]
  <2>1. c \in AuthType /\ c.at = "error" /\ c.person = a.person
    BY <1>1 DEF AuthType
  <2>2. auths' = [auths EXCEPT ![w] = c] /\ forms' = [forms EXCEPT ![w] = forms[w]] /\ UNCHANGED <<contact, rows>>
    BY <1>1, <1>2, <1>3
  <2> HIDE DEF c
  <2>3. /\ forms[w] \in FormType /\ c.person \in People /\ c.at # "idle" /\ c.at # "insert"
        /\ c.at = "blocked" => rows[c.person] = Nothing
    BY <1>1, <1>3, <2>1
  <2> QED BY <2>1, <2>2, <2>3, AuthMoves
<1>4. CASE rows[a.person] = Nothing /\ auths' = [auths EXCEPT ![w].at = "blocked"] /\ UNCHANGED rows
  <2> DEFINE c == [a EXCEPT !.at = "blocked"]
  <2>1. c \in AuthType /\ c.at = "blocked" /\ c.person = a.person
    BY <1>1 DEF AuthType
  <2>2. auths' = [auths EXCEPT ![w] = c] /\ forms' = [forms EXCEPT ![w] = forms[w]] /\ UNCHANGED <<contact, rows>>
    BY <1>1, <1>2, <1>4
  <2> HIDE DEF c
  <2>3. /\ forms[w] \in FormType /\ c.person \in People /\ c.at # "idle" /\ c.at # "insert"
        /\ c.at = "blocked" => rows[c.person] = Nothing
    BY <1>1, <1>4, <2>1
  <2> QED BY <2>1, <2>2, <2>3, AuthMoves
<1>5. CASE /\ rows[a.person] = Nothing /\ auths' = [auths EXCEPT ![w].at = "made"]
           /\ rows' = [rows EXCEPT ![a.person] = [role |-> a.role, rep |-> a.rep, by |-> w]]
  <2> DEFINE added == [role |-> a.role, rep |-> a.rep, by |-> w]
             c == [a EXCEPT !.at = "made"]
  <2>0. c \in AuthType /\ c.at = "made" /\ c.person = a.person
    BY <1>1 DEF AuthType
  <2>1. added \in [role : Assignable \cup {Nothing}, rep : BOOLEAN, by : Windows] /\ added.rep = a.rep /\ added.role = a.role
        /\ added.by = w
    BY <1>1 DEF AuthType
  <2>2. auths' = [auths EXCEPT ![w] = c] /\ rows' = [rows EXCEPT ![a.person] = added]
    BY <1>5
  <2> HIDE DEF a, c, added
  <2>3. \A v \in Windows : auths'[v] = IF v = w THEN c ELSE auths[v]
    BY <1>1, <2>2
  <2>4. \A p \in People : rows'[p] = IF p = a.person THEN added ELSE rows[p]
    BY <1>1, <2>2
  <2>5. AuthTypeOK'
    BY <1>1, <2>0, <2>1, <2>2 DEF AuthTypeOK
  <2>6. \A v \in Windows : /\ auths'[v].at # "idle" => auths'[v].person \in People
                           /\ auths'[v].at = "insert" /\ auths'[v].role \in FieldSales => auths'[v].rep
    BY <1>1, <2>0, <2>3 DEF AuthInv
  <2>7. \A p \in People : rows'[p] # Nothing => (rows'[p].role \in FieldSales => rows'[p].rep)
    BY <1>1, <2>1, <2>4 DEF AuthInv
  <2>8. ASSUME NEW v \in Windows, auths'[v].at = "blocked"
        PROVE  rows'[auths'[v].person] = Nothing \/ rows'[auths'[v].person].by # v
    <3>1. v # w /\ auths'[v] = auths[v] /\ auths[v].person \in People
      BY <2>0, <2>3, <2>8 DEF AuthInv
    <3>2. rows[auths[v].person] = Nothing \/ rows[auths[v].person].by # v
      BY <2>8, <3>1 DEF AuthInv, BlockedLeavesNobody
    <3> QED BY <2>1, <2>4, <3>1, <3>2
  <2> QED BY <1>1, <2>5, <2>6, <2>7, <2>8 DEF AuthInv, BlockedLeavesNobody
<1> QED BY <1>3, <1>4, <1>5 DEF InsertUser, Undone

LEMMA AuthUntouched == ASSUME AuthInv, contact' \in BOOLEAN, UNCHANGED <<forms, auths, rows>> PROVE AuthInv'
BY DEF AuthInv, AuthTypeOK, BlockedLeavesNobody

LEMMA AuthInvariant == ASSUME UserAssumption, RowInv, AuthInv, [Next]_vars PROVE AuthInv'
<1>1. CASE RowStep \/ ContactAppears
  <2>1. UNCHANGED <<forms, auths, rows>> /\ contact' \in BOOLEAN
    BY <1>1 DEF AuthInv, RowStep, ContactAppears, Link, ToggleEditor, Save, ToggleActive, Send, ReadRow, ApplyRole,
                ApplyActive, DeleteBranches, InsertBranch, Settled, PatchFails, Kept, authVars
  <2> QED BY <2>1, AuthUntouched
<1>2. CASE AuthStep
  BY <1>1, <1>2, FormSteps, HandlerSteps, TransactionStep DEF AuthStep
<1>3. CASE UNCHANGED vars
  <2>1. UNCHANGED <<forms, auths, rows>> /\ contact' \in BOOLEAN
    BY <1>3 DEF vars, authVars, AuthInv
  <2> QED BY <2>1, AuthUntouched
<1> QED BY <1>1, <1>2, <1>3 DEF Next

-----------------------------------------------------------------------------
(* Theorems                                                                  *)

\* In every state the row and the requests about it are well formed, and nobody has
\* crossed a save that still counts as alone; the form has left nobody half made.
THEOREM UserInvariant == ASSUME UserAssumption PROVE Spec => [](RowInv /\ AuthInv)
<1>1. Init => RowInv /\ AuthInv
  BY InitRow, InitAuth
<1>2. RowInv /\ AuthInv /\ [Next]_vars => (RowInv /\ AuthInv)'
  BY RowInvariant, AuthInvariant
<1> QED BY <1>1, <1>2, PTL DEF Spec

\* Whatever the windows do at once, the server stores no field sales role without a rep.
THEOREM RepsAreLinked == ASSUME UserAssumption PROVE Spec => []FieldSalesHaveRep
<1>1. RowInv /\ AuthInv => FieldSalesHaveRep
  BY DEF RowInv, AuthInv, FieldSalesHaveRep
<1> QED BY <1>1, UserInvariant, PTL

\* patch_user, alone on its row, stores what it was asked; a retired role is no reason
\* to refuse it; authorize_user leaves nobody behind when it answers 422.
THEOREM SavesAreExact == ASSUME UserAssumption PROVE Spec => []UsersAreSaved
<1>1. RowInv /\ AuthInv => UsersAreSaved
  BY DEF RowInv, AuthInv, PromiseStands, UsersAreSaved, SavedUserIsStored
<1> QED BY <1>1, UserInvariant, PTL

\* Only a role somebody has chosen replaces a retired one, and none turns into it.
THEOREM RetiredStays == ASSUME UserAssumption PROVE Spec => RetiredOnlyByChoice
<1> DEFINE A == /\ user'.role = Retired => user.role = Retired
                /\ user.role = Retired /\ user'.role # Retired
                     => \E w \in Windows : patches[w].at = "role" /\ patches[w].chose
<1>1. ASSUME RowInv, [Next]_vars PROVE [A]_user
  <2>1. CASE \E w \in Windows : ApplyRole(w)
    <3>1. PICK w \in Windows : ApplyRole(w)
      BY <2>1
    <3>2. patches[w].at = "role" /\ user \in UserRow
      BY <1>1, <3>1 DEF ApplyRole, RowInv, RowTypeOK
    <3>3. CASE UNCHANGED user BY <3>3
    <3>4. CASE /\ patches[w].role \in Assignable
               /\ user' = [user EXCEPT !.role = patches[w].role,
                                       !.rep = patches[w].current.rep \/ (patches[w].role \in FieldSales /\ contact)]
      <4>1. user'.role = patches[w].role
        BY <3>2, <3>4 DEF UserRow
      <4>2. user'.role # Retired /\ patches[w].role # Nothing /\ patches[w].role # Retired
        BY <3>4, <4>1 DEF UserAssumption
      <4>3. user.role = Retired => patches[w].chose
        BY <1>1, <3>2, <4>2 DEF RowInv, RetiredOffered
      <4> QED BY <3>2, <4>2, <4>3
    <3> QED BY <3>1, <3>3, <3>4 DEF ApplyRole, RoleAllowed
  <2>2. CASE UNCHANGED user BY <2>2
  <2>3. CASE \/ \E w \in Windows : ApplyActive(w) \/ DeleteBranches(w) \/ InsertBranch(w)
             \/ Link
    <3>1. user' = user \/ user'.role = user.role
      BY <1>1, <2>3 DEF ApplyActive, DeleteBranches, InsertBranch, Link, RowInv, RowTypeOK, UserRow
    <3> QED BY <3>1
  <2>4. \/ \E w \in Windows : ApplyRole(w) \/ ApplyActive(w) \/ DeleteBranches(w) \/ InsertBranch(w)
        \/ Link \/ UNCHANGED user
    BY <1>1 DEF Next, RowStep, AuthStep, ContactAppears, ToggleEditor, Save, ToggleActive, Send, ReadRow,
                Settled, PatchFails, Kept, CheckUser, InsertUser, AuthAnswered, AuthFails, Pick, SetRole,
                SubmitUser, vars, userVars
  <2> QED BY <2>1, <2>2, <2>3, <2>4
<1>2. RowInv /\ AuthInv /\ [Next]_vars => [A]_user
  BY <1>1
<1> QED BY <1>2, UserInvariant, PTL DEF Spec, RetiredOnlyByChoice


-----------------------------------------------------------------------------
(* The production rate of a kit (SettingsForms)                              *)

KitRecord == [draft : Values \cup {Blank, Absent}, mark : BOOLEAN, save : {0} \cup 1..MaxSaves]
BlurRecord == [at : {"idle", "sent", "stored", "over"}, branch : Branches \cup {Absent},
               value : Values \cup {Blank, Absent}]
Unanswered(i) == blurs[i].at \in {"sent", "stored"}

KitTypeOK ==
  /\ rate \in [Branches -> Values] /\ known \in [Branches -> Values \cup {Absent}]
  /\ shown \in Branches /\ kit \in KitRecord /\ blurs \in [1..MaxSaves -> BlurRecord]
  /\ kit.draft = Absent => kit = Forms!NoKit
  /\ \A i \in 1..MaxSaves : blurs[i].at # "idle" =>
       blurs[i].branch \in Branches /\ blurs[i].value \in Values \cup {Blank}

\* Nothing is typed while a save is under way: what is on its way is what the field has,
\* and once it is stored the rate is, too.  A mark is there only when nothing is.
KitKnows ==
  /\ \A i, j \in 1..MaxSaves : Unanswered(i) /\ Unanswered(j) => i = j
  /\ \A i \in 1..MaxSaves : Unanswered(i) => ~kit.mark
  /\ \A i \in 1..MaxSaves : kit.save = i /\ Unanswered(i) => kit.draft = blurs[i].value
  /\ \A i \in 1..MaxSaves : kit.save = i /\ blurs[i].at = "stored" /\ kit.draft # Blank =>
                              kit.draft = rate[blurs[i].branch]
  /\ kit.mark => kit.save # 0 /\ blurs[kit.save].at = "over"
  /\ kit.mark /\ kit.draft # Blank => kit.draft = rate[blurs[kit.save].branch]

KitInv == KitTypeOK /\ KitKnows

LEMMA KitStarts == ASSUME Forms!Init PROVE KitInv
<1>1. /\ rate \in [Branches -> Values] /\ known = [b \in Branches |-> Absent]
      /\ shown \in Branches /\ kit = Forms!NoKit /\ blurs = [i \in 1..MaxSaves |-> Forms!NoBlur]
  BY DEF Forms!Init
<1>2. Forms!NoKit \in KitRecord /\ ~Forms!NoKit.mark /\ Forms!NoKit.save = 0
  BY DEF Forms!NoKit, KitRecord
<1>3. Forms!NoBlur \in BlurRecord /\ Forms!NoBlur.at = "idle"
  BY DEF Forms!NoBlur, BlurRecord
<1> QED BY <1>1, <1>2, <1>3 DEF KitInv, KitTypeOK, KitKnows, Unanswered

LEMMA PickStep == ASSUME KitInv, NEW b \in Branches, Forms!PickBranch(b) PROVE KitInv'
<1>1. /\ rate' = rate /\ known' = known /\ blurs' = blurs /\ shown' = b
      /\ kit' = Forms!NoKit \/ kit' = kit
  BY DEF Forms!PickBranch
<1>2. Forms!NoKit \in KitRecord /\ ~Forms!NoKit.mark /\ Forms!NoKit.save = 0
  BY DEF Forms!NoKit, KitRecord
<1>3. KitTypeOK' BY <1>1, <1>2 DEF KitInv, KitTypeOK
<1>4. CASE kit' = kit BY <1>1, <1>3, <1>4 DEF KitInv, KitKnows, Unanswered
<1>5. CASE kit' = Forms!NoKit BY <1>1, <1>2, <1>3, <1>5 DEF KitInv, KitKnows, Unanswered
<1> QED BY <1>1, <1>4, <1>5

LEMMA ReadRateStep == ASSUME KitInv, NEW b \in Branches, Forms!ReadRate(b) PROVE KitInv'
<1> DEFINE new == [Forms!NoKit EXCEPT !.draft = rate[b]]
<1>1. /\ rate' = rate /\ known' = [known EXCEPT ![b] = rate[b]] /\ blurs' = blurs /\ shown' = shown
      /\ kit' = new \/ kit' = kit
  BY DEF Forms!ReadRate
<1>2. new \in KitRecord /\ ~new.mark /\ new.save = 0 /\ new.draft # Absent
  <2>1. rate[b] \in Values /\ Absent \notin Values
    BY SettingsAssumption DEF Forms!FormsAssumption, KitInv, KitTypeOK
  <2>2. Forms!NoKit \in KitRecord /\ ~Forms!NoKit.mark /\ Forms!NoKit.save = 0
    BY DEF Forms!NoKit, KitRecord
  <2> QED BY <2>1, <2>2 DEF KitRecord
<1> HIDE DEF new
<1>3. KitTypeOK' BY <1>1, <1>2 DEF KitInv, KitTypeOK
<1>4. CASE kit' = kit BY <1>1, <1>3, <1>4 DEF KitInv, KitKnows, Unanswered
<1>5. CASE kit' = new BY <1>1, <1>2, <1>3, <1>5 DEF KitInv, KitKnows, Unanswered
<1> QED BY <1>1, <1>4, <1>5

LEMMA TypeRateStep ==
  ASSUME KitInv, NEW v \in Values \cup {Blank}, Forms!TypeRate(v) PROVE KitInv'
<1>1. /\ rate' = rate /\ known' = known /\ blurs' = blurs /\ shown' = shown
      /\ kit' = [kit EXCEPT !.draft = v, !.mark = FALSE] /\ ~Forms!Waiting
  BY DEF Forms!TypeRate, Forms!Unmarked
<1>2. kit' \in KitRecord /\ ~kit'.mark /\ kit'.save = kit.save /\ kit'.draft # Absent
  BY <1>1, SettingsAssumption DEF KitRecord, Forms!FormsAssumption, KitInv, KitTypeOK
<1>3. \A i \in 1..MaxSaves : ~Unanswered(i)
  BY <1>1 DEF Forms!Waiting, Unanswered
<1>4. KitTypeOK' BY <1>1, <1>2 DEF KitInv, KitTypeOK
<1> QED BY <1>1, <1>2, <1>3, <1>4 DEF KitInv, KitKnows, Unanswered

LEMMA BlurStep == ASSUME KitInv, NEW i \in 1..MaxSaves, Forms!Blur(i) PROVE KitInv'
<1> DEFINE new == [at |-> "sent", branch |-> shown, value |-> kit.draft]
<1>1. /\ rate' = rate /\ known' = known /\ shown' = shown /\ blurs' = [blurs EXCEPT ![i] = new]
      /\ kit' = [kit EXCEPT !.mark = FALSE, !.save = i] /\ ~Forms!Waiting /\ kit # Forms!NoKit
  BY DEF Forms!Blur
<1>2. kit' \in KitRecord /\ ~kit'.mark /\ kit'.save = i /\ kit'.draft = kit.draft /\ kit.draft # Absent
  BY <1>1 DEF KitRecord, KitInv, KitTypeOK
<1>3. new \in BlurRecord /\ new.at = "sent" /\ new.branch \in Branches /\ new.value = kit.draft
      /\ kit.draft \in Values \cup {Blank}
  BY <1>2 DEF BlurRecord, KitRecord, KitInv, KitTypeOK
<1> HIDE DEF new
<1>4. \A j \in 1..MaxSaves : ~Unanswered(j)
  BY <1>1 DEF Forms!Waiting, Unanswered
<1>5. KitTypeOK' BY <1>1, <1>2, <1>3 DEF KitInv, KitTypeOK
<1>6. \A j \in 1..MaxSaves : blurs'[j] = IF j = i THEN new ELSE blurs[j]
  BY <1>1 DEF KitInv, KitTypeOK
<1> QED BY <1>1, <1>2, <1>3, <1>4, <1>5, <1>6 DEF KitInv, KitKnows, Unanswered

LEMMA StoreRateStep == ASSUME KitInv, NEW i \in 1..MaxSaves, Forms!StoreRate(i) PROVE KitInv'
<1> DEFINE new == [blurs[i] EXCEPT !.at = "stored"]
<1>1. /\ known' = known /\ shown' = shown /\ kit' = kit /\ blurs' = [blurs EXCEPT ![i] = new]
      /\ blurs[i].at = "sent"
      /\ rate' = IF blurs[i].value = Blank THEN rate
                 ELSE [rate EXCEPT ![blurs[i].branch] = blurs[i].value]
  BY DEF Forms!StoreRate
<1>2. /\ new \in BlurRecord /\ new.at = "stored" /\ new.branch = blurs[i].branch
      /\ new.value = blurs[i].value /\ blurs[i].branch \in Branches
  BY <1>1 DEF BlurRecord, KitInv, KitTypeOK
<1> HIDE DEF new
<1>3. blurs[i].value \in Values \cup {Blank} /\ blurs[i] \in BlurRecord
  BY <1>1 DEF KitInv, KitTypeOK
<1>4. \A j \in 1..MaxSaves : blurs'[j] = IF j = i THEN new ELSE blurs[j]
  BY <1>1 DEF KitInv, KitTypeOK
<1>5. rate' \in [Branches -> Values] /\ (blurs[i].value # Blank => rate'[blurs[i].branch] = blurs[i].value)
  BY <1>1, <1>2, <1>3 DEF KitInv, KitTypeOK
<1>6. KitTypeOK'
  BY <1>1, <1>2, <1>3, <1>4, <1>5 DEF KitInv, KitTypeOK
<1>7. Unanswered(i) /\ ~kit.mark
  BY <1>1 DEF Unanswered, KitInv, KitKnows
<1>8. kit.save = i => kit.draft = blurs[i].value
  BY <1>7 DEF KitInv, KitKnows
<1>9. \A j \in 1..MaxSaves : kit.save = j /\ blurs[j].at = "stored" => j = i
  BY <1>7 DEF KitInv, KitKnows, Unanswered
<1>10. \A j \in 1..MaxSaves : Unanswered(j)' <=> Unanswered(j)
  BY <1>1, <1>2, <1>4 DEF Unanswered
<1> QED BY <1>1, <1>2, <1>4, <1>5, <1>6, <1>7, <1>8, <1>9, <1>10 DEF KitInv, KitKnows

LEMMA RateSettledStep == ASSUME KitInv, NEW i \in 1..MaxSaves, Forms!RateSettled(i) PROVE KitInv'
<1> DEFINE new == [blurs[i] EXCEPT !.at = "over"]
           seen == [kit EXCEPT !.mark = kit.mark \/ kit.save = i]
<1>1. /\ known' = known /\ shown' = shown /\ rate' = rate /\ blurs' = [blurs EXCEPT ![i] = new]
      /\ blurs[i].at \in {"sent", "stored"}
      /\ kit' = kit \/ (blurs[i].at = "stored" /\ kit' = seen)
  BY DEF Forms!RateSettled
<1>2. /\ new \in BlurRecord /\ new.at = "over" /\ new.branch = blurs[i].branch
      /\ new.value = blurs[i].value
  BY <1>1 DEF BlurRecord, KitInv, KitTypeOK
<1>3. seen \in KitRecord /\ seen.draft = kit.draft /\ seen.save = kit.save
      /\ (seen.mark => kit.mark \/ kit.save = i) /\ (kit = Forms!NoKit => seen = Forms!NoKit)
  <2>1. (kit.mark \/ kit.save = i) \in BOOLEAN
    BY DEF KitInv, KitTypeOK, KitRecord
  <2>2. kit = Forms!NoKit => kit.save # i /\ ~kit.mark
    BY DEF Forms!NoKit
  <2> QED BY <2>1, <2>2 DEF KitInv, KitTypeOK, KitRecord, Forms!NoKit
<1> HIDE DEF new, seen
<1>4. \A j \in 1..MaxSaves : blurs'[j] = IF j = i THEN new ELSE blurs[j]
  BY <1>1 DEF KitInv, KitTypeOK
<1>5. KitTypeOK'
  BY <1>1, <1>2, <1>3, <1>4 DEF KitInv, KitTypeOK
<1>6. Unanswered(i) /\ ~kit.mark /\ \A j \in 1..MaxSaves : ~Unanswered(j)'
  BY <1>1, <1>2, <1>4 DEF Unanswered, KitInv, KitKnows
<1>7. kit.save = i /\ blurs[i].at = "stored" /\ kit.draft # Blank => kit.draft = rate[blurs[i].branch]
  BY DEF KitInv, KitKnows
<1>8. \A j \in 1..MaxSaves : blurs'[j].at # "stored"
  BY <1>6 DEF Unanswered
<1>9. kit'.mark => kit.save = i /\ blurs[i].at = "stored" /\ kit'.save = i /\ kit'.draft = kit.draft
  BY <1>1, <1>3, <1>6
<1> QED BY <1>1, <1>2, <1>4, <1>5, <1>6, <1>7, <1>8, <1>9 DEF KitInv, KitKnows

LEMMA KitStays ==
  ASSUME KitInv, UNCHANGED <<rate, known, shown, kit, blurs>> PROVE KitInv'
<1>1. rate' = rate /\ known' = known /\ shown' = shown /\ kit' = kit /\ blurs' = blurs
  OBVIOUS
<1> QED BY <1>1 DEF KitInv, KitTypeOK, KitKnows, Unanswered


-----------------------------------------------------------------------------
(* The factors of a material (SettingsForms)                                 *)

\* The field of f differs from no original of it.
Plain(f) == \A v \in Forms!flattenFactors(f) : factorForm[f] = v

OfBranches(g) == g = [b \in Branches |-> g[b]] /\ \A b \in Branches : DOMAIN g[b] \subseteq Factors

FactorTypeOK ==
  /\ OfBranches(override) /\ OfBranches(listed) /\ OfBranches(promised) /\ shown \in Branches
  /\ factorSave # Absent =>
       /\ factorSave = [branch |-> factorSave.branch, body |-> factorSave.body, at |-> factorSave.at]
       /\ DOMAIN factorSave.body \subseteq Factors /\ factorSave.at \in {"sent", "stored"}

\* A field that a save would leave out has no factor of the branch behind it, and no save
\* left one out that the branch still had.
FactorsKnow ==
  /\ factorForm = Absent => factorSave = Absent /\ listed = override
  /\ factorForm # Absent =>
       \A f \in Factors : Plain(f) => Forms!ReadsAs(override[shown], f) = Forms!Base[f]
  /\ factorSave # Absent =>
       /\ factorSave.branch = shown
       /\ \A f \in DOMAIN factorSave.body : factorSave.body[f] = factorForm[f]
       /\ factorSave.at = "sent" =>
            \A f \in Factors \ DOMAIN factorSave.body :
              Forms!ReadsAs(override[shown], f) = Forms!Base[f]

FactorInv == FactorTypeOK /\ FactorsKnow /\ Forms!FactorsSurvive

LEMMA PlainIsBase ==
  ASSUME NEW f \in Factors, Plain(f)
  PROVE  /\ factorForm[f] = Forms!Base[f]
         /\ \A b \in Branches : f \in DOMAIN listed[b] => listed[b][f] = Forms!Base[f]
<1>1. Forms!Base[f] \in Forms!flattenFactors(f)
  BY DEF Forms!flattenFactors
<1>2. ASSUME NEW b \in Branches, f \in DOMAIN listed[b] PROVE listed[b][f] \in Forms!flattenFactors(f)
  BY <1>2 DEF Forms!flattenFactors, Forms!HavingFactor
<1> QED BY <1>1, <1>2 DEF Plain

\* Once the list is the stored one, what a save would leave out has no factor.
LEMMA ListedIsRead ==
  ASSUME shown' \in Branches, listed' = override', NEW f \in Factors, Plain(f)'
  PROVE  (Forms!ReadsAs(override[shown], f) = Forms!Base[f])'
<1>1. Forms!Base[f] \in Forms!flattenFactors(f)'
  BY DEF Forms!flattenFactors
<1>2. f \in DOMAIN listed'[shown'] => listed'[shown'][f] \in Forms!flattenFactors(f)'
  BY DEF Forms!flattenFactors, Forms!HavingFactor
<1>3. \A v \in Forms!flattenFactors(f)' : factorForm'[f] = v
  BY DEF Plain
<1> QED BY <1>1, <1>2, <1>3 DEF Forms!ReadsAs, Forms!Base

LEMMA FactorsStart == ASSUME Forms!Init PROVE FactorInv
<1>1. /\ override = [b \in Branches |-> <<>>] /\ listed = [b \in Branches |-> <<>>]
      /\ promised = [b \in Branches |-> <<>>] /\ factorForm = Absent /\ factorSave = Absent
      /\ shown \in Branches
  BY DEF Forms!Init
<1>2. DOMAIN <<>> = {} OBVIOUS
<1>3. FactorTypeOK BY <1>1, <1>2 DEF FactorTypeOK, OfBranches
<1>4. FactorsKnow BY <1>1 DEF FactorsKnow
<1>5. Forms!FactorsSurvive BY <1>1, <1>2 DEF Forms!FactorsSurvive
<1> QED BY <1>3, <1>4, <1>5 DEF FactorInv

\* The form is opened, typed into and left while the list is the stored one.
LEMMA FormStep ==
  ASSUME FactorInv, factorSave = Absent, listed = override,
         override' = override, listed' = listed, factorSave' = factorSave, promised' = promised,
         shown' = shown
  PROVE  FactorInv'
<1>1. FactorTypeOK'
  BY DEF FactorInv, FactorTypeOK, OfBranches
<1>2. Forms!FactorsSurvive' BY DEF FactorInv, Forms!FactorsSurvive, Forms!ReadsAs, Forms!Base
<1>3. ASSUME NEW f \in Factors, Plain(f)' PROVE (Forms!ReadsAs(override[shown], f) = Forms!Base[f])'
  BY <1>1, <1>3, ListedIsRead DEF FactorTypeOK
<1> QED BY <1>1, <1>2, <1>3 DEF FactorInv, FactorsKnow

LEMMA SaveFactorsStep == ASSUME FactorInv, Forms!SaveFactors PROVE FactorInv'
<1> DEFINE changed == {f \in Factors : \E v \in Forms!flattenFactors(f) : factorForm[f] # v}
           new == [branch |-> shown, body |-> [f \in changed |-> factorForm[f]], at |-> "sent"]
<1>1. /\ factorForm # Absent /\ factorSave = Absent /\ factorSave' = new
      /\ override' = override /\ listed' = listed /\ promised' = promised /\ factorForm' = factorForm
      /\ shown' = shown
  BY DEF Forms!SaveFactors, Forms!kitVars
<1>2. /\ new = [branch |-> new.branch, body |-> new.body, at |-> new.at]
      /\ new.branch = shown /\ DOMAIN new.body = changed /\ new.at = "sent"
      /\ \A f \in changed : new.body[f] = factorForm[f]
  OBVIOUS
<1>3. \A f \in Factors : Plain(f)' <=> Plain(f)
  BY <1>1 DEF Plain, Forms!flattenFactors, Forms!HavingFactor, Forms!Base
<1>4. \A f \in Factors \ changed : Plain(f)
  BY DEF Plain
<1>5. changed \subseteq Factors
  OBVIOUS
<1> HIDE DEF new, changed
<1>6. FactorTypeOK'
  BY <1>1, <1>2, <1>5 DEF FactorInv, FactorTypeOK, OfBranches
<1>7. Forms!FactorsSurvive'
  BY <1>1 DEF FactorInv, Forms!FactorsSurvive, Forms!ReadsAs, Forms!Base
<1>8. \A f \in Factors : Plain(f) => (Forms!ReadsAs(override[shown], f) = Forms!Base[f])'
  BY <1>1 DEF FactorInv, FactorsKnow, Forms!ReadsAs, Forms!Base
<1> QED BY <1>1, <1>2, <1>3, <1>4, <1>6, <1>7, <1>8 DEF FactorInv, FactorsKnow

LEMMA StoreFactorsStep == ASSUME FactorInv, Forms!StoreFactors PROVE FactorInv'
<1> DEFINE body == factorSave.body
           new == [factorSave EXCEPT !.at = "stored"]
           due == [f \in DOMAIN body \cup DOMAIN promised[shown] |->
                     IF f \in DOMAIN body THEN body[f] ELSE promised[shown][f]]
<1>1. /\ factorSave # Absent /\ factorSave.at = "sent" /\ factorSave' = new
      /\ listed' = listed /\ factorForm' = factorForm /\ shown' = shown
      /\ override' = [override EXCEPT ![factorSave.branch] = body]
      /\ promised' = [promised EXCEPT ![factorSave.branch] =
           [f \in DOMAIN body \cup DOMAIN promised[factorSave.branch] |->
              IF f \in DOMAIN body THEN body[f] ELSE promised[factorSave.branch][f]]]
  BY DEF Forms!StoreFactors, Forms!kitVars
<1>2. /\ factorSave.branch = shown /\ shown \in Branches /\ DOMAIN body \subseteq Factors
      /\ factorForm # Absent
      /\ \A f \in DOMAIN body : body[f] = factorForm[f]
      /\ \A f \in Factors \ DOMAIN body : Forms!ReadsAs(override[shown], f) = Forms!Base[f]
  BY <1>1 DEF FactorInv, FactorTypeOK, FactorsKnow
<1>3. factorSave = [branch |-> factorSave.branch, body |-> factorSave.body, at |-> factorSave.at]
  BY <1>1 DEF FactorInv, FactorTypeOK
<1>4. /\ new = [branch |-> new.branch, body |-> new.body, at |-> new.at]
      /\ new.branch = shown /\ new.body = body /\ new.at = "stored"
  BY <1>2, <1>3
<1>5. promised' = [promised EXCEPT ![shown] = due] /\ override' = [override EXCEPT ![shown] = body]
  BY <1>1, <1>2
<1>6. /\ DOMAIN due = DOMAIN body \cup DOMAIN promised[shown]
      /\ \A f \in DOMAIN due : due[f] = IF f \in DOMAIN body THEN body[f] ELSE promised[shown][f]
  OBVIOUS
<1>7. OfBranches(promised) /\ OfBranches(override) /\ OfBranches(listed)
  BY DEF FactorInv, FactorTypeOK
<1> HIDE DEF new, due, body
<1>8. /\ \A b \in Branches : override'[b] = IF b = shown THEN body ELSE override[b]
      /\ \A b \in Branches : promised'[b] = IF b = shown THEN due ELSE promised[b]
  BY <1>5, <1>7 DEF OfBranches
<1>9. FactorTypeOK'
  BY <1>1, <1>2, <1>4, <1>5, <1>6, <1>7, <1>8 DEF FactorTypeOK, OfBranches
<1>10. ASSUME NEW b \in Branches, NEW f \in DOMAIN promised'[b]
       PROVE  Forms!ReadsAs(override'[b], f) = promised'[b][f]
  <2>1. CASE b # shown
    <3>1. f \in DOMAIN promised[b] /\ override'[b] = override[b] /\ promised'[b] = promised[b]
      BY <1>8, <2>1
    <3> QED BY <3>1 DEF FactorInv, Forms!FactorsSurvive
  <2>2. CASE b = shown /\ f \in DOMAIN body
    BY <1>2, <1>6, <1>8, <2>2 DEF Forms!ReadsAs
  <2>3. CASE b = shown /\ f \notin DOMAIN body
    <3>1. f \in DOMAIN promised[shown] /\ f \in Factors /\ promised'[b][f] = promised[shown][f]
      BY <1>2, <1>6, <1>7, <1>8, <2>3 DEF OfBranches
    <3>2. promised[shown][f] = Forms!Base[f]
      BY <1>2, <2>3, <3>1 DEF FactorInv, Forms!FactorsSurvive
    <3>3. Forms!ReadsAs(body, f) = Forms!Base[f]
      BY <2>3 DEF Forms!ReadsAs
    <3> QED BY <1>2, <1>8, <2>3, <3>1, <3>2, <3>3
  <2> QED BY <2>1, <2>2, <2>3
<1>11. ASSUME NEW f \in Factors, Plain(f)' PROVE (Forms!ReadsAs(override[shown], f) = Forms!Base[f])'
  <2>1. Plain(f)
    BY <1>1, <1>11 DEF Plain, Forms!flattenFactors, Forms!HavingFactor, Forms!Base
  <2>2. factorForm[f] = Forms!Base[f]
    BY <2>1, PlainIsBase
  <2>3. Forms!ReadsAs(body, f) = Forms!Base[f]
    BY <1>2, <2>2 DEF Forms!ReadsAs
  <2>4. override'[shown'] = body
    BY <1>1, <1>2, <1>8
  <2> QED BY <2>3, <2>4 DEF Forms!ReadsAs, Forms!Base
<1>12. FactorsKnow'
  BY <1>1, <1>2, <1>4, <1>11 DEF FactorsKnow
<1>13. Forms!FactorsSurvive'
  BY <1>10 DEF Forms!FactorsSurvive, Forms!ReadsAs, Forms!Base
<1> QED BY <1>9, <1>12, <1>13 DEF FactorInv

LEMMA FactorsSettledStep == ASSUME FactorInv, Forms!FactorsSettled PROVE FactorInv'
<1>1. /\ factorSave # Absent /\ factorSave' = Absent /\ override' = override /\ listed' = listed
      /\ promised' = promised /\ factorForm' = factorForm /\ shown' = shown
  BY DEF Forms!FactorsSettled, Forms!kitVars
<1>2. FactorTypeOK'
  BY <1>1 DEF FactorInv, FactorTypeOK, OfBranches
<1>3. Forms!FactorsSurvive'
  BY <1>1 DEF FactorInv, Forms!FactorsSurvive, Forms!ReadsAs, Forms!Base
<1>4. FactorsKnow'
  BY <1>1
  DEF FactorInv, FactorsKnow, Plain, Forms!flattenFactors, Forms!HavingFactor, Forms!ReadsAs, Forms!Base
<1> QED BY <1>2, <1>3, <1>4 DEF FactorInv

LEMMA ListFactorsStep == ASSUME FactorInv, Forms!ListFactors PROVE FactorInv'
<1>1. /\ factorSave' = factorSave /\ override' = override /\ listed' = override
      /\ promised' = promised /\ factorForm' = factorForm /\ shown' = shown
  BY DEF Forms!ListFactors, Forms!kitVars
<1>2. FactorTypeOK'
  BY <1>1 DEF FactorInv, FactorTypeOK, OfBranches
<1>3. Forms!FactorsSurvive'
  BY <1>1 DEF FactorInv, Forms!FactorsSurvive, Forms!ReadsAs, Forms!Base
<1>4. ASSUME NEW f \in Factors, Plain(f)' PROVE (Forms!ReadsAs(override[shown], f) = Forms!Base[f])'
  BY <1>1, <1>2, <1>4, ListedIsRead DEF FactorTypeOK
<1>5. factorSave # Absent /\ factorSave.at = "sent" =>
        \A f \in Factors \ DOMAIN factorSave.body :
          (Forms!ReadsAs(override[shown], f) = Forms!Base[f])'
  BY <1>1 DEF FactorInv, FactorsKnow, Forms!ReadsAs, Forms!Base
<1>6. FactorsKnow'
  BY <1>1, <1>4, <1>5 DEF FactorInv, FactorsKnow
<1> QED BY <1>2, <1>3, <1>6 DEF FactorInv

LEMMA FactorStepOK == ASSUME FactorInv, Forms!FactorStep PROVE FactorInv'
<1>1. CASE Forms!OpenFactors
  BY <1>1, FormStep DEF Forms!OpenFactors, Forms!kitVars, FactorInv, FactorsKnow
<1>2. CASE Forms!LeaveFactors
  BY <1>2, FormStep DEF Forms!LeaveFactors, Forms!kitVars
<1>3. ASSUME NEW f \in Factors, NEW v \in Values, Forms!TypeFactor(f, v) PROVE FactorInv'
  BY <1>3, FormStep DEF Forms!TypeFactor, Forms!kitVars
<1> QED
  BY <1>1, <1>2, <1>3, SaveFactorsStep, StoreFactorsStep, FactorsSettledStep, ListFactorsStep
  DEF Forms!FactorStep

\* Outside the page of the factors no form is open, and the picker may move.
LEMMA FactorsStay ==
  ASSUME FactorInv, UNCHANGED <<override, listed, factorForm, factorSave, promised>>,
         shown' \in Branches, shown' = shown \/ (factorForm = Absent /\ factorSave = Absent)
  PROVE  FactorInv'
<1>1. /\ factorSave' = factorSave /\ override' = override /\ listed' = listed
      /\ promised' = promised /\ factorForm' = factorForm
  OBVIOUS
<1>2. FactorTypeOK'
  BY <1>1 DEF FactorInv, FactorTypeOK, OfBranches
<1>3. Forms!FactorsSurvive'
  BY <1>1 DEF FactorInv, Forms!FactorsSurvive, Forms!ReadsAs, Forms!Base
<1>4. FactorsKnow'
  BY <1>1
  DEF FactorInv, FactorsKnow, Plain, Forms!flattenFactors, Forms!HavingFactor, Forms!ReadsAs, Forms!Base
<1> QED BY <1>2, <1>3, <1>4 DEF FactorInv


-----------------------------------------------------------------------------
(* The row of the company (SettingsForms)                                    *)

Snapshot(c) ==
  /\ c = [fields |-> c.fields, version |-> c.version] /\ c.version \in Nat
  /\ c.fields = [g \in Forms!Fields |-> c.fields[g]]

PatchOK(s) ==
  /\ s = [at |-> s.at, body |-> s.body, previous |-> s.previous]
  /\ s.at \in {"idle", "sent", "stored", "over"}
  /\ s.at \in {"sent", "stored"} => Snapshot(s.previous) /\ DOMAIN s.body \subseteq Forms!Fields

PageOK ==
  /\ page = [form |-> page.form, key |-> page.key, save |-> page.save, text |-> page.text]
  /\ page.form # Absent =>
       /\ page.form \in DOMAIN FieldsOf /\ page.key = cache.version
       /\ page.text = [g \in FieldsOf[page.form] |-> page.text[g]]

CompanyTypeOK ==
  /\ Snapshot(row) /\ Snapshot(cache) /\ typed = [g \in Forms!Fields |-> typed[g]]
  /\ formMishaps \in Nat /\ {undone, strange, crossed} \subseteq BOOLEAN
  /\ fetch.at \in {"none", "sent", "served"} /\ (fetch.at = "served" => Snapshot(fetch.row))
  /\ saves = [i \in 1..MaxSaves |-> saves[i]] /\ \A i \in 1..MaxSaves : PatchOK(saves[i])
  /\ PageOK

\* What a copy of the row says where it has the version of d: what d says, but for what
\* was typed; and exactly that.
Trails(c, d) ==
  c.version = d.version => \A g \in Forms!Fields : c.fields[g] = d.fields[g] \/ c.fields[g] \in typed[g]
Agrees(c, d) == c.version = d.version => c.fields = d.fields

AllSettled == \A i \in 1..MaxSaves : ~Forms!UnderWay(i)
Calm == formMishaps = 0 \/ ~crossed

\* A copy that is or was in the cache.
Older(c) ==
  /\ c.version <= row.version
  /\ Calm => Trails(c, row) /\ (fetch.at = "served" => Trails(c, fetch.row))

\* The form shows of c what nobody typed.
Presents(c) == \A g \in FieldsOf[page.form] : page.text[g] \in typed[g] \/ page.text[g] = c.fields[g]

\* Unless a save failed after two were under way at once, only what was typed is sent.
TypedIsSent ==
  Calm => /\ ~undone
          /\ \A i \in 1..MaxSaves : Forms!UnderWay(i) =>
               \A g \in DOMAIN saves[i].body : saves[i].body[g] \in typed[g]
          /\ page.form # Absent => Presents(cache)

\* A save that is alone can be taken back: what it puts back is what is stored, if its
\* version is, and what an untouched form of that version shows.
CanRollBack(i) ==
  LET prior == saves[i].previous IN
  /\ Agrees(prior, row) /\ (fetch.at = "served" => Agrees(prior, fetch.row))
  /\ saves[i].at = "stored" => prior.version < row.version
  /\ cache.version # prior.version => Agrees(cache, row)
  /\ Trails(cache, prior)
  /\ page.form # Absent /\ page.key = prior.version => Presents(prior)

AloneOK ==
  ~crossed =>
    /\ \A i, j \in 1..MaxSaves : Forms!UnderWay(i) /\ Forms!UnderWay(j) => i = j
    /\ AllSettled => Agrees(cache, row)
    /\ \A i \in 1..MaxSaves : Forms!UnderWay(i) => CanRollBack(i)

CopiesOK ==
  /\ Older(cache) /\ \A i \in 1..MaxSaves : Forms!UnderWay(i) => Older(saves[i].previous)
  /\ fetch.at = "served" => fetch.row.version <= row.version /\ Agrees(fetch.row, row)

\* Quiet, the cache is what is stored, or what was just read is.
QuietOK ==
  AllSettled /\ ~strange =>
    /\ fetch.at = "none" => cache = row
    /\ fetch.at = "served" => fetch.row = row

CompanyInv == CompanyTypeOK /\ CopiesOK /\ TypedIsSent /\ AloneOK /\ QuietOK


LEMMA CompanyStarts == ASSUME Forms!Init PROVE CompanyInv
<1>1. /\ row = [fields |-> [g \in Forms!Fields |-> Forms!Lowest], version |-> 1]
      /\ cache = row /\ fetch = Forms!NoFetch /\ page = Forms!NoPage
      /\ saves = [i \in 1..MaxSaves |-> Forms!NoSave] /\ typed = [g \in Forms!Fields |-> {}]
      /\ undone = FALSE /\ strange = FALSE /\ crossed = FALSE /\ formMishaps = 0
  BY DEF Forms!Init
<1>2. /\ Forms!NoFetch.at = "none" /\ Forms!NoSave.at = "idle" /\ PatchOK(Forms!NoSave)
      /\ Forms!NoPage.form = Absent
      /\ Forms!NoPage = [form |-> Absent, key |-> 0, save |-> 0, text |-> <<>>]
  BY DEF Forms!NoFetch, Forms!NoSave, Forms!NoPage, PatchOK
<1>3. Snapshot(row)
  BY <1>1 DEF Snapshot
<1>4. CompanyTypeOK
  BY <1>1, <1>2, <1>3 DEF CompanyTypeOK, PageOK
<1>5. \A i \in 1..MaxSaves : ~Forms!UnderWay(i)
  BY <1>1, <1>2 DEF Forms!UnderWay
<1>6. row.version \in Nat
  BY <1>3 DEF Snapshot
<1> QED
  BY <1>1, <1>2, <1>4, <1>5, <1>6
  DEF CompanyInv, CopiesOK, Older, Calm, Trails, TypedIsSent, AloneOK, Agrees, QuietOK

LEMMA ShowsOK ==
  ASSUME NEW c, NEW f \in DOMAIN FieldsOf
  PROVE  /\ Forms!Shows(c, f).form = f /\ Forms!Shows(c, f).key = c.version
         /\ Forms!Shows(c, f).text = [g \in FieldsOf[f] |-> c.fields[g]]
         /\ Forms!Shows(c, f) = [form |-> f, key |-> c.version, save |-> 0,
                                  text |-> [g \in FieldsOf[f] |-> c.fields[g]]]
         /\ FieldsOf[f] \subseteq Forms!Fields
BY DEF Forms!Shows, Forms!KeyOf, Forms!Fields

\* The versions are numbers, and the copies are older.
LEMMA Versions ==
  ASSUME CompanyInv
  PROVE  /\ row.version \in Nat /\ cache.version \in Nat
         /\ fetch.at = "served" => fetch.row.version \in Nat
         /\ \A i \in 1..MaxSaves : Forms!UnderWay(i) => saves[i].previous.version \in Nat
BY DEF CompanyInv, CompanyTypeOK, Snapshot, PatchOK, Forms!UnderWay

LEMMA OpenFormStep ==
  ASSUME CompanyInv, NEW f \in DOMAIN FieldsOf, Forms!OpenForm(f) PROVE CompanyInv'
<1>1. /\ page' = Forms!Shows(cache, f) /\ row' = row /\ cache' = cache /\ fetch' = fetch
      /\ saves' = saves /\ typed' = typed /\ undone' = undone /\ strange' = strange /\ crossed' = crossed
      /\ formMishaps' = formMishaps
  BY DEF Forms!OpenForm
<1>2. /\ page'.form = f /\ page'.key = cache.version
      /\ page'.text = [g \in FieldsOf[f] |-> cache.fields[g]] /\ FieldsOf[f] \subseteq Forms!Fields
      /\ page' = [form |-> page'.form, key |-> page'.key, save |-> page'.save, text |-> page'.text]
  BY <1>1, ShowsOK
<1>3. PageOK'
  BY <1>1, <1>2 DEF PageOK
<1>4. CompanyTypeOK'
  BY <1>1, <1>3 DEF CompanyInv, CompanyTypeOK, Snapshot, PatchOK
<1>5. CopiesOK' /\ QuietOK'
  BY <1>1 DEF CompanyInv, CopiesOK, QuietOK, Older, Calm, Trails, Agrees, AllSettled, Forms!UnderWay
<1>6. TypedIsSent'
  BY <1>1, <1>2 DEF CompanyInv, TypedIsSent, Calm, Presents, Forms!UnderWay
<1>7. ASSUME NEW i \in 1..MaxSaves, CanRollBack(i) PROVE CanRollBack(i)'
  BY <1>1, <1>2, <1>7 DEF CanRollBack, Presents, Trails, Agrees
<1>8. AloneOK'
  BY <1>1, <1>7 DEF CompanyInv, AloneOK, AllSettled, Agrees, Forms!UnderWay
<1> QED BY <1>4, <1>5, <1>6, <1>8 DEF CompanyInv

LEMMA TypeFieldStep ==
  ASSUME CompanyInv, NEW f \in Forms!Fields, NEW v \in Values, Forms!TypeField(f, v) PROVE CompanyInv'
<1>1. /\ page' = [page EXCEPT !.text[f] = v] /\ typed' = [typed EXCEPT ![f] = typed[f] \cup {v}]
      /\ row' = row /\ cache' = cache /\ fetch' = fetch /\ page.form # Absent /\ f \in FieldsOf[page.form]
      /\ saves' = saves /\ undone' = undone /\ strange' = strange /\ crossed' = crossed
      /\ formMishaps' = formMishaps
  BY DEF Forms!TypeField
<1>2. /\ page'.form = page.form /\ page'.key = page.key
      /\ page'.text = [page.text EXCEPT ![f] = v]
      /\ page' = [form |-> page'.form, key |-> page'.key, save |-> page'.save, text |-> page'.text]
  BY <1>1 DEF CompanyInv, CompanyTypeOK, PageOK
<1>3. page.text = [g \in FieldsOf[page.form] |-> page.text[g]] /\ page.form \in DOMAIN FieldsOf
  BY <1>1 DEF CompanyInv, CompanyTypeOK, PageOK
<1>4. \A g \in FieldsOf[page.form] : page'.text[g] = IF g = f THEN v ELSE page.text[g]
  BY <1>2, <1>3
<1>5. PageOK'
  BY <1>1, <1>2, <1>3 DEF CompanyInv, CompanyTypeOK, PageOK
<1>6. typed = [g \in Forms!Fields |-> typed[g]]
  BY DEF CompanyInv, CompanyTypeOK
<1>7. /\ \A g \in Forms!Fields : typed[g] \subseteq typed'[g] /\ v \in typed'[f]
      /\ typed' = [g \in Forms!Fields |-> typed'[g]]
  BY <1>1, <1>6
<1>8. CompanyTypeOK'
  BY <1>1, <1>5, <1>7 DEF CompanyInv, CompanyTypeOK, Snapshot, PatchOK
<1>9. CopiesOK' /\ QuietOK'
  BY <1>1, <1>7 DEF CompanyInv, CopiesOK, QuietOK, Older, Calm, Trails, Agrees, AllSettled, Forms!UnderWay
<1>10. \A g \in FieldsOf[page.form] : g \in Forms!Fields
  BY <1>3, ShowsOK
<1>11. ASSUME NEW c, \A g \in FieldsOf[page.form] : page.text[g] \in typed[g] \/ page.text[g] = c.fields[g]
       PROVE  \A g \in FieldsOf[page.form] : page'.text[g] \in typed'[g] \/ page'.text[g] = c.fields[g]
  BY <1>4, <1>7, <1>10, <1>11
<1>12. ASSUME NEW i \in 1..MaxSaves, Forms!UnderWay(i)
       PROVE  \A g \in DOMAIN saves[i].body : g \in Forms!Fields
  BY <1>12 DEF CompanyInv, CompanyTypeOK, PatchOK, Forms!UnderWay
<1>13. TypedIsSent'
  <2>1. Presents(cache) => Presents(cache)'
    BY <1>1, <1>2, <1>11 DEF Presents
  <2> QED BY <1>1, <1>2, <1>7, <1>12, <2>1 DEF CompanyInv, TypedIsSent, Calm, Forms!UnderWay
<1>14. ASSUME NEW i \in 1..MaxSaves, CanRollBack(i) PROVE CanRollBack(i)'
  <2> DEFINE prior == saves[i].previous
  <2>1. /\ Agrees(prior, row) /\ (fetch.at = "served" => Agrees(prior, fetch.row))
        /\ saves[i].at = "stored" => prior.version < row.version
        /\ cache.version # prior.version => Agrees(cache, row)
        /\ Trails(cache, prior)
        /\ page.form # Absent /\ page.key = prior.version => Presents(prior)
    BY <1>14 DEF CanRollBack
  <2>2. Trails(cache, prior)'
    BY <1>1, <1>7, <2>1 DEF Trails
  <2>3. Presents(prior) => Presents(prior)'
    BY <1>1, <1>2, <1>11 DEF Presents
  <2> QED BY <1>1, <1>2, <2>1, <2>2, <2>3 DEF CanRollBack, Agrees
<1>15. AloneOK'
  BY <1>1, <1>14 DEF CompanyInv, AloneOK, AllSettled, Agrees, Forms!UnderWay
<1> QED BY <1>8, <1>9, <1>13, <1>15 DEF CompanyInv

LEMMA SaveFormStep == ASSUME CompanyInv, NEW i \in 1..MaxSaves, Forms!SaveForm(i) PROVE CompanyInv'
<1> DEFINE body == [g \in Forms!Patch(page.form) |-> page.text[g]]
           new == [at |-> "sent", body |-> body, previous |-> cache]
           fields == [g \in Forms!Fields |-> IF g \in DOMAIN body THEN body[g] ELSE cache.fields[g]]
<1>1. /\ page.form # Absent /\ saves[i] = Forms!NoSave /\ saves' = [saves EXCEPT ![i] = new]
      /\ page' = [page EXCEPT !.save = i] /\ cache' = [cache EXCEPT !.fields = fields]
      /\ fetch' = Forms!NoFetch
      /\ crossed' = (crossed \/ \E j \in 1..MaxSaves : Forms!UnderWay(j))
      /\ row' = row /\ typed' = typed /\ undone' = undone /\ strange' = strange
      /\ formMishaps' = formMishaps
  BY DEF Forms!SaveForm
<1>2. /\ page.form \in DOMAIN FieldsOf /\ page.key = cache.version
      /\ page = [form |-> page.form, key |-> page.key, save |-> page.save, text |-> page.text]
      /\ page.text = [g \in FieldsOf[page.form] |-> page.text[g]]
      /\ Snapshot(cache) /\ Snapshot(row)
  BY <1>1 DEF CompanyInv, CompanyTypeOK, PageOK
<1>3. FieldsOf[page.form] \subseteq Forms!Fields
  BY <1>2, ShowsOK
<1>4. /\ DOMAIN body \subseteq FieldsOf[page.form]
      /\ \A g \in DOMAIN body : body[g] = page.text[g] /\ page.text[g] # cache.fields[g]
      /\ \A g \in FieldsOf[page.form] \ DOMAIN body : page.text[g] = cache.fields[g]
  BY DEF Forms!Patch
<1>5. /\ page'.form = page.form /\ page'.key = page.key /\ page'.text = page.text
      /\ page' = [form |-> page'.form, key |-> page'.key, save |-> page'.save, text |-> page'.text]
  BY <1>1, <1>2
<1>6. /\ cache'.version = cache.version /\ cache'.fields = fields
      /\ cache' = [fields |-> cache'.fields, version |-> cache'.version]
  BY <1>1, <1>2 DEF Snapshot
<1>7. /\ fields = [g \in Forms!Fields |-> fields[g]]
      /\ \A g \in Forms!Fields : fields[g] = IF g \in DOMAIN body THEN body[g] ELSE cache.fields[g]
  OBVIOUS
<1>8. /\ new.at = "sent" /\ new.body = body /\ new.previous = cache
      /\ new = [at |-> new.at, body |-> new.body, previous |-> new.previous]
  OBVIOUS
<1>9. fetch'.at = "none" /\ saves[i].at = "idle"
  BY <1>1 DEF Forms!NoFetch, Forms!NoSave
<1>10. saves = [j \in 1..MaxSaves |-> saves[j]]
  BY DEF CompanyInv, CompanyTypeOK
<1> HIDE DEF body, new, fields
<1>11. /\ saves' = [j \in 1..MaxSaves |-> saves'[j]]
       /\ \A j \in 1..MaxSaves : saves'[j] = IF j = i THEN new ELSE saves[j]
  BY <1>1, <1>10
<1>12. PatchOK(new) /\ Snapshot(cache)' /\ PageOK'
  BY <1>1, <1>2, <1>3, <1>4, <1>5, <1>6, <1>7, <1>8 DEF PatchOK, Snapshot, PageOK
<1>13. CompanyTypeOK'
  <2>1. \A j \in 1..MaxSaves : PatchOK(saves'[j])
    BY <1>11, <1>12 DEF CompanyInv, CompanyTypeOK
  <2>2. crossed' \in BOOLEAN
    BY <1>1 DEF CompanyInv, CompanyTypeOK
  <2> QED BY <1>1, <1>9, <1>11, <1>12, <2>1, <2>2 DEF CompanyInv, CompanyTypeOK, Snapshot, PatchOK
<1>14. /\ Forms!UnderWay(i)' /\ ~Forms!UnderWay(i)
       /\ \A j \in 1..MaxSaves : j # i => (Forms!UnderWay(j)' <=> Forms!UnderWay(j))
  BY <1>8, <1>9, <1>11 DEF Forms!UnderWay
<1>15. Calm' => Calm
  BY <1>1 DEF Calm
<1>16. Calm => \A g \in DOMAIN body : body[g] \in typed[g]
  BY <1>1, <1>4 DEF CompanyInv, TypedIsSent, Presents
<1>17. TypedIsSent'
  <2>1. \A g \in FieldsOf[page.form] : page'.text[g] = cache'.fields[g]
    BY <1>3, <1>4, <1>5, <1>6, <1>7
  <2>2. Presents(cache)'
    BY <1>5, <2>1 DEF Presents
  <2>3. \A j \in 1..MaxSaves : Calm /\ Forms!UnderWay(j)' =>
          \A g \in DOMAIN saves'[j].body : saves'[j].body[g] \in typed'[g]
    BY <1>1, <1>8, <1>11, <1>14, <1>16 DEF CompanyInv, TypedIsSent
  <2> QED BY <1>1, <1>5, <1>15, <2>2, <2>3 DEF CompanyInv, TypedIsSent
<1>18. Calm /\ cache.version = row.version =>
         \A g \in Forms!Fields : cache'.fields[g] = row.fields[g] \/ cache'.fields[g] \in typed[g]
  BY <1>6, <1>7, <1>16 DEF CompanyInv, CopiesOK, Older, Trails
<1>19. CopiesOK'
  <2>1. Older(cache)' /\ cache.version <= row.version
    BY <1>1, <1>6, <1>9, <1>15, <1>18 DEF CompanyInv, CopiesOK, Older, Trails
  <2>2. Calm' => Trails(cache, row)
    BY <1>15 DEF CompanyInv, CopiesOK, Older
  <2>3. ASSUME NEW j \in 1..MaxSaves, Forms!UnderWay(j)' PROVE Older(saves[j].previous)'
    <3>1. CASE j = i
      BY <1>1, <1>8, <1>9, <1>11, <2>1, <2>2, <3>1 DEF Older, Trails
    <3>2. CASE j # i
      BY <1>1, <1>9, <1>11, <1>14, <1>15, <2>3, <3>2 DEF CompanyInv, CopiesOK, Older, Trails
    <3> QED BY <3>1, <3>2
  <2> QED BY <1>9, <2>1, <2>3 DEF CopiesOK
<1>20. ASSUME ~crossed' PROVE ~crossed /\ \A j \in 1..MaxSaves : ~Forms!UnderWay(j)
  BY <1>1, <1>20
<1>21. ASSUME ~crossed' PROVE CanRollBack(i)'
  <2>1. Calm /\ Agrees(cache, row)
    BY <1>20, <1>21 DEF CompanyInv, AloneOK, AllSettled, Calm
  <2>2. Presents(cache)
    BY <1>1, <2>1 DEF CompanyInv, TypedIsSent
  <2>3. Trails(cache', cache)
    BY <1>6, <1>7, <1>16, <2>1 DEF Trails
  <2>4. saves'[i].previous = cache /\ saves'[i].at = "sent"
    BY <1>8, <1>11
  <2>5. Agrees(saves'[i].previous, row')
    BY <1>1, <2>1, <2>4 DEF Agrees
  <2>6. cache'.version = saves'[i].previous.version
    BY <1>6, <2>4
  <2>7. \A g \in Forms!Fields :
          cache'.fields[g] = saves'[i].previous.fields[g] \/ cache'.fields[g] \in typed'[g]
    BY <1>1, <1>6, <2>3, <2>4 DEF Trails
  <2>8. \A g \in FieldsOf[page'.form] :
          page'.text[g] \in typed'[g] \/ page'.text[g] = saves'[i].previous.fields[g]
    BY <1>1, <1>5, <2>2, <2>4 DEF Presents
  <2> QED BY <1>9, <2>4, <2>5, <2>6, <2>7, <2>8 DEF CanRollBack, Agrees, Presents, Trails
<1>22. AloneOK'
  BY <1>14, <1>20, <1>21 DEF AloneOK, AllSettled
<1>23. QuietOK'
  BY <1>14 DEF QuietOK, AllSettled
<1> QED BY <1>13, <1>17, <1>19, <1>22, <1>23 DEF CompanyInv


\* Somebody else's write or a save stored: the row is newer than every copy.
LEMMA RowGrows ==
  ASSUME CompanyInv, row'.version = row.version + 1, cache' = cache, fetch' = fetch, typed' = typed
  PROVE  /\ \A c : c.version \in Nat /\ c.version <= row.version => c.version < row'.version
         /\ cache.version < row'.version
         /\ fetch.at = "served" => fetch.row.version < row'.version
         /\ \A i \in 1..MaxSaves : Forms!UnderWay(i) => saves[i].previous.version < row'.version
BY Versions DEF CompanyInv, CopiesOK, Older

LEMMA StorePatchStep == ASSUME CompanyInv, NEW i \in 1..MaxSaves, Forms!StorePatch(i) PROVE CompanyInv'
<1> DEFINE body == saves[i].body
           new == [saves[i] EXCEPT !.at = "stored"]
           fields == [g \in Forms!Fields |-> IF g \in DOMAIN body THEN body[g] ELSE row.fields[g]]
<1>1. /\ saves[i].at = "sent" /\ saves' = [saves EXCEPT ![i] = new]
      /\ row' = [fields |-> fields, version |-> row.version + 1]
      /\ undone' = (undone \/ \E g \in DOMAIN body : body[g] \notin typed[g] /\ body[g] # row.fields[g])
      /\ cache' = cache /\ fetch' = fetch /\ page' = page /\ typed' = typed /\ strange' = strange
      /\ crossed' = crossed /\ formMishaps' = formMishaps
  BY DEF Forms!StorePatch
<1>2. PatchOK(saves[i]) /\ saves = [j \in 1..MaxSaves |-> saves[j]] /\ row.version \in Nat
  BY Versions DEF CompanyInv, CompanyTypeOK
<1>3. /\ new.at = "stored" /\ new.body = body /\ new.previous = saves[i].previous
      /\ new = [at |-> new.at, body |-> new.body, previous |-> new.previous]
  BY <1>2 DEF PatchOK
<1>4. PatchOK(new)
  BY <1>1, <1>2, <1>3 DEF PatchOK
<1>5. Snapshot(row') /\ row'.version = row.version + 1
  <2>1. fields = [g \in Forms!Fields |-> fields[g]]
    OBVIOUS
  <2> HIDE DEF fields
  <2> QED BY <1>1, <1>2, <2>1 DEF Snapshot
<1> HIDE DEF fields, new, body
<1>6. /\ saves' = [j \in 1..MaxSaves |-> saves'[j]]
      /\ \A j \in 1..MaxSaves : saves'[j] = IF j = i THEN new ELSE saves[j]
  BY <1>1, <1>2
<1>7. Forms!UnderWay(i) /\ \A j \in 1..MaxSaves : Forms!UnderWay(j)' <=> Forms!UnderWay(j)
  BY <1>1, <1>3, <1>6 DEF Forms!UnderWay
<1>8. /\ \A j \in 1..MaxSaves : saves'[j].body = saves[j].body /\ saves'[j].previous = saves[j].previous
  BY <1>3, <1>6 DEF body
<1>9. /\ cache.version < row'.version /\ cache.version \in Nat
      /\ fetch.at = "served" => fetch.row.version < row'.version /\ fetch.row.version \in Nat
      /\ \A j \in 1..MaxSaves : Forms!UnderWay(j) =>
           saves[j].previous.version < row'.version /\ saves[j].previous.version \in Nat
      /\ row'.version \in Nat
  BY <1>1, <1>2, <1>5, RowGrows, Versions
<1>10. CompanyTypeOK'
  <2>1. \A j \in 1..MaxSaves : PatchOK(saves'[j])
    BY <1>4, <1>6 DEF CompanyInv, CompanyTypeOK
  <2>2. undone' \in BOOLEAN
    BY <1>1 DEF CompanyInv, CompanyTypeOK
  <2> QED BY <1>1, <1>5, <1>6, <2>1, <2>2 DEF CompanyInv, CompanyTypeOK, Snapshot, PageOK, PatchOK
<1>11. CopiesOK'
  BY <1>1, <1>7, <1>8, <1>9 DEF CompanyInv, CopiesOK, Older, Calm, Trails, Agrees
<1>12. TypedIsSent'
  <2>1. Calm => undone' = FALSE
    BY <1>1, <1>7 DEF CompanyInv, TypedIsSent, CompanyTypeOK, body
  <2> QED BY <1>1, <1>7, <1>8, <2>1 DEF CompanyInv, TypedIsSent, Calm, Presents
<1>13. ASSUME NEW j \in 1..MaxSaves, Forms!UnderWay(j), CanRollBack(j) PROVE CanRollBack(j)'
  BY <1>1, <1>8, <1>9, <1>13 DEF CanRollBack, Agrees, Trails, Presents
<1>14. AloneOK'
  BY <1>1, <1>7, <1>13 DEF CompanyInv, AloneOK, AllSettled
<1>15. QuietOK'
  BY <1>7 DEF QuietOK, AllSettled
<1> QED BY <1>10, <1>11, <1>12, <1>14, <1>15 DEF CompanyInv

LEMMA OtherAdminStep ==
  ASSUME CompanyInv, NEW f \in Forms!Fields, NEW v \in Values, Forms!OtherAdmin(f, v) PROVE CompanyInv'
<1> DEFINE fields == [row.fields EXCEPT ![f] = v]
<1>1. /\ saves' = saves /\ row' = [fields |-> fields, version |-> row.version + 1]
      /\ undone' = undone /\ cache' = cache /\ fetch' = fetch /\ page' = page /\ typed' = typed
      /\ strange' = TRUE /\ crossed' = crossed /\ formMishaps' = formMishaps
  BY DEF Forms!OtherAdmin
<1>2. Snapshot(row) /\ row.version \in Nat
  BY Versions DEF CompanyInv, CompanyTypeOK
<1>3. fields = [g \in Forms!Fields |-> fields[g]]
  BY <1>2 DEF Snapshot
<1> HIDE DEF fields
<1>4. Snapshot(row') /\ row'.version = row.version + 1
  BY <1>1, <1>2, <1>3 DEF Snapshot
<1>5. /\ cache.version < row'.version /\ cache.version \in Nat
      /\ fetch.at = "served" => fetch.row.version < row'.version /\ fetch.row.version \in Nat
      /\ \A j \in 1..MaxSaves : Forms!UnderWay(j) =>
           saves[j].previous.version < row'.version /\ saves[j].previous.version \in Nat
      /\ row'.version \in Nat
  BY <1>1, <1>2, <1>4, RowGrows, Versions
<1>6. CompanyTypeOK'
  BY <1>1, <1>4 DEF CompanyInv, CompanyTypeOK, Snapshot, PageOK, PatchOK
<1>7. CopiesOK'
  BY <1>1, <1>5 DEF CompanyInv, CopiesOK, Older, Calm, Trails, Agrees, Forms!UnderWay
<1>8. TypedIsSent'
  BY <1>1 DEF CompanyInv, TypedIsSent, Calm, Presents, Forms!UnderWay
<1>9. ASSUME NEW j \in 1..MaxSaves, Forms!UnderWay(j), CanRollBack(j) PROVE CanRollBack(j)'
  BY <1>1, <1>5, <1>9 DEF CanRollBack, Agrees, Trails, Presents
<1>10. AloneOK'
  <2>1. \A j \in 1..MaxSaves : Forms!UnderWay(j)' <=> Forms!UnderWay(j)
    BY <1>1 DEF Forms!UnderWay
  <2>2. Agrees(cache, row)'
    BY <1>1, <1>5 DEF Agrees
  <2> QED BY <1>1, <1>9, <2>1, <2>2 DEF CompanyInv, AloneOK, AllSettled
<1>11. QuietOK'
  BY <1>1 DEF QuietOK
<1> QED BY <1>6, <1>7, <1>8, <1>10, <1>11 DEF CompanyInv

\* What the page shows once c is in the cache.
LEMMA RenderedOK ==
  ASSUME CompanyInv, NEW c, page' = Forms!Rendered(c, page), cache' = c, typed' = typed
  PROVE  /\ PageOK' /\ page'.form = page.form
         /\ page.form # Absent /\ page.key = c.version => page' = page
         /\ page.form # Absent /\ page.key # c.version =>
              \A g \in FieldsOf[page.form] : page'.text[g] = c.fields[g]
<1>1. PageOK
  BY DEF CompanyInv, CompanyTypeOK
<1>2. CASE page.form = Absent \/ c.version = page.key
  BY <1>1, <1>2 DEF Forms!Rendered, Forms!KeyOf, PageOK
<1>3. CASE page.form # Absent /\ c.version # page.key
  <2>1. page' = Forms!Shows(c, page.form) /\ page.form \in DOMAIN FieldsOf
    BY <1>1, <1>3 DEF Forms!Rendered, Forms!KeyOf, PageOK
  <2>2. /\ page'.form = page.form /\ page'.key = c.version
        /\ page'.text = [g \in FieldsOf[page.form] |-> c.fields[g]]
        /\ page' = [form |-> page'.form, key |-> page'.key, save |-> page'.save, text |-> page'.text]
    BY <2>1, ShowsOK
  <2> QED BY <1>3, <2>1, <2>2 DEF PageOK
<1> QED BY <1>2, <1>3

LEMMA SettledStep ==
  ASSUME CompanyInv, NEW i \in 1..MaxSaves, Forms!PatchSettled(i) PROVE CompanyInv'
<1> DEFINE new == [Forms!NoSave EXCEPT !.at = "over"]
           prior == saves[i].previous
<1>1. /\ Forms!UnderWay(i) /\ saves' = [saves EXCEPT ![i] = new] /\ fetch' = [Forms!NoFetch EXCEPT !.at = "sent"]
      /\ row' = row /\ typed' = typed /\ undone' = undone /\ strange' = strange /\ crossed' = crossed
      /\ \/ /\ saves[i].at = "stored" /\ formMishaps' = formMishaps /\ cache' = cache /\ page' = page
         \/ /\ formMishaps' = formMishaps + 1 /\ cache' = prior /\ page' = Forms!Rendered(prior, page)
  BY DEF Forms!PatchSettled, Forms!Again, Forms!Mishap
<1>2. /\ PatchOK(new) /\ new.at = "over" /\ fetch'.at = "sent"
      /\ saves = [j \in 1..MaxSaves |-> saves[j]]
  BY <1>1 DEF CompanyInv, CompanyTypeOK, PatchOK, Forms!NoSave, Forms!NoFetch
<1>3. Snapshot(prior) /\ prior.version \in Nat
  BY <1>1 DEF CompanyInv, CompanyTypeOK, PatchOK, Snapshot, Forms!UnderWay
<1> HIDE DEF new, prior
<1>4. /\ saves' = [j \in 1..MaxSaves |-> saves'[j]]
      /\ \A j \in 1..MaxSaves : saves'[j] = IF j = i THEN new ELSE saves[j]
  BY <1>1, <1>2
<1>5. /\ ~Forms!UnderWay(i)'
      /\ \A j \in 1..MaxSaves : Forms!UnderWay(j)' => Forms!UnderWay(j) /\ saves'[j] = saves[j]
  BY <1>2, <1>4 DEF Forms!UnderWay
<1>6. formMishaps' \in Nat /\ (Calm' => Calm)
  BY <1>1 DEF CompanyInv, CompanyTypeOK, Calm
<1>7. \A j \in 1..MaxSaves : PatchOK(saves'[j])
  BY <1>2, <1>4 DEF CompanyInv, CompanyTypeOK
<1>8. cache' = prior =>
        /\ Snapshot(cache') /\ prior.version <= row.version /\ (Calm => Trails(prior, row))
  BY <1>1, <1>3 DEF CompanyInv, CopiesOK, Older, prior
<1>9. PageOK'
  BY <1>1, RenderedOK DEF CompanyInv, CompanyTypeOK, PageOK
<1>10. CompanyTypeOK'
  BY <1>1, <1>2, <1>4, <1>6, <1>7, <1>8, <1>9 DEF CompanyInv, CompanyTypeOK, Snapshot, PatchOK
<1>11. CopiesOK'
  <2>1. Older(cache)'
    BY <1>1, <1>2, <1>6, <1>8 DEF CompanyInv, CopiesOK, Older, Trails
  <2>2. ASSUME NEW j \in 1..MaxSaves, Forms!UnderWay(j)' PROVE Older(saves[j].previous)'
    BY <1>1, <1>2, <1>5, <1>6, <2>2 DEF CompanyInv, CopiesOK, Older, Trails
  <2> QED BY <1>2, <2>1, <2>2 DEF CopiesOK
<1>12. ASSUME ~crossed PROVE /\ \A j \in 1..MaxSaves : ~Forms!UnderWay(j)'
                             /\ CanRollBack(i)
  BY <1>1, <1>5, <1>12 DEF CompanyInv, AloneOK
<1>13. TypedIsSent'
  <2>1. ASSUME Calm', page.form # Absent, cache' = prior, page' = Forms!Rendered(prior, page), formMishaps' = formMishaps + 1
        PROVE  Presents(cache)'
    <3>1. ~crossed
      BY <1>1, <1>6, <2>1 DEF Calm, CompanyInv, CompanyTypeOK
    <3>2. CanRollBack(i)
      BY <1>12, <3>1
    <3>3. CASE page.key = prior.version
      <4>1. page' = page
        BY <1>1, <2>1, <3>3, RenderedOK
      <4> QED BY <1>1, <2>1, <3>2, <3>3, <4>1 DEF CanRollBack, Presents, prior
    <3>4. CASE page.key # prior.version
      <4>1. page'.form = page.form /\ \A g \in FieldsOf[page.form] : page'.text[g] = prior.fields[g]
        BY <1>1, <2>1, <3>4, RenderedOK
      <4> QED BY <2>1, <4>1 DEF Presents
    <3> QED BY <3>3, <3>4
  <2>2. ASSUME Calm', page'.form # Absent PROVE Presents(cache)'
    <3>1. CASE cache' = cache /\ page' = page
      BY <1>1, <1>6, <2>2, <3>1 DEF CompanyInv, TypedIsSent, Presents
    <3>2. CASE cache' = prior /\ page' = Forms!Rendered(prior, page) /\ formMishaps' = formMishaps + 1
      <4>1. page'.form = page.form BY <1>1, <3>2, RenderedOK
      <4> QED BY <2>1, <2>2, <3>2, <4>1
    <3> QED BY <1>1, <3>1, <3>2
  <2>3. \A j \in 1..MaxSaves : Calm /\ Forms!UnderWay(j)' =>
          \A g \in DOMAIN saves'[j].body : saves'[j].body[g] \in typed'[g]
    BY <1>1, <1>5 DEF CompanyInv, TypedIsSent
  <2> QED BY <1>1, <1>6, <2>2, <2>3 DEF CompanyInv, TypedIsSent
<1>14. AloneOK'
  <2>1. ASSUME ~crossed PROVE Agrees(cache, row)'
    <3>1. CASE cache' = cache /\ saves[i].at = "stored"
      BY <1>1, <1>12, <2>1, <3>1, Versions DEF CanRollBack, Agrees
    <3>2. CASE cache' = prior
      BY <1>1, <1>12, <2>1, <3>2 DEF CanRollBack, Agrees, prior
    <3> QED BY <1>1, <3>1, <3>2
  <2> QED BY <1>1, <1>12, <2>1 DEF AloneOK
<1>15. QuietOK'
  BY <1>2 DEF QuietOK
<1> QED BY <1>10, <1>11, <1>13, <1>14, <1>15 DEF CompanyInv


\* A read is asked for.
LEMMA AskedStep ==
  ASSUME CompanyInv, fetch'.at \in {"none", "sent"}, row' = row, cache' = cache, page' = page, saves' = saves,
         typed' = typed, undone' = undone, crossed' = crossed, strange' \in BOOLEAN,
         formMishaps' \in Nat, Calm' => Calm,
         fetch'.at = "none" => strange' = TRUE
  PROVE  CompanyInv'
<1>1. \A j \in 1..MaxSaves : Forms!UnderWay(j)' <=> Forms!UnderWay(j)
  BY DEF Forms!UnderWay
<1>2. CompanyTypeOK'
  BY DEF CompanyInv, CompanyTypeOK, Snapshot, PageOK, PatchOK
<1>3. CopiesOK'
  BY <1>1 DEF CompanyInv, CopiesOK, Older, Trails
<1>4. TypedIsSent'
  BY <1>1 DEF CompanyInv, TypedIsSent, Presents
<1>5. ASSUME NEW j \in 1..MaxSaves, CanRollBack(j) PROVE CanRollBack(j)'
  BY <1>5 DEF CanRollBack, Agrees, Trails, Presents
<1>6. AloneOK'
  BY <1>1, <1>5 DEF CompanyInv, AloneOK, AllSettled, Agrees
<1>7. QuietOK'
  BY DEF QuietOK
<1> QED BY <1>2, <1>3, <1>4, <1>6, <1>7 DEF CompanyInv

\* The read is answered with the row.
LEMMA ServedStep ==
  ASSUME CompanyInv, fetch' = [at |-> "served", row |-> row], row' = row, cache' = cache, page' = page,
         saves' = saves, typed' = typed, undone' = undone, crossed' = crossed, strange' = FALSE,
         formMishaps' = formMishaps
  PROVE  CompanyInv'
<1>1. \A j \in 1..MaxSaves : Forms!UnderWay(j)' <=> Forms!UnderWay(j)
  BY DEF Forms!UnderWay
<1>2. fetch'.at = "served" /\ fetch'.row = row
  OBVIOUS
<1>3. CompanyTypeOK'
  BY <1>2 DEF CompanyInv, CompanyTypeOK, Snapshot, PageOK, PatchOK
<1>4. CopiesOK'
  BY <1>1, <1>2, Versions DEF CompanyInv, CopiesOK, Older, Trails, Agrees, Calm
<1>5. TypedIsSent'
  BY <1>1 DEF CompanyInv, TypedIsSent, Presents, Calm
<1>6. ASSUME NEW j \in 1..MaxSaves, CanRollBack(j) PROVE CanRollBack(j)'
  BY <1>2, <1>6 DEF CanRollBack, Agrees, Trails, Presents
<1>7. AloneOK'
  BY <1>1, <1>6 DEF CompanyInv, AloneOK, AllSettled, Agrees
<1>8. QuietOK'
  BY <1>2 DEF QuietOK
<1> QED BY <1>3, <1>4, <1>5, <1>7, <1>8 DEF CompanyInv

\* What was read is shown.
LEMMA ShownStep ==
  ASSUME CompanyInv, fetch.at = "served", fetch' = Forms!NoFetch, row' = row, cache' = fetch.row,
         page' = Forms!Rendered(fetch.row, page),
         saves' = saves, typed' = typed, undone' = undone, crossed' = crossed, strange' = strange,
         formMishaps' = formMishaps
  PROVE  CompanyInv'
<1> DEFINE seen == fetch.row
<1>1. /\ \A j \in 1..MaxSaves : Forms!UnderWay(j)' <=> Forms!UnderWay(j)
      /\ (AllSettled' <=> AllSettled) /\ (Calm' <=> Calm)
  BY DEF Forms!UnderWay, AllSettled, Calm
<1>2. fetch'.at = "none"
  BY DEF Forms!NoFetch
<1>3. /\ PageOK' /\ page'.form = page.form
      /\ page.form # Absent /\ page.key = seen.version => page' = page
      /\ page.form # Absent /\ page.key # seen.version =>
           \A g \in FieldsOf[page.form] : page'.text[g] = seen.fields[g]
  BY RenderedOK
<1>4. Snapshot(seen) /\ seen.version <= row.version /\ Agrees(seen, row) /\ cache' = seen
  BY DEF CompanyInv, CompanyTypeOK, CopiesOK
<1>5. page.form # Absent => /\ page.key = cache.version /\ page'.key = seen.version
                            /\ FieldsOf[page.form] \subseteq Forms!Fields
  BY <1>3, <1>4, ShowsOK DEF CompanyInv, CompanyTypeOK, PageOK
<1> HIDE DEF seen
<1>6. CompanyTypeOK'
  BY <1>2, <1>3, <1>4 DEF CompanyInv, CompanyTypeOK, Snapshot, PatchOK
<1>7. CopiesOK'
  BY <1>1, <1>2, <1>4 DEF CompanyInv, CopiesOK, Older, Trails, Agrees
<1>8. ASSUME Calm, page.form # Absent PROVE Presents(cache)'
  <2>1. Presents(cache) /\ Trails(cache, seen)
    BY <1>8 DEF CompanyInv, TypedIsSent, CopiesOK, Older, seen
  <2>2. CASE page.key = seen.version
    BY <1>3, <1>4, <1>5, <1>8, <2>1, <2>2 DEF Presents, Trails
  <2>3. CASE page.key # seen.version
    BY <1>3, <1>4, <1>8, <2>3 DEF Presents
  <2> QED BY <2>2, <2>3
<1>9. TypedIsSent'
  BY <1>1, <1>3, <1>8 DEF CompanyInv, TypedIsSent
<1>10. ASSUME NEW j \in 1..MaxSaves, CanRollBack(j) PROVE CanRollBack(j)'
  <2> DEFINE prior == saves[j].previous
  <2>1. /\ Agrees(prior, row) /\ Agrees(prior, seen)
        /\ saves[j].at = "stored" => prior.version < row.version
        /\ page.form # Absent /\ page.key = prior.version => Presents(prior)
    BY <1>10 DEF CanRollBack, seen
  <2>2. ASSUME page'.form # Absent, page'.key = prior.version PROVE Presents(prior)'
    <3>1. CASE page.key = seen.version
      BY <1>3, <1>5, <2>1, <2>2, <3>1 DEF Presents
    <3>2. CASE page.key # seen.version
      BY <1>3, <1>5, <2>1, <2>2, <3>2 DEF Presents, Agrees
    <3> QED BY <3>1, <3>2
  <2>3. Trails(cache, prior)'
    BY <1>4, <2>1 DEF Trails, Agrees
  <2> QED BY <1>2, <1>4, <2>1, <2>2, <2>3 DEF CanRollBack, Agrees
<1>11. AloneOK'
  BY <1>1, <1>4, <1>10 DEF CompanyInv, AloneOK, Agrees
<1>12. QuietOK'
  BY <1>1, <1>2, <1>4 DEF CompanyInv, QuietOK, seen
<1> QED BY <1>6, <1>7, <1>9, <1>11, <1>12 DEF CompanyInv

LEMMA CompanyStepOK == ASSUME CompanyInv, Forms!CompanyStep PROVE CompanyInv'
<1>1. CASE Forms!ReadRow
  <2>1. /\ row' = row /\ saves' = saves /\ typed' = typed /\ undone' = undone /\ crossed' = crossed
        /\ formMishaps' = formMishaps /\ strange \in BOOLEAN /\ formMishaps \in Nat
    BY <1>1 DEF Forms!ReadRow, CompanyInv, CompanyTypeOK
  <2>2. CASE fetch.at = "none" /\ fetch' = Forms!Again(TRUE) /\ UNCHANGED <<cache, page, strange>>
    <3>1. /\ fetch'.at = "sent" /\ cache' = cache /\ page' = page /\ strange' = strange
          /\ Calm' => Calm
      BY <2>1, <2>2 DEF Forms!Again, Forms!NoFetch, Calm
    <3> QED BY <2>1, <3>1, AskedStep
  <2>3. CASE /\ fetch.at = "sent" /\ fetch' = [at |-> "served", row |-> row] /\ strange' = FALSE
             /\ UNCHANGED <<cache, page>>
    BY <2>1, <2>3, ServedStep
  <2>4. CASE /\ fetch.at = "served" /\ fetch' = Forms!NoFetch /\ cache' = fetch.row
             /\ page' = Forms!Rendered(fetch.row, page) /\ UNCHANGED strange
    BY <2>1, <2>4, ShownStep
  <2> QED BY <1>1, <2>2, <2>3, <2>4 DEF Forms!ReadRow
<1>2. CASE Forms!ReadFails
  <2>1. /\ fetch'.at = "none" /\ row' = row /\ cache' = cache /\ page' = page /\ saves' = saves /\ typed' = typed
        /\ undone' = undone /\ crossed' = crossed /\ strange' = TRUE /\ formMishaps' = formMishaps + 1
    BY <1>2 DEF Forms!ReadFails, Forms!Mishap, Forms!NoFetch
  <2>2. formMishaps' \in Nat /\ (Calm' => Calm)
    BY <2>1 DEF CompanyInv, CompanyTypeOK, Calm
  <2> QED BY <2>1, <2>2, AskedStep
<1>3. ASSUME NEW f \in Forms!Fields, NEW v \in Values, Forms!TypeField(f, v) \/ Forms!OtherAdmin(f, v)
      PROVE  CompanyInv'
  BY <1>3, TypeFieldStep, OtherAdminStep
<1>4. ASSUME NEW i \in 1..MaxSaves, Forms!SaveForm(i) \/ Forms!StorePatch(i) \/ Forms!PatchSettled(i)
      PROVE  CompanyInv'
  BY <1>4, SaveFormStep, StorePatchStep, SettledStep
<1> QED BY <1>1, <1>2, <1>3, <1>4, OpenFormStep DEF Forms!CompanyStep

LEMMA CompanyStays ==
  ASSUME CompanyInv, UNCHANGED <<row, cache, fetch, page, saves, typed, undone, strange, crossed>>,
         formMishaps' = formMishaps \/ formMishaps' = formMishaps + 1
  PROVE  CompanyInv'
<1>1. /\ row' = row /\ cache' = cache /\ fetch' = fetch /\ page' = page /\ saves' = saves /\ typed' = typed
      /\ undone' = undone /\ strange' = strange /\ crossed' = crossed
  OBVIOUS
<1>2. formMishaps' \in Nat /\ (Calm' => Calm)
  BY <1>1 DEF CompanyInv, CompanyTypeOK, Calm
<1>3. \A j \in 1..MaxSaves : Forms!UnderWay(j)' <=> Forms!UnderWay(j)
  BY <1>1 DEF Forms!UnderWay
<1>4. CompanyTypeOK'
  BY <1>1, <1>2 DEF CompanyInv, CompanyTypeOK, Snapshot, PageOK, PatchOK
<1>5. CopiesOK'
  BY <1>1, <1>2, <1>3 DEF CompanyInv, CopiesOK, Older, Trails, Agrees
<1>6. TypedIsSent'
  BY <1>1, <1>2, <1>3 DEF CompanyInv, TypedIsSent, Presents
<1>7. ASSUME NEW j \in 1..MaxSaves, CanRollBack(j) PROVE CanRollBack(j)'
  BY <1>1, <1>7 DEF CanRollBack, Agrees, Trails, Presents
<1>8. AloneOK' /\ QuietOK'
  BY <1>1, <1>3, <1>7 DEF CompanyInv, AloneOK, AllSettled, Agrees, QuietOK
<1> QED BY <1>4, <1>5, <1>6, <1>8 DEF CompanyInv

-----------------------------------------------------------------------------
(* The forms together                                                        *)

\* Outside the page of the factors none of their forms is open.
FormsInv ==
  /\ CompanyInv /\ FactorInv /\ KitInv
  /\ scene # "factors" => factorForm = Absent /\ factorSave = Absent

LEMMA KitStepOK == ASSUME KitInv, Forms!KitStep PROVE KitInv' /\ shown' \in Branches
<1>1. ASSUME NEW b \in Branches, Forms!PickBranch(b) \/ Forms!ReadRate(b) PROVE KitInv'
  BY <1>1, PickStep, ReadRateStep
<1>2. ASSUME NEW v \in Values \cup {Blank}, Forms!TypeRate(v) PROVE KitInv'
  BY <1>2, TypeRateStep
<1>3. ASSUME NEW i \in 1..MaxSaves, Forms!Blur(i) \/ Forms!StoreRate(i) \/ Forms!RateSettled(i)
      PROVE  KitInv'
  BY <1>3, BlurStep, StoreRateStep, RateSettledStep
<1>4. KitInv'
  BY <1>1, <1>2, <1>3 DEF Forms!KitStep
<1> QED BY <1>4 DEF KitInv, KitTypeOK

\* What each page leaves alone.
LEMMA CompanyLeaves ==
  ASSUME Forms!CompanyStep
  PROVE  UNCHANGED <<override, listed, factorForm, factorSave, promised, rate, known, shown, kit, blurs>>
BY DEF Forms!CompanyStep, Forms!ReadRow, Forms!ReadFails, Forms!OpenForm, Forms!TypeField, Forms!OtherAdmin,
       Forms!SaveForm, Forms!StorePatch, Forms!PatchSettled, Forms!factorVars, Forms!kitVars

LEMMA FactorLeaves ==
  ASSUME FactorTypeOK, Forms!FactorStep
  PROVE  /\ UNCHANGED <<row, cache, fetch, page, saves, typed, undone, strange, crossed,
                        rate, known, shown, kit, blurs>>
         /\ formMishaps' = formMishaps \/ formMishaps' = formMishaps + 1
<1>1. CASE Forms!FactorsSettled
  <2>1. UNCHANGED <<row, cache, fetch, page, saves, typed, undone, strange, crossed, rate, known, shown, kit, blurs>>
    BY <1>1 DEF Forms!FactorsSettled, Forms!companyVars, Forms!kitVars
  <2>2. CASE factorSave.at = "stored"
    BY <1>1, <2>1, <2>2 DEF Forms!FactorsSettled
  <2>3. CASE factorSave.at = "sent"
    BY <1>1, <2>1, <2>3 DEF Forms!FactorsSettled, Forms!Mishap
  <2> QED BY <1>1, <2>2, <2>3 DEF Forms!FactorsSettled, FactorTypeOK
<1> QED
  BY <1>1
  DEF Forms!FactorStep, Forms!OpenFactors, Forms!LeaveFactors, Forms!SaveFactors, Forms!StoreFactors,
      Forms!ListFactors, Forms!TypeFactor, Forms!companyVars, Forms!kitVars

LEMMA KitLeaves ==
  ASSUME Forms!KitStep
  PROVE  /\ UNCHANGED <<row, cache, fetch, page, saves, typed, undone, strange, crossed,
                        override, listed, factorForm, factorSave, promised>>
         /\ formMishaps' = formMishaps \/ formMishaps' = formMishaps + 1
BY DEF Forms!KitStep, Forms!PickBranch, Forms!ReadRate, Forms!TypeRate, Forms!Blur, Forms!StoreRate,
       Forms!RateSettled, Forms!Mishap, Forms!companyVars, Forms!factorVars

LEMMA FormsStart == ASSUME SettingsInit PROVE FormsInv
BY CompanyStarts, FactorsStart, KitStarts DEF SettingsInit, FormsInv, Forms!Init

LEMMA FormsStep ==
  ASSUME FormsInv, [SettingsNext]_<<scene, vars, lists, pages>> PROVE FormsInv'
<1>1. scene' = scene /\ KitInv /\ shown \in Branches
  BY DEF FormsInv, SettingsNext, KitInv, KitTypeOK
<1>2. CASE UNCHANGED pages
  <2>1. /\ UNCHANGED <<row, cache, fetch, page, saves, typed, undone, strange, crossed>>
        /\ UNCHANGED <<override, listed, factorForm, factorSave, promised>>
        /\ UNCHANGED <<rate, known, shown, kit, blurs>> /\ formMishaps' = formMishaps
        /\ factorForm' = factorForm /\ factorSave' = factorSave /\ shown' = shown
    BY <1>2 DEF pages
  <2>2. CompanyInv' BY <2>1, CompanyStays DEF FormsInv
  <2>3. FactorInv' BY <1>1, <2>1, FactorsStay DEF FormsInv
  <2>4. KitInv' BY <2>1, KitStays DEF FormsInv
  <2> QED BY <1>1, <2>1, <2>2, <2>3, <2>4 DEF FormsInv
<1>3. CASE scene = "company" /\ Forms!CompanyStep
  <2>1. /\ UNCHANGED <<override, listed, factorForm, factorSave, promised>>
        /\ UNCHANGED <<rate, known, shown, kit, blurs>>
        /\ factorForm' = factorForm /\ factorSave' = factorSave /\ shown' = shown
    BY <1>3, CompanyLeaves
  <2>2. CompanyInv' BY <1>3, CompanyStepOK DEF FormsInv
  <2>3. FactorInv' BY <1>1, <2>1, FactorsStay DEF FormsInv
  <2>4. KitInv' BY <2>1, KitStays DEF FormsInv
  <2> QED BY <1>1, <2>1, <2>2, <2>3, <2>4 DEF FormsInv
<1>4. CASE scene = "factors" /\ Forms!FactorStep
  <2>1. /\ UNCHANGED <<row, cache, fetch, page, saves, typed, undone, strange, crossed>>
        /\ UNCHANGED <<rate, known, shown, kit, blurs>>
        /\ formMishaps' = formMishaps \/ formMishaps' = formMishaps + 1
    BY <1>4, FactorLeaves DEF FormsInv, FactorInv
  <2>2. CompanyInv' BY <2>1, CompanyStays DEF FormsInv
  <2>3. FactorInv' BY <1>4, FactorStepOK DEF FormsInv
  <2>4. KitInv' BY <2>1, KitStays DEF FormsInv
  <2> QED BY <1>1, <1>4, <2>2, <2>3, <2>4 DEF FormsInv
<1>5. CASE scene = "kit" /\ Forms!KitStep
  <2>1. /\ UNCHANGED <<row, cache, fetch, page, saves, typed, undone, strange, crossed>>
        /\ UNCHANGED <<override, listed, factorForm, factorSave, promised>>
        /\ factorForm' = factorForm /\ factorSave' = factorSave
        /\ formMishaps' = formMishaps \/ formMishaps' = formMishaps + 1
    BY <1>5, KitLeaves
  <2>2. CompanyInv' BY <2>1, CompanyStays DEF FormsInv
  <2>3. KitInv' /\ shown' \in Branches BY <1>1, <1>5, KitStepOK
  <2>4. factorForm = Absent /\ factorSave = Absent BY <1>5 DEF FormsInv
  <2>5. FactorInv' BY <2>1, <2>3, <2>4, FactorsStay DEF FormsInv
  <2> QED BY <1>1, <2>1, <2>2, <2>3, <2>4, <2>5 DEF FormsInv
<1> QED BY <1>2, <1>3, <1>4, <1>5 DEF SettingsNext

LEMMA FormsAreTrueIn == ASSUME FormsInv PROVE FormsAreTrue
<1>1. Forms!UntouchedStay
  BY DEF FormsInv, CompanyInv, TypedIsSent, Calm, CompanyTypeOK, Forms!UntouchedStay
<1>2. Forms!CacheIsTrue
  <2>1. (\A i \in 1..MaxSaves : saves[i].at \in {"idle", "over"}) => AllSettled
    BY DEF AllSettled, Forms!UnderWay
  <2> QED BY <2>1 DEF FormsInv, CompanyInv, QuietOK, Forms!CacheIsTrue
<1>3. Forms!MarkIsTrue
  BY DEF FormsInv, KitInv, KitKnows, Forms!MarkIsTrue
<1>4. Forms!FactorsSurvive
  BY DEF FormsInv, FactorInv
<1> QED BY <1>1, <1>2, <1>3, <1>4 DEF FormsAreTrue

\* A form of company settings changes nothing that was not typed into it, unless a save
\* failed after two were under way at once; what is shown in the end is what is stored; the
\* mark beside a rate is of the rate that is stored; and a factor that was saved stays in
\* effect, although a save replaces the whole override of its branch.
THEOREM FormsHold == SettingsSpec => []FormsAreTrue
<1>1. SettingsInit => FormsInv BY FormsStart
<1>2. FormsInv /\ [SettingsNext]_<<scene, vars, lists, pages>> => FormsInv' BY FormsStep
<1>3. FormsInv => FormsAreTrue BY FormsAreTrueIn
<1> QED BY <1>1, <1>2, <1>3, PTL DEF SettingsSpec

-----------------------------------------------------------------------------
(* A row of the lists and its form                                           *)

\* A form that still shows the list it was opened on differs from it in what was typed.
FormFollowsList ==
  rowForm.open /\ ~rowForm.renewed =>
    \A f \in Rows!Fields \ rowForm.touched : rowForm.typed[f] = Rows!Shown(list.fields[f])

\* What a PATCH under way carries: the values typed, and nothing else from such a form.
BodyOK(s) ==
  s.at = "sent" =>
    /\ \A f \in DOMAIN s.body : f \in Rows!Fields /\ s.body[f] = Rows!Sent(f, s.typed[f]) /\ s.typed[f] # Null
    /\ ~s.renewed => DOMAIN s.body \subseteq s.touched

RowForm ==
  /\ rowForm = [open |-> rowForm.open, typed |-> rowForm.typed, touched |-> rowForm.touched,
                renewed |-> rowForm.renewed, save |-> rowForm.save]
  /\ rowForm.typed = [f \in Rows!Fields |-> rowForm.typed[f]]
  /\ \A f \in Rows!Fields : rowForm.typed[f] # Null
  /\ rowForm.open \in BOOLEAN /\ rowForm.renewed \in BOOLEAN

SaveShape(s) ==
  s = [at |-> s.at, body |-> s.body, touched |-> s.touched, renewed |-> s.renewed, typed |-> s.typed]

ListRowShape ==
  /\ listRow = [fields |-> listRow.fields, active |-> listRow.active]
  /\ listRow.fields = [f \in Rows!Fields |-> listRow.fields[f]]
  /\ wanted = [f \in Rows!Fields |-> wanted[f]]
  /\ rowSaves = [i \in 1..MaxSaves |-> rowSaves[i]]
  /\ \A i \in 1..MaxSaves : SaveShape(rowSaves[i])

ListRowInv ==
  /\ ListRowShape /\ RowForm /\ FormFollowsList
  /\ \A i \in 1..MaxSaves : BodyOK(rowSaves[i])
  /\ Rows!SavedFormIsStored /\ Rows!OthersSurvive

-----------------------------------------------------------------------------
(* The pictures of a row                                                     *)

PictureTask ==
  [kind : {"none", "upload", "remove", "move", "over"}, key : Keys \cup {Absent},
   at : {"idle", "read", "store", "write", "tidy", "done"},
   order : Seq(Keys), prior : Seq(Keys), heard : BOOLEAN]

PicturesTypeOK ==
  /\ pictures \in Seq(Keys) /\ photos \in Seq(Keys) /\ listFetch.keys \in Seq(Keys)
  /\ listFetch = [at |-> listFetch.at, row |-> listFetch.row, keys |-> listFetch.keys]
  /\ tasks \in [1..MaxPictures -> PictureTask]

\* Requests are asked one after the other and carried out in that order.
InTurn ==
  \A i, j \in 1..MaxPictures : i < j =>
    /\ tasks[j] # Rows!NoTask => tasks[i] # Rows!NoTask
    /\ Rows!Running(i) => tasks[j].at \in {"idle", "read"}

\* What a request is for, and how far it has come.
TaskOK(t) ==
  /\ t.kind = "none" => t = Rows!NoTask
  /\ t.at # "idle" => t.kind \in {"upload", "remove", "move"}
  /\ t.kind = "move" => section = "portfolio"
  /\ t.kind = "upload" => t.key \in Keys
  /\ t.kind = "remove" => t.key \in unwanted
  /\ t.at = "store" => t.kind = "upload"
  /\ t.at \in {"store", "write"} => t.prior = pictures
  /\ t.at = "tidy" => pictures = Rows!NewKeys(t)
  /\ t.at \in {"write", "tidy"} /\ t.kind = "upload" => t.key \in bucket
  /\ Rows!Portrait => Len(t.prior) \in {0, 1}

\* A portrait is one picture at most, and its object is there.
PortraitOK == Rows!Portrait => Len(pictures) \in {0, 1} /\ Rows!ToSet(pictures) \subseteq bucket

\* A move under way has in its order, or has missed, every photo it may meet.
MoveKnows(i) ==
  tasks[i].kind = "move" /\ Rows!Running(i) =>
    /\ kept \subseteq Rows!ToSet(tasks[i].order) \cup missed
    /\ \A j \in 1..MaxPictures : j < i => tasks[j].key \in Rows!ToSet(tasks[i].order) \cup missed

\* Every photo that was written was asked for.
KeptAsked == \A k \in kept : \E j \in 1..MaxPictures : tasks[j] # Rows!NoTask /\ tasks[j].key = k

PicturesInv ==
  /\ PicturesTypeOK /\ InTurn /\ PortraitOK /\ KeptAsked /\ Rows!PhotosStay
  /\ \A i \in 1..MaxPictures : TaskOK(tasks[i]) /\ MoveKnows(i)

-----------------------------------------------------------------------------
(* The insurance document                                                    *)

DocsTypeOK ==
  /\ docs \in [1..MaxDocs -> [at : {"none", "active", "inactive"}, past : BOOLEAN]]
  /\ admins \in [Admins -> [seen : BOOLEAN, past : BOOLEAN, kind : {"license", "insurance"},
                           at : {"idle", "sent", "insert", "answer"}]]

\* Who is about to insert found no document, and nobody does beside it.
InsertAlone ==
  \A w \in Admins : admins[w].at = "insert" =>
    Rows!Active = {} /\ \A v \in Admins : admins[v].at = "insert" => v = w

DocsInv == DocsTypeOK /\ InsertAlone /\ \A d, e \in Rows!Active : d = e
RowsInv == ListRowInv /\ PicturesInv /\ DocsInv

-----------------------------------------------------------------------------
(* What the edits of an array of keys do to it.                              *)

LEMMA AppendKey ==
  ASSUME NEW s \in Seq(Keys), NEW k \in Keys
  PROVE Append(s, k) \in Seq(Keys) /\ Rows!ToSet(Append(s, k)) = Rows!ToSet(s) \cup {k}
<1>1. Append(s, k) \in Seq(Keys) OBVIOUS
<1>2. DOMAIN s = 1..Len(s) /\ DOMAIN Append(s, k) = 1..(Len(s) + 1) /\ Len(s) \in Nat OBVIOUS
<1>3. \A n \in 1..Len(s) : Append(s, k)[n] = s[n] OBVIOUS
<1>4. Append(s, k)[Len(s) + 1] = k OBVIOUS
<1>5. 1..(Len(s) + 1) = (1..Len(s)) \cup {Len(s) + 1} BY <1>2
<1>6. \A x : x \in Rows!ToSet(Append(s, k)) <=> x \in Rows!ToSet(s) \cup {k}
  <2> TAKE x
  <2>1. x \in Rows!ToSet(Append(s, k)) <=> \E n \in (1..Len(s)) \cup {Len(s) + 1} : Append(s, k)[n] = x
    BY <1>2, <1>5 DEF Rows!ToSet
  <2>2. x \in Rows!ToSet(s) <=> \E n \in 1..Len(s) : s[n] = x BY <1>2 DEF Rows!ToSet
  <2> QED BY <2>1, <2>2, <1>3, <1>4
<1> QED BY <1>1, <1>6

LEMMA MovedKeeps ==
  ASSUME NEW s \in Seq(Keys), NEW a \in DOMAIN s, NEW b \in DOMAIN s
  PROVE Rows!Moved(s, a, b) \in Seq(Keys) /\ Rows!ToSet(s) \subseteq Rows!ToSet(Rows!Moved(s, a, b))
<1> DEFINE m == Rows!Moved(s, a, b)
<1>1. m \in Seq(Keys) /\ DOMAIN m = DOMAIN s BY DEF Rows!Moved
<1>2. m[a] = s[b] /\ m[b] = s[a] BY DEF Rows!Moved
<1>3. \A n \in DOMAIN s \ {a, b} : m[n] = s[n] BY DEF Rows!Moved
<1> HIDE DEF m
<1>4. ASSUME NEW n \in DOMAIN s PROVE \E l \in DOMAIN m : m[l] = s[n]
  <2>1. CASE n = a BY <2>1, <1>1, <1>2
  <2>2. CASE n = b BY <2>2, <1>1, <1>2
  <2>3. CASE n \notin {a, b} BY <2>3, <1>1, <1>3
  <2> QED BY <2>1, <2>2, <2>3
<1>5. Rows!ToSet(s) \subseteq Rows!ToSet(m) BY <1>4 DEF Rows!ToSet
<1> QED BY <1>1, <1>5 DEF m

LEMMA RemovedAt ==
  ASSUME NEW s \in Seq(Keys), NEW p \in DOMAIN s
  PROVE /\ Rows!RemoveAt(s, p) \in Seq(Keys) /\ Len(Rows!RemoveAt(s, p)) = Len(s) - 1
        /\ \A n \in DOMAIN s : n < p => Rows!RemoveAt(s, p)[n] = s[n]
        /\ \A n \in DOMAIN s : n > p => Rows!RemoveAt(s, p)[n - 1] = s[n]
<1> DEFINE h == SubSeq(s, 1, p - 1)
           t == SubSeq(s, p + 1, Len(s))
<1>1. p \in 1..Len(s) /\ Len(s) \in Nat /\ DOMAIN s = 1..Len(s) OBVIOUS
<1>2. h \in Seq(Keys) /\ Len(h) = p - 1 /\ \A n \in 1..(p - 1) : h[n] = s[n] BY <1>1
<1>3. t \in Seq(Keys) /\ Len(t) = Len(s) - p /\ \A n \in 1..(Len(s) - p) : t[n] = s[n + p] BY <1>1
<1>4. Rows!RemoveAt(s, p) = h \o t BY DEF Rows!RemoveAt
<1> HIDE DEF h, t
<1>5. h \o t \in Seq(Keys) /\ Len(h \o t) = Len(s) - 1
  <2>1. h \in Seq(Keys) /\ t \in Seq(Keys) BY <1>2, <1>3
  <2>3. h \o t \in Seq(Keys) /\ Len(h \o t) = Len(h) + Len(t) BY <2>1
  <2>2. Len(h) + Len(t) = Len(s) - 1 BY <1>1, <1>2, <1>3
  <2> QED BY <2>3, <2>2
<1>6. \A n \in DOMAIN s : n < p => (h \o t)[n] = s[n] BY <1>1, <1>2, <1>3
<1>7. \A n \in DOMAIN s : n > p => (h \o t)[n - 1] = s[n]
  <2> TAKE n \in DOMAIN s
  <2> HAVE n > p
  <2>1. n - 1 - (p - 1) = n - p /\ n - p \in 1..(Len(s) - p) /\ n - 1 \in 1..(Len(s) - 1) /\ n - 1 > p - 1 BY <1>1
  <2>2. (h \o t)[n - 1] = t[n - p] BY <2>1, <1>1, <1>2, <1>3
  <2>3. t[n - p] = s[n - p + p] /\ n - p + p = n BY <2>1, <1>1, <1>3
  <2> QED BY <2>2, <2>3
<1> QED BY <1>4, <1>5, <1>6, <1>7

LEMMA WithoutKeyKeeps ==
  ASSUME NEW s \in Seq(Keys), NEW k
  PROVE /\ Rows!WithoutKey(s, k) \in Seq(Keys)
        /\ Rows!ToSet(s) \ {k} \subseteq Rows!ToSet(Rows!WithoutKey(s, k))
        /\ Len(s) \in {0, 1} => Len(Rows!WithoutKey(s, k)) \in {0, 1} /\ k \notin Rows!ToSet(Rows!WithoutKey(s, k))
                               /\ Rows!ToSet(Rows!WithoutKey(s, k)) \subseteq Rows!ToSet(s)
<1>1. CASE k \notin Rows!ToSet(s) BY <1>1 DEF Rows!WithoutKey
<1>2. CASE k \in Rows!ToSet(s)
  <2> DEFINE p == CHOOSE n \in DOMAIN s : s[n] = k
             r == Rows!RemoveAt(s, p)
  <2>1. p \in DOMAIN s /\ s[p] = k BY <1>2 DEF Rows!ToSet
  <2>2. Rows!WithoutKey(s, k) = r BY <1>2 DEF Rows!WithoutKey
  <2> HIDE DEF p
  <2>3. /\ r \in Seq(Keys) /\ Len(r) = Len(s) - 1
        /\ \A n \in DOMAIN s : n < p => r[n] = s[n]
        /\ \A n \in DOMAIN s : n > p => r[n - 1] = s[n]
    BY <2>1, RemovedAt
  <2> HIDE DEF r
  <2>4. DOMAIN s = 1..Len(s) /\ DOMAIN r = 1..(Len(s) - 1) /\ Len(s) \in Nat /\ p \in 1..Len(s) BY <2>1, <2>3
  <2>5. ASSUME NEW n \in DOMAIN s, s[n] # k PROVE \E l \in DOMAIN r : r[l] = s[n]
    <3>1. n # p BY <2>1, <2>5
    <3>2. CASE n < p
      <4>1. n \in DOMAIN r BY <3>2, <2>4
      <4> QED BY <4>1, <3>2, <2>3
    <3>3. CASE n > p
      <4>1. n - 1 \in DOMAIN r BY <3>3, <2>4
      <4> QED BY <4>1, <3>3, <2>3
    <3> QED BY <3>1, <3>2, <3>3, <2>4
  <2>6. Rows!ToSet(s) \ {k} \subseteq Rows!ToSet(r) BY <2>5 DEF Rows!ToSet
  <2>7. ASSUME Len(s) \in {0, 1} PROVE Len(r) = 0 /\ Rows!ToSet(r) = {}
    <3>1. Len(s) = 1 BY <2>4, <2>7
    <3>2. DOMAIN r = {} BY <2>4, <3>1
    <3> QED BY <3>1, <3>2, <2>3 DEF Rows!ToSet
  <2> QED BY <2>2, <2>3, <2>6, <2>7
<1> QED BY <1>1, <1>2

-----------------------------------------------------------------------------
(* The steps of the windows that add an insurance document                   *)

LEMMA DocsStart == ASSUME Rows!Init PROVE DocsInv
<1>1. docs = [d \in 1..MaxDocs |-> [at |-> "none", past |-> FALSE]] /\ admins = [w \in Admins |-> Rows!NoAdmin]
  BY DEF Rows!Init
<1>2. Rows!NoAdmin = [seen |-> FALSE, past |-> FALSE, kind |-> "license", at |-> "idle"] BY DEF Rows!NoAdmin
<1>3. DocsTypeOK BY <1>1, <1>2 DEF DocsTypeOK
<1>4. Rows!Active = {} BY <1>1 DEF Rows!Active
<1> QED BY <1>1, <1>2, <1>3, <1>4 DEF DocsInv, InsertAlone

\* A window that does not come to insert disturbs nothing.
LEMMA WindowStep ==
  ASSUME DocsInv, docs' = docs, NEW w \in Admins, NEW a, admins' = [admins EXCEPT ![w] = a],
         a \in [seen : BOOLEAN, past : BOOLEAN, kind : {"license", "insurance"},
                at : {"idle", "sent", "insert", "answer"}],
         a.at = "insert" =>
           \/ admins[w].at = "insert"
           \/ Rows!Active = {} /\ \A x \in Admins : admins[x].at # "insert"
  PROVE DocsInv'
<1>1. DocsTypeOK' BY DEF DocsInv, DocsTypeOK
<1>2. Rows!Active' = Rows!Active BY DEF Rows!Active
<1>3. InsertAlone'
  <2> SUFFICES ASSUME NEW v \in Admins, admins'[v].at = "insert"
               PROVE Rows!Active = {} /\ \A x \in Admins : admins'[x].at = "insert" => x = v
    BY <1>2 DEF InsertAlone
  <2>1. admins'[w] = a /\ \A x \in Admins \ {w} : admins'[x] = admins[x] BY DEF DocsInv, DocsTypeOK
  <2> QED BY <2>1 DEF DocsInv, InsertAlone
<1> QED BY <1>1, <1>2, <1>3 DEF DocsInv

LEMMA InsertDocStep == ASSUME DocsInv, NEW w \in Admins, Rows!InsertDoc(w) PROVE DocsInv'
<1>1. admins[w].at = "insert" BY DEF Rows!InsertDoc
<1>2. PICK d \in DOMAIN docs : docs[d].at = "none" /\ docs' = [docs EXCEPT ![d].at = "active"]
  BY DEF Rows!InsertDoc
<1> DEFINE a == [Rows!NoAdmin EXCEPT !.past = admins[w].past, !.seen = admins[w].seen]
           Window == [seen : BOOLEAN, past : BOOLEAN, kind : {"license", "insurance"},
                      at : {"idle", "sent", "insert", "answer"}]
<1>3. admins' = [admins EXCEPT ![w] = a] /\ a \in Window /\ a.at = "idle"
  <2>1. admins' = [admins EXCEPT ![w] = a] BY DEF Rows!InsertDoc, Rows!Window
  <2>2. Rows!NoAdmin \in Window /\ Rows!NoAdmin.at = "idle" BY DEF Rows!NoAdmin
  <2>3. admins[w].past \in BOOLEAN /\ admins[w].seen \in BOOLEAN BY DEF DocsInv, DocsTypeOK
  <2>4. \A x, y \in BOOLEAN : /\ [Rows!NoAdmin EXCEPT !.past = x, !.seen = y] \in Window
                             /\ [Rows!NoAdmin EXCEPT !.past = x, !.seen = y].at = "idle"
    BY <2>2
  <2> QED BY <2>1, <2>3, <2>4
<1> HIDE DEF a
<1>4. DocsTypeOK' BY <1>2, <1>3 DEF DocsInv, DocsTypeOK
<1>5. \A v \in Admins : admins'[v].at # "insert"
  BY <1>1, <1>3 DEF DocsInv, DocsTypeOK, InsertAlone
<1>6. Rows!Active = {} BY <1>1 DEF DocsInv, InsertAlone
<1>7. \A e \in DOMAIN docs : e # d => docs'[e] = docs[e] BY <1>2 DEF DocsInv, DocsTypeOK
<1>8. DOMAIN docs' = DOMAIN docs BY <1>2 DEF DocsInv, DocsTypeOK
<1>9. \A e \in Rows!Active' : e = d BY <1>6, <1>7, <1>8 DEF Rows!Active
<1> QED BY <1>4, <1>5, <1>9 DEF DocsInv, InsertAlone

LEMMA DocChangesStep == ASSUME DocsInv, NEW d \in DOMAIN docs, Rows!DocChanges(d) PROVE DocsInv'
<1>1. /\ docs[d].at = "active" /\ admins' = admins
      /\ \/ docs' = [docs EXCEPT ![d].at = "inactive"]
         \/ docs' = [docs EXCEPT ![d].past = TRUE]
  BY DEF Rows!DocChanges
<1>2. DocsTypeOK'
  <2>1. CASE docs' = [docs EXCEPT ![d].at = "inactive"] BY <1>1, <2>1 DEF DocsInv, DocsTypeOK
  <2>2. CASE docs' = [docs EXCEPT ![d].past = TRUE] BY <1>1, <2>2 DEF DocsInv, DocsTypeOK
  <2> QED BY <1>1, <2>1, <2>2
<1>3. \A e \in DOMAIN docs' : e \in DOMAIN docs /\ (docs'[e].at = "active" => docs[e].at = "active")
  BY <1>1 DEF DocsInv, DocsTypeOK
<1>4. Rows!Active' \subseteq Rows!Active BY <1>3 DEF Rows!Active
<1> QED BY <1>1, <1>2, <1>4 DEF DocsInv, InsertAlone

LEMMA DocStepOK == ASSUME DocsInv, Rows!DocStep PROVE DocsInv'
<1>1. ASSUME NEW d \in DOMAIN docs, Rows!DocChanges(d) PROVE DocsInv' BY <1>1, DocChangesStep
<1>2. ASSUME NEW w \in Admins, Rows!InsertDoc(w) PROVE DocsInv' BY <1>2, InsertDocStep
<1>3. ASSUME NEW w \in Admins,
             \/ Rows!ReadDocs(w) \/ Rows!ChooseInsurance(w) \/ Rows!SendDoc(w) \/ Rows!CheckDoc(w)
             \/ Rows!DocRefused(w)
      PROVE DocsInv'
  <2> DEFINE Window == [seen : BOOLEAN, past : BOOLEAN, kind : {"license", "insurance"},
                        at : {"idle", "sent", "insert", "answer"}]
  <2>1. admins[w] \in Window BY DEF DocsInv, DocsTypeOK
  <2>2. CASE Rows!ReadDocs(w)
    <3>1. PICK past \in BOOLEAN :
            admins' = [admins EXCEPT ![w] = [admins[w] EXCEPT !.seen = Rows!Listed(past) \cap Rows!Active # {},
                                                              !.past = past]]
      BY <2>2 DEF Rows!ReadDocs, Rows!Window
    <3>2. docs' = docs BY <2>2 DEF Rows!ReadDocs
    <3>3. ASSUME NEW b \in BOOLEAN PROVE [admins[w] EXCEPT !.seen = b, !.past = past] \in Window
                 /\ [admins[w] EXCEPT !.seen = b, !.past = past].at = admins[w].at
      BY <2>1
    <3>4. (Rows!Listed(past) \cap Rows!Active # {}) \in BOOLEAN OBVIOUS
    <3> QED BY <3>1, <3>2, <3>3, <3>4, WindowStep
  <2>3. CASE Rows!ChooseInsurance(w)
    <3>1. admins' = [admins EXCEPT ![w] = [admins[w] EXCEPT !.kind = "insurance"]] /\ docs' = docs
          /\ admins[w].at = "idle"
      BY <2>3 DEF Rows!ChooseInsurance, Rows!Window
    <3>2. [admins[w] EXCEPT !.kind = "insurance"] \in Window
          /\ [admins[w] EXCEPT !.kind = "insurance"].at = admins[w].at BY <2>1
    <3> QED BY <3>1, <3>2, WindowStep
  <2>4. CASE Rows!SendDoc(w) \/ Rows!DocRefused(w)
    <3>1. PICK at \in {"sent", "idle"} : admins' = [admins EXCEPT ![w] = [admins[w] EXCEPT !.at = at]] /\ docs' = docs
      BY <2>4 DEF Rows!SendDoc, Rows!DocRefused, Rows!Window
    <3>2. [admins[w] EXCEPT !.at = at] \in Window /\ [admins[w] EXCEPT !.at = at].at # "insert" BY <2>1
    <3> QED BY <3>1, <3>2, WindowStep
  <2>5. CASE Rows!CheckDoc(w)
    <3>1. /\ \A x \in Admins : admins[x].at # "insert"
          /\ docs' = docs
          /\ admins' = [admins EXCEPT ![w] =
               [admins[w] EXCEPT !.at = IF Rows!Standing = {} THEN "insert" ELSE "answer"]]
      BY <2>5 DEF Rows!CheckDoc, Rows!Window
    <3>2. CASE Rows!Active = {}
      <4>1. admins' = [admins EXCEPT ![w] = [admins[w] EXCEPT !.at = "insert"]] BY <3>1, <3>2 DEF Rows!Standing
      <4>2. [admins[w] EXCEPT !.at = "insert"] \in Window BY <2>1
      <4> QED BY <4>1, <4>2, <3>1, <3>2, WindowStep
    <3>3. CASE Rows!Active # {}
      <4>1. admins' = [admins EXCEPT ![w] = [admins[w] EXCEPT !.at = "answer"]] BY <3>1, <3>3 DEF Rows!Standing
      <4>2. [admins[w] EXCEPT !.at = "answer"] \in Window /\ [admins[w] EXCEPT !.at = "answer"].at = "answer" BY <2>1
      <4> QED BY <4>1, <4>2, <3>1, WindowStep
    <3> QED BY <3>2, <3>3
  <2> QED BY <1>3, <2>2, <2>3, <2>4, <2>5
<1> QED BY <1>1, <1>2, <1>3 DEF Rows!DocStep

LEMMA DocsStay == ASSUME DocsInv, UNCHANGED <<docs, admins>> PROVE DocsInv'
BY DEF DocsInv, DocsTypeOK, InsertAlone, Rows!Active

LEMMA InsuranceIn == ASSUME DocsInv PROVE Rows!OneInsurance
BY DEF DocsInv, Rows!OneInsurance

-----------------------------------------------------------------------------
(* The steps of a row and its form                                           *)

LEMMA ClosedForm == ASSUME Rows!RowAssumption, rowForm' = Rows!NoForm, section' = section
  PROVE RowForm' /\ FormFollowsList'
<1>1. rowForm' = [open |-> FALSE, typed |-> [f \in Rows!Fields |-> Blank], touched |-> {}, renewed |-> FALSE,
                  save |-> 0]
  BY DEF Rows!NoForm
<1>2. Rows!Fields' = Rows!Fields BY DEF Rows!Fields
<1>3. Blank # Null BY DEF Rows!RowAssumption
<1> QED BY <1>1, <1>2, <1>3 DEF RowForm, FormFollowsList

LEMMA ListRowStart == ASSUME Rows!RowAssumption, Rows!Init PROVE ListRowInv
<1>1. RowForm /\ FormFollowsList
  <2>1. rowForm = [open |-> FALSE, typed |-> [f \in Rows!Fields |-> Blank], touched |-> {}, renewed |-> FALSE,
                   save |-> 0]
    BY DEF Rows!Init, Rows!NoForm
  <2>2. Blank # Null BY DEF Rows!RowAssumption
  <2> QED BY <2>1, <2>2 DEF RowForm, FormFollowsList
<1>2. rowSaves = [i \in 1..MaxSaves |-> Rows!NoSave] /\ wanted = [f \in Rows!Fields |-> Absent] /\ unwritten = FALSE
  BY DEF Rows!Init
<1>3. PICK x : listRow \in [fields : [Rows!Fields -> {x}], active : {TRUE}] BY DEF Rows!Init
<1>4. \A i \in 1..MaxSaves : rowSaves[i] =
        [at |-> "idle", body |-> <<>>, touched |-> {}, renewed |-> FALSE, typed |-> <<>>]
  BY <1>2 DEF Rows!NoSave
<1>5. ListRowShape
  <2>1. \A i \in 1..MaxSaves : SaveShape(rowSaves[i]) BY <1>4 DEF SaveShape
  <2> QED BY <2>1, <1>2, <1>3 DEF ListRowShape
<1>6. \A i \in 1..MaxSaves : BodyOK(rowSaves[i]) BY <1>4 DEF BodyOK
<1>7. Rows!SavedFormIsStored /\ Rows!OthersSurvive BY <1>2 DEF Rows!SavedFormIsStored, Rows!OthersSurvive
<1> QED BY <1>1, <1>5, <1>6, <1>7 DEF ListRowInv

LEMMA ShownIsNotNull == ASSUME Rows!RowAssumption, NEW v PROVE Rows!Shown(v) # Null
BY DEF Rows!RowAssumption, Rows!Shown

\* What leaves the stored row and what was saved as they are.
LEMMA FormOnly ==
  ASSUME ListRowInv, section' = section, UNCHANGED <<listRow, rowSaves, wanted, unwritten>>,
         RowForm', FormFollowsList'
  PROVE ListRowInv'
<1>1. Rows!Fields' = Rows!Fields BY DEF Rows!Fields
<1>2. ListRowShape' BY <1>1 DEF ListRowInv, ListRowShape
<1>3. \A i \in 1..MaxSaves : BodyOK(rowSaves[i])' BY <1>1 DEF ListRowInv, BodyOK, Rows!Sent
<1>4. (Rows!SavedFormIsStored /\ Rows!OthersSurvive)'
  BY <1>1 DEF ListRowInv, Rows!SavedFormIsStored, Rows!OthersSurvive
<1> QED BY <1>2, <1>3, <1>4 DEF ListRowInv

LEMMA FormSame ==
  ASSUME ListRowInv, section' = section, list' = list, rowForm' = rowForm
  PROVE RowForm' /\ FormFollowsList'
<1>1. Rows!Fields' = Rows!Fields BY DEF Rows!Fields
<1> QED BY <1>1 DEF ListRowInv, RowForm, FormFollowsList

LEMMA ShowListRow == ASSUME Rows!RowAssumption, ListRowInv, Rows!ShowList PROVE ListRowInv'
<1>1. UNCHANGED <<section, listRow, rowSaves, wanted, unwritten>> /\ list' = listFetch.row BY DEF Rows!ShowList
<1>2. Rows!Fields' = Rows!Fields BY <1>1 DEF Rows!Fields
<1>3. RowForm' /\ FormFollowsList'
  <2>1. CASE rowForm' = Rows!NoForm BY <1>1, <2>1, ClosedForm
  <2>2. CASE rowForm' = [rowForm EXCEPT !.renewed = TRUE]
    <3>1. rowForm' = [open |-> rowForm.open, typed |-> rowForm.typed, touched |-> rowForm.touched,
                      renewed |-> TRUE, save |-> rowForm.save]
      BY <2>2 DEF ListRowInv, RowForm
    <3> QED BY <3>1, <1>2 DEF ListRowInv, RowForm, FormFollowsList
  <2>3. CASE rowForm' = rowForm /\ (list' = list \/ ~rowForm.open)
    BY <2>3, <1>2 DEF ListRowInv, RowForm, FormFollowsList
  <2> QED BY <2>1, <2>2, <2>3, <1>1 DEF Rows!ShowList
<1> QED BY <1>1, <1>3, FormOnly

LEMMA EditRow == ASSUME Rows!RowAssumption, ListRowInv, Rows!Edit PROVE ListRowInv'
<1>1. UNCHANGED <<section, listRow, rowSaves, wanted, unwritten>> /\ list' = list BY DEF Rows!Edit, Rows!rowVars
<1>2. rowForm' = [open |-> TRUE, typed |-> [f \in Rows!Fields |-> Rows!Shown(list.fields[f])], touched |-> {},
                  renewed |-> FALSE, save |-> 0]
  BY DEF Rows!Edit, Rows!NoForm
<1>3. Rows!Fields' = Rows!Fields BY <1>1 DEF Rows!Fields
<1>4. RowForm' /\ FormFollowsList'
  BY <1>1, <1>2, <1>3, ShownIsNotNull DEF RowForm, FormFollowsList, Rows!Shown
<1> QED BY <1>1, <1>4, FormOnly

LEMMA TypeRow ==
  ASSUME Rows!RowAssumption, ListRowInv, NEW f \in Rows!Fields, NEW v \in Texts \cup {Blank}, Rows!Type(f, v)
  PROVE ListRowInv'
<1>1. UNCHANGED <<section, listRow, rowSaves, wanted, unwritten>> /\ list' = list BY DEF Rows!Type
<1>2. rowForm' = [rowForm EXCEPT !.typed[f] = v, !.touched = @ \cup {f}] BY DEF Rows!Type
<1>3. rowForm' = [open |-> rowForm.open, typed |-> [rowForm.typed EXCEPT ![f] = v],
                  touched |-> rowForm.touched \cup {f}, renewed |-> rowForm.renewed, save |-> rowForm.save]
  BY <1>2 DEF ListRowInv, RowForm
<1>4. Rows!Fields' = Rows!Fields BY <1>1 DEF Rows!Fields
<1>5. v # Null BY DEF Rows!RowAssumption
<1>6. RowForm'
  BY <1>3, <1>4, <1>5 DEF ListRowInv, RowForm
<1>7. FormFollowsList'
  BY <1>1, <1>3, <1>4 DEF ListRowInv, RowForm, FormFollowsList, Rows!Shown
<1> QED BY <1>1, <1>6, <1>7, FormOnly

LEMMA CancelRow == ASSUME Rows!RowAssumption, ListRowInv, Rows!Cancel PROVE ListRowInv'
<1>1. UNCHANGED <<section, listRow, rowSaves, wanted, unwritten>> BY DEF Rows!Cancel
<1>2. RowForm' /\ FormFollowsList' BY <1>1, ClosedForm DEF Rows!Cancel
<1> QED BY <1>1, <1>2, FormOnly

\* A step that sends or ends a PATCH, and leaves the stored row.
LEMMA SavesOnly ==
  ASSUME ListRowInv, section' = section, UNCHANGED <<listRow, wanted, unwritten>>, RowForm', FormFollowsList',
         NEW i \in 1..MaxSaves, NEW s, rowSaves' = [rowSaves EXCEPT ![i] = s], SaveShape(s), BodyOK(s)
  PROVE ListRowInv'
<1>1. Rows!Fields' = Rows!Fields BY DEF Rows!Fields
<1>2. \A j \in 1..MaxSaves : rowSaves'[j] = IF j = i THEN s ELSE rowSaves[j] BY DEF ListRowInv, ListRowShape
<1>3. rowSaves' = [j \in 1..MaxSaves |-> rowSaves'[j]] BY DEF ListRowInv, ListRowShape
<1>4. \A j \in 1..MaxSaves : SaveShape(rowSaves'[j]) BY <1>2 DEF ListRowInv, ListRowShape
<1>5. ListRowShape'
  <2>1. \A j \in 1..MaxSaves : SaveShape(rowSaves[j])' BY <1>4 DEF SaveShape
  <2> QED BY <1>1, <1>3, <2>1 DEF ListRowInv, ListRowShape
<1>6. ASSUME NEW j \in 1..MaxSaves PROVE BodyOK(rowSaves[j])'
  <2>1. BodyOK(rowSaves'[j]) BY <1>2 DEF ListRowInv
  <2> QED BY <2>1, <1>1 DEF BodyOK, Rows!Sent
<1>7. (Rows!SavedFormIsStored /\ Rows!OthersSurvive)'
  BY <1>1 DEF ListRowInv, Rows!SavedFormIsStored, Rows!OthersSurvive
<1> QED BY <1>5, <1>6, <1>7 DEF ListRowInv

LEMMA SubmitRow ==
  ASSUME Rows!RowAssumption, ListRowInv, NEW i \in 1..MaxSaves, Rows!Submit(i) PROVE ListRowInv'
<1> DEFINE diff == Rows!Differing(rowForm.typed, list)
           s == [at |-> "sent", body |-> [f \in diff |-> Rows!Sent(f, rowForm.typed[f])],
                 touched |-> rowForm.touched, renewed |-> rowForm.renewed, typed |-> rowForm.typed]
<1>1. UNCHANGED <<section, listRow, wanted, unwritten>> /\ list' = list BY DEF Rows!Submit
<1>2. CASE diff = {}
  <2>1. rowForm' = Rows!NoForm /\ rowSaves' = rowSaves BY <1>2 DEF Rows!Submit
  <2> QED BY <1>1, <2>1, ClosedForm, FormOnly
<1>3. CASE diff # {}
  <2>1. rowForm' = [rowForm EXCEPT !.save = i] /\ rowSaves' = [rowSaves EXCEPT ![i] = s] BY <1>3 DEF Rows!Submit
  <2>2. rowForm' = [open |-> rowForm.open, typed |-> rowForm.typed, touched |-> rowForm.touched,
                    renewed |-> rowForm.renewed, save |-> i]
    BY <2>1 DEF ListRowInv, RowForm
  <2>3. Rows!Fields' = Rows!Fields BY <1>1 DEF Rows!Fields
  <2>4. RowForm' /\ FormFollowsList'
    BY <1>1, <2>2, <2>3 DEF ListRowInv, RowForm, FormFollowsList, Rows!Shown
  <2>5. SaveShape(s) BY DEF SaveShape
  <2>6. diff \subseteq Rows!Fields BY DEF Rows!Differing
  <2>7. ~rowForm.renewed => diff \subseteq rowForm.touched
    BY DEF ListRowInv, FormFollowsList, Rows!Differing, Rows!Submit
  <2>8. \A f \in Rows!Fields : rowForm.typed[f] # Null BY DEF ListRowInv, RowForm
  <2> HIDE DEF diff
  <2>9. BodyOK(s)
    <3>1. s.body = [f \in diff |-> Rows!Sent(f, rowForm.typed[f])] /\ s.touched = rowForm.touched
          /\ s.renewed = rowForm.renewed /\ s.typed = rowForm.typed
      OBVIOUS
    <3> HIDE DEF s
    <3>2. DOMAIN s.body = diff /\ \A f \in diff : s.body[f] = Rows!Sent(f, rowForm.typed[f]) BY <3>1
    <3> QED BY <3>1, <3>2, <2>6, <2>7, <2>8, Zenon DEF BodyOK
  <2> HIDE DEF s
  <2> QED BY <1>1, <2>1, <2>4, <2>5, <2>9, SavesOnly
<1> QED BY <1>2, <1>3

\* An answer ends a request and closes its form or leaves it open.
LEMMA AnsweredRow ==
  ASSUME Rows!RowAssumption, ListRowInv, NEW i \in 1..MaxSaves, Rows!Saved(i) \/ Rows!SaveFails(i)
  PROVE ListRowInv'
<1>1. UNCHANGED <<section, listRow, list, wanted, unwritten>> BY DEF Rows!Saved, Rows!SaveFails
<1>2. rowSaves' = [rowSaves EXCEPT ![i] = [Rows!NoSave EXCEPT !.at = "over"]] BY DEF Rows!Saved, Rows!SaveFails
<1> DEFINE Empty == [at : {"idle", "over"}, body : {<<>>}, touched : {{}}, renewed : {FALSE}, typed : {<<>>}]
<1>3. [Rows!NoSave EXCEPT !.at = "over"] \in Empty
  <2>1. Rows!NoSave \in Empty BY DEF Rows!NoSave
  <2> QED BY <2>1
<1>4. SaveShape([Rows!NoSave EXCEPT !.at = "over"]) /\ BodyOK([Rows!NoSave EXCEPT !.at = "over"])
  BY <1>3 DEF SaveShape, BodyOK
<1>5. RowForm' /\ FormFollowsList'
  <2>1. CASE rowForm' = Rows!NoForm BY <1>1, <2>1, ClosedForm
  <2>2. CASE rowForm' = rowForm BY <1>1, <2>2, FormSame
  <2>3. CASE rowForm' = [rowForm EXCEPT !.save = 0]
    <3>1. rowForm' = [open |-> rowForm.open, typed |-> rowForm.typed, touched |-> rowForm.touched,
                      renewed |-> rowForm.renewed, save |-> 0]
      BY <2>3 DEF ListRowInv, RowForm
    <3>2. Rows!Fields' = Rows!Fields BY <1>1 DEF Rows!Fields
    <3> QED BY <1>1, <3>1, <3>2 DEF ListRowInv, RowForm, FormFollowsList, Rows!Shown
  <2> QED BY <2>1, <2>2, <2>3 DEF Rows!Saved, Rows!SaveFails
<1> QED BY <1>1, <1>2, <1>4, <1>5, SavesOnly

\* The server stores what was typed, and nothing into a field nobody typed into.
LEMMA PatchRow ==
  ASSUME Rows!RowAssumption, ListRowInv, NEW i \in 1..MaxSaves, Rows!Patch(i) PROVE ListRowInv'
<1> DEFINE s == rowSaves[i]
           columns == Rows!Written(s.body)
<1>1. UNCHANGED <<section, list, rowForm>> /\ s.at = "sent" BY DEF Rows!Patch
<1>2. Rows!Fields' = Rows!Fields BY <1>1 DEF Rows!Fields
<1>3. SaveShape(s) /\ BodyOK(s) BY DEF ListRowInv, ListRowShape
<1>4. PICK at \in {"refused", "stored"} : rowSaves' = [rowSaves EXCEPT ![i].at = at] BY DEF Rows!Patch
<1>5. listRow' = [listRow EXCEPT !.fields =
                    [f \in Rows!Fields |-> IF f \in columns THEN s.body[f] ELSE listRow.fields[f]]]
  BY DEF Rows!Patch
<1>6. listRow' = [fields |-> [f \in Rows!Fields |-> IF f \in columns THEN s.body[f] ELSE listRow.fields[f]],
                  active |-> listRow.active]
  <2> HIDE DEF columns, s
  <2> QED BY <1>5 DEF ListRowInv, ListRowShape
<1>7. wanted' = [f \in Rows!Fields |->
          IF f \notin DOMAIN s.body THEN wanted[f]
          ELSE IF f \in s.touched /\ ~(s.typed[f] = Blank /\ Rows!FormOf[section][f] = "nullable")
          THEN s.typed[f] ELSE Absent]
  BY DEF Rows!Patch
<1>8. unwritten' = (unwritten \/ (~s.renewed /\ \E f \in columns \ s.touched : s.body[f] # listRow.fields[f]))
  BY DEF Rows!Patch
<1>9. columns \subseteq DOMAIN s.body BY DEF Rows!Written
<1>10. Rows!OthersSurvive'
  <2>1. ~s.renewed => columns \subseteq s.touched BY <1>1, <1>3, <1>9 DEF BodyOK
  <2> HIDE DEF columns, s
  <2> QED BY <1>8, <2>1 DEF ListRowInv, Rows!OthersSurvive
<1>11. Rows!SavedFormIsStored'
  <2> SUFFICES ASSUME NEW f \in Rows!Fields, wanted'[f] # Absent PROVE listRow'.fields[f] = wanted'[f]
    BY <1>2 DEF Rows!SavedFormIsStored
  <2>1. listRow'.fields[f] = IF f \in columns THEN s.body[f] ELSE listRow.fields[f] BY <1>6
  <2>2. CASE f \notin DOMAIN s.body
    <3>1. wanted'[f] = wanted[f] BY <2>2, <1>7
    <3>2. f \notin columns BY <2>2, <1>9
    <3> QED BY <2>1, <3>1, <3>2 DEF ListRowInv, Rows!SavedFormIsStored
  <2>3. CASE f \in DOMAIN s.body
    <3>1. wanted'[f] = s.typed[f] /\ ~(s.typed[f] = Blank /\ Rows!FormOf[section][f] = "nullable")
      BY <2>3, <1>7
    <3>2. s.body[f] = s.typed[f] /\ s.typed[f] # Null
      BY <2>3, <3>1, <1>1, <1>3 DEF BodyOK, Rows!Sent
    <3>3. f \in columns BY <2>3, <3>2 DEF Rows!Written
    <3> QED BY <2>1, <3>1, <3>2, <3>3
  <2> QED BY <2>2, <2>3
<1>12. \A j \in 1..MaxSaves : rowSaves'[j] = IF j = i THEN [s EXCEPT !.at = at] ELSE rowSaves[j]
  BY <1>4 DEF ListRowInv, ListRowShape
<1>13. [s EXCEPT !.at = at] = [at |-> at, body |-> s.body, touched |-> s.touched, renewed |-> s.renewed,
                               typed |-> s.typed]
  BY <1>3 DEF SaveShape
<1>14. SaveShape([s EXCEPT !.at = at]) /\ BodyOK([s EXCEPT !.at = at]) BY <1>13 DEF SaveShape, BodyOK
<1>15. \A j \in 1..MaxSaves : SaveShape(rowSaves'[j]) /\ BodyOK(rowSaves'[j])
  BY <1>12, <1>14 DEF ListRowInv, ListRowShape
<1>16. ListRowShape'
  <2>1. rowSaves' = [j \in 1..MaxSaves |-> rowSaves'[j]] BY <1>4 DEF ListRowInv, ListRowShape
  <2>2. \A j \in 1..MaxSaves : SaveShape(rowSaves[j])' BY <1>15 DEF SaveShape
  <2> HIDE DEF columns, s
  <2> QED BY <1>2, <1>6, <1>7, <2>1, <2>2 DEF ListRowShape
<1>17. ASSUME NEW j \in 1..MaxSaves PROVE BodyOK(rowSaves[j])'
  <2>1. BodyOK(rowSaves'[j]) BY <1>15
  <2> QED BY <2>1, <1>1, <1>2 DEF BodyOK, Rows!Sent
<1>18. RowForm' /\ FormFollowsList' BY <1>1, FormSame
<1> QED BY <1>10, <1>11, <1>16, <1>17, <1>18 DEF ListRowInv

LEMMA OtherSavesRow ==
  ASSUME ListRowInv, NEW f \in Rows!Fields, NEW v, Rows!OtherSaves(f, v) PROVE ListRowInv'
<1>1. UNCHANGED <<section, list, rowForm, rowSaves, unwritten>> BY DEF Rows!OtherSaves
<1>2. listRow' = [listRow EXCEPT !.fields[f] = v] /\ wanted' = [wanted EXCEPT ![f] = Absent] BY DEF Rows!OtherSaves
<1>3. listRow' = [fields |-> [listRow.fields EXCEPT ![f] = v], active |-> listRow.active]
  BY <1>2 DEF ListRowInv, ListRowShape
<1>4. Rows!Fields' = Rows!Fields BY <1>1 DEF Rows!Fields
<1>5. ListRowShape'
  <2>1. listRow'.fields = [g \in Rows!Fields |-> listRow'.fields[g]] BY <1>3 DEF ListRowInv, ListRowShape
  <2>2. listRow' = [fields |-> listRow'.fields, active |-> listRow'.active] BY <1>3
  <2>3. wanted' = [g \in Rows!Fields |-> wanted'[g]] BY <1>2 DEF ListRowInv, ListRowShape
  <2> QED BY <1>1, <1>4, <2>1, <2>2, <2>3 DEF ListRowInv, ListRowShape, SaveShape
<1>6. \A i \in 1..MaxSaves : BodyOK(rowSaves[i])' BY <1>1, <1>4 DEF ListRowInv, BodyOK, Rows!Sent
<1>7. Rows!SavedFormIsStored'
  <2>1. \A g \in Rows!Fields : g # f => listRow'.fields[g] = listRow.fields[g] /\ wanted'[g] = wanted[g]
    BY <1>2, <1>3 DEF ListRowInv, ListRowShape
  <2>2. wanted'[f] = Absent BY <1>2 DEF ListRowInv, ListRowShape
  <2> QED BY <1>4, <2>1, <2>2 DEF ListRowInv, Rows!SavedFormIsStored
<1>8. RowForm' /\ FormFollowsList' BY <1>1, FormSame
<1> QED BY <1>1, <1>5, <1>6, <1>7, <1>8 DEF ListRowInv, Rows!OthersSurvive

LEMMA DeactivateRow == ASSUME ListRowInv, Rows!Deactivate PROVE ListRowInv'
<1>1. UNCHANGED <<section, list, rowForm, rowSaves, wanted, unwritten>> BY DEF Rows!Deactivate
<1>2. listRow' = [listRow EXCEPT !.active = FALSE] BY DEF Rows!Deactivate
<1>3. listRow' = [fields |-> listRow.fields, active |-> FALSE] BY <1>2 DEF ListRowInv, ListRowShape
<1>4. Rows!Fields' = Rows!Fields BY <1>1 DEF Rows!Fields
<1>5. ListRowShape' BY <1>1, <1>3, <1>4 DEF ListRowInv, ListRowShape, SaveShape
<1>6. \A i \in 1..MaxSaves : BodyOK(rowSaves[i])' BY <1>1, <1>4 DEF ListRowInv, BodyOK, Rows!Sent
<1>7. (Rows!SavedFormIsStored /\ Rows!OthersSurvive)'
  BY <1>1, <1>3, <1>4 DEF ListRowInv, Rows!SavedFormIsStored, Rows!OthersSurvive
<1>8. RowForm' /\ FormFollowsList' BY <1>1, FormSame
<1> QED BY <1>5, <1>6, <1>7, <1>8 DEF ListRowInv

LEMMA ListRowStays ==
  ASSUME ListRowInv, section' = section, UNCHANGED <<listRow, list, rowForm, rowSaves, wanted, unwritten>>
  PROVE ListRowInv'
BY FormSame, FormOnly

LEMMA ListRowStepOK == ASSUME Rows!RowAssumption, ListRowInv, Rows!RowStep PROVE ListRowInv'
<1>1. CASE Rows!ServeList \/ Rows!FetchFails \/ Rows!Add
  BY <1>1, ListRowStays DEF Rows!ServeList, Rows!FetchFails, Rows!Add, Rows!rowVars
<1>2. CASE Rows!ShowList BY <1>2, ShowListRow
<1>3. CASE Rows!Edit \/ Rows!Cancel \/ Rows!Deactivate BY <1>3, EditRow, CancelRow, DeactivateRow
<1>4. CASE \E f \in Rows!Fields : \E v \in Texts \cup {Blank} : Rows!Type(f, v) BY <1>4, TypeRow
<1>5. CASE \E f \in Rows!Fields : \E v \in Texts : Rows!OtherSaves(f, v) BY <1>5, OtherSavesRow
<1>6. ASSUME NEW i \in 1..MaxSaves, Rows!Submit(i) \/ Rows!Patch(i) \/ Rows!Saved(i) \/ Rows!SaveFails(i)
      PROVE ListRowInv'
  BY <1>6, SubmitRow, PatchRow, AnsweredRow
<1> QED BY <1>1, <1>2, <1>3, <1>4, <1>5, <1>6 DEF Rows!RowStep

-----------------------------------------------------------------------------
(* The steps of the pictures of a row                                        *)

FetchOK(f) == f = [at |-> f.at, row |-> f.row, keys |-> f.keys] /\ f.keys \in Seq(Keys)

LEMMA EmptyTask ==
  /\ Rows!NoTask \in PictureTask /\ Rows!NoTask.kind = "none" /\ Rows!NoTask.at = "idle"
  /\ Rows!NoTask.key = Absent /\ Rows!NoTask.order = <<>> /\ Rows!NoTask.prior = <<>>
<1>1. Rows!NoTask = [kind |-> "none", key |-> Absent, at |-> "idle", order |-> <<>>, prior |-> <<>>, heard |-> TRUE]
  BY DEF Rows!NoTask
<1>2. <<>> \in Seq(Keys) OBVIOUS
<1> QED BY <1>1, <1>2 DEF PictureTask

LEMMA PicturesStart == ASSUME Rows!Init PROVE PicturesInv
<1>1. /\ pictures = <<>> /\ photos = <<>> /\ bucket = {} /\ kept = {}
      /\ tasks = [i \in 1..MaxPictures |-> Rows!NoTask]
      /\ listFetch = Rows!NoFetch
  BY DEF Rows!Init
<1>2. <<>> \in Seq(Keys) /\ Len(<<>>) = 0 OBVIOUS
<1>3. Rows!ToSet(pictures) = {} BY <1>1 DEF Rows!ToSet
<1>4. listFetch = [at |-> "none", row |-> Absent, keys |-> <<>>] BY <1>1 DEF Rows!NoFetch
<1>5. PicturesTypeOK BY <1>1, <1>2, <1>4, EmptyTask DEF PicturesTypeOK
<1>6. InTurn BY <1>1, EmptyTask DEF InTurn, Rows!Running
<1>7. ASSUME NEW i \in 1..MaxPictures PROVE TaskOK(tasks[i]) /\ MoveKnows(i)
  <2>1. tasks[i] = Rows!NoTask BY <1>1
  <2> QED BY <2>1, <1>2, EmptyTask DEF TaskOK, MoveKnows
<1>8. PortraitOK BY <1>1, <1>2, <1>3 DEF PortraitOK
<1>9. KeptAsked /\ Rows!PhotosStay BY <1>1 DEF KeptAsked, Rows!PhotosStay
<1> QED BY <1>5, <1>6, <1>7, <1>8, <1>9 DEF PicturesInv

\* The list is read again, and nothing else happens to the pictures.
LEMMA FetchOnly ==
  ASSUME PicturesInv, section' = section, UNCHANGED <<pictures, bucket, tasks, kept, unwanted, missed>>,
         photos' \in Seq(Keys), FetchOK(listFetch')
  PROVE PicturesInv'
<1>1. PicturesTypeOK' BY DEF PicturesInv, PicturesTypeOK, FetchOK
<1>2. Rows!Portrait' = Rows!Portrait BY DEF Rows!Portrait
<1>3. InTurn' BY DEF PicturesInv, InTurn, Rows!Running
<1>4. \A i \in 1..MaxPictures : TaskOK(tasks[i])' BY <1>2 DEF PicturesInv, TaskOK, Rows!NewKeys
<1>5. \A i \in 1..MaxPictures : MoveKnows(i)' BY DEF PicturesInv, MoveKnows, Rows!Running
<1>6. (PortraitOK /\ KeptAsked /\ Rows!PhotosStay)' BY <1>2 DEF PicturesInv, PortraitOK, KeptAsked, Rows!PhotosStay
<1> QED BY <1>1, <1>3, <1>4, <1>5, <1>6 DEF PicturesInv

LEMMA FetchForms ==
  ASSUME PicturesInv PROVE /\ FetchOK(Rows!NoFetch) /\ FetchOK(listFetch)
                           /\ Rows!ReadAgain => FetchOK(listFetch')
                           /\ Rows!ServeList => FetchOK(listFetch')
<1>1. <<>> \in Seq(Keys) OBVIOUS
<1>2. Rows!NoFetch = [at |-> "none", row |-> Absent, keys |-> <<>>] BY DEF Rows!NoFetch
<1>3. FetchOK(Rows!NoFetch) BY <1>1, <1>2 DEF FetchOK
<1>4. FetchOK(listFetch) BY DEF PicturesInv, PicturesTypeOK, FetchOK
<1>5. ASSUME Rows!ReadAgain PROVE FetchOK(listFetch')
  <2>1. listFetch' = [Rows!NoFetch EXCEPT !.at = "sent"] BY <1>5 DEF Rows!ReadAgain
  <2> DEFINE Fetch == [at : {"none", "sent"}, row : {Absent}, keys : Seq(Keys)]
  <2>2. Rows!NoFetch \in Fetch BY <1>1, <1>2
  <2>3. listFetch' \in Fetch BY <2>1, <2>2
  <2> QED BY <2>3 DEF FetchOK
<1>6. ASSUME Rows!ServeList PROVE FetchOK(listFetch')
  <2>1. listFetch' = [at |-> "served", row |-> IF listRow.active THEN listRow ELSE Absent, keys |-> pictures]
    BY <1>6 DEF Rows!ServeList
  <2> QED BY <2>1 DEF PicturesInv, PicturesTypeOK, FetchOK
<1> QED BY <1>3, <1>4, <1>5, <1>6

LEMMA FetchSteps ==
  ASSUME PicturesInv, Rows!ServeList \/ Rows!ShowList \/ Rows!FetchFails PROVE PicturesInv'
<1>1. CASE Rows!ServeList
  <2>1. section' = section /\ UNCHANGED <<pictures, bucket, tasks, kept, unwanted, missed, photos>>
    BY <1>1 DEF Rows!ServeList, Rows!pictureVars
  <2>2. photos \in Seq(Keys) BY DEF PicturesInv, PicturesTypeOK
  <2> QED BY <1>1, <2>1, <2>2, FetchForms, FetchOnly
<1>2. CASE Rows!ShowList
  <2>1. section' = section /\ UNCHANGED <<pictures, bucket, tasks, kept, unwanted, missed>>
        /\ photos' = listFetch.keys /\ listFetch' = Rows!NoFetch
    BY <1>2 DEF Rows!ShowList
  <2>2. photos' \in Seq(Keys) BY <2>1 DEF PicturesInv, PicturesTypeOK
  <2> QED BY <2>1, <2>2, FetchForms, FetchOnly
<1>3. CASE Rows!FetchFails
  <2>1. section' = section /\ UNCHANGED <<pictures, bucket, tasks, kept, unwanted, missed, photos>>
        /\ listFetch' = Rows!NoFetch
    BY <1>3 DEF Rows!FetchFails, Rows!pictureVars
  <2>2. photos \in Seq(Keys) BY DEF PicturesInv, PicturesTypeOK
  <2> QED BY <2>1, <2>2, FetchForms, FetchOnly
<1> QED BY <1>1, <1>2, <1>3

LEMMA RowLeavesPictures == ASSUME PicturesInv, Rows!RowStep PROVE PicturesInv'
<1>1. ASSUME section' = section, UNCHANGED <<pictures, bucket, tasks, photos, kept, unwanted, missed>>,
             listFetch' = listFetch \/ Rows!ReadAgain
      PROVE PicturesInv'
  <2>1. photos \in Seq(Keys) BY DEF PicturesInv, PicturesTypeOK
  <2> QED BY <1>1, <2>1, FetchForms, FetchOnly
<1>2. CASE Rows!ServeList \/ Rows!ShowList \/ Rows!FetchFails BY <1>2, FetchSteps
<1>3. CASE Rows!Edit \/ Rows!Cancel \/ Rows!Add \/ Rows!Deactivate
  BY <1>1, <1>3 DEF Rows!Edit, Rows!Cancel, Rows!Add, Rows!Deactivate, Rows!pictureVars
<1>4. ASSUME NEW f \in Rows!Fields, NEW v, Rows!Type(f, v) \/ Rows!OtherSaves(f, v) PROVE PicturesInv'
  BY <1>1, <1>4 DEF Rows!Type, Rows!OtherSaves, Rows!pictureVars
<1>5. ASSUME NEW i \in 1..MaxSaves, Rows!Submit(i) \/ Rows!Patch(i) \/ Rows!Saved(i) \/ Rows!SaveFails(i)
      PROVE PicturesInv'
  BY <1>1, <1>5 DEF Rows!Submit, Rows!Patch, Rows!Saved, Rows!SaveFails, Rows!pictureVars
<1> QED BY <1>2, <1>3, <1>4, <1>5 DEF Rows!RowStep

-----------------------------------------------------------------------------
(* One request at a time                                                     *)

LEMMA TurnStays ==
  ASSUME PicturesInv, NEW i \in 1..MaxPictures, NEW t \in PictureTask, tasks' = [tasks EXCEPT ![i] = t],
         t # Rows!NoTask,
         \/ /\ tasks[i] = Rows!NoTask /\ t.at = "read"
            /\ \A j \in 1..(i - 1) : tasks[j] # Rows!NoTask
         \/ /\ tasks[i] # Rows!NoTask
            /\ \/ t.at = "idle" \/ t.at = tasks[i].at
               \/ Rows!Running(i) /\ \A j \in 1..(i - 1) : ~Rows!Running(j)
  PROVE InTurn'
<1> SUFFICES ASSUME NEW a \in 1..MaxPictures, NEW b \in 1..MaxPictures, a < b
             PROVE /\ tasks'[b] # Rows!NoTask => tasks'[a] # Rows!NoTask
                   /\ tasks'[a].at \notin {"idle", "done"} => tasks'[b].at \in {"idle", "read"}
  BY DEF InTurn, Rows!Running, Rows!NoTask
<1>1. /\ tasks[b] # Rows!NoTask => tasks[a] # Rows!NoTask
      /\ tasks[a].at \notin {"idle", "done"} => tasks[b].at \in {"idle", "read"}
  BY DEF PicturesInv, InTurn, Rows!Running
<1>2. tasks'[i] = t /\ \A j \in 1..MaxPictures : j # i => tasks'[j] = tasks[j] BY DEF PicturesInv, PicturesTypeOK
<1>3. CASE a = i
  <2>1. tasks'[a] = t /\ tasks'[b] = tasks[b] BY <1>2, <1>3
  <2>2. CASE tasks[i] = Rows!NoTask BY <1>1, <1>3, <2>1, <2>2, EmptyTask
  <2>3. CASE tasks[i] # Rows!NoTask BY <1>1, <1>3, <2>1, <2>3 DEF Rows!Running
  <2> QED BY <2>2, <2>3
<1>4. CASE b = i
  <2>1. tasks'[a] = tasks[a] /\ tasks'[b] = t /\ a \in 1..(i - 1) BY <1>2, <1>4
  <2>2. CASE tasks[i] = Rows!NoTask BY <2>1, <2>2
  <2>3. CASE tasks[i] # Rows!NoTask BY <1>1, <1>4, <2>1, <2>3 DEF Rows!Running
  <2> QED BY <2>2, <2>3
<1>5. CASE a # i /\ b # i BY <1>1, <1>2, <1>5
<1> QED BY <1>3, <1>4, <1>5

\* Beside the request the server works on, nothing has come further than its first step.
LEMMA OneAtWork ==
  ASSUME PicturesInv, NEW i \in 1..MaxPictures, Rows!Running(i), \A j \in 1..(i - 1) : ~Rows!Running(j),
         NEW j \in 1..MaxPictures, j # i
  PROVE tasks[j].at \in {"idle", "read", "done"}
<1>1. CASE j < i BY <1>1 DEF Rows!Running
<1>2. CASE i < j BY <1>2 DEF PicturesInv, InTurn
<1> QED BY <1>1, <1>2

LEMMA MovesStay ==
  ASSUME PicturesInv, NEW i \in 1..MaxPictures, NEW t \in PictureTask, tasks' = [tasks EXCEPT ![i] = t],
         t.key = tasks[i].key, missed' = missed,
         t.at = "idle" \/ (t.kind = tasks[i].kind /\ t.order = tasks[i].order /\ Rows!Running(i)),
         \/ kept' = kept
         \/ /\ kept' = kept \cup {tasks[i].key} /\ t.kind = "upload"
            /\ \A j \in 1..(i - 1) : ~Rows!Running(j)
  PROVE \A j \in 1..MaxPictures : MoveKnows(j)'
<1> SUFFICES ASSUME NEW j \in 1..MaxPictures, tasks'[j].kind = "move", tasks'[j].at \notin {"idle", "done"}
             PROVE /\ kept' \subseteq Rows!ToSet(tasks'[j].order) \cup missed
                   /\ \A l \in 1..MaxPictures : l < j => tasks'[l].key \in Rows!ToSet(tasks'[j].order) \cup missed
  BY DEF MoveKnows, Rows!Running, Rows!ToSet
<1>1. tasks'[i] = t /\ \A l \in 1..MaxPictures : l # i => tasks'[l] = tasks[l] BY DEF PicturesInv, PicturesTypeOK
<1>2. tasks[j].kind = "move" /\ Rows!Running(j) /\ tasks'[j].order = tasks[j].order
  <2>1. CASE j = i BY <1>1, <2>1
  <2>2. CASE j # i BY <1>1, <2>2 DEF Rows!Running
  <2> QED BY <2>1, <2>2
<1>3. /\ kept \subseteq Rows!ToSet(tasks[j].order) \cup missed
      /\ \A l \in 1..MaxPictures : l < j => tasks[l].key \in Rows!ToSet(tasks[j].order) \cup missed
  BY <1>2 DEF PicturesInv, MoveKnows
<1>4. \A l \in 1..MaxPictures : l < j => tasks'[l].key = tasks[l].key BY <1>1
<1>5. kept' # kept => i < j
  <2> SUFFICES ASSUME kept' # kept PROVE i < j OBVIOUS
  <2>1. t.kind = "upload" /\ \A l \in 1..(i - 1) : ~Rows!Running(l) OBVIOUS
  <2>2. j # i BY <2>1, <1>1
  <2>3. ~(j < i) BY <2>1, <1>2
  <2> QED BY <2>2, <2>3
<1> QED BY <1>2, <1>3, <1>4, <1>5

LEMMA AskedStay ==
  ASSUME PicturesInv, NEW i \in 1..MaxPictures, NEW t \in PictureTask, tasks' = [tasks EXCEPT ![i] = t],
         t # Rows!NoTask, t.key = tasks[i].key \/ tasks[i] = Rows!NoTask,
         kept' = kept \/ (kept' = kept \cup {tasks[i].key} /\ t.key = tasks[i].key)
  PROVE KeptAsked'
<1>1. tasks'[i] = t /\ \A l \in 1..MaxPictures : l # i => tasks'[l] = tasks[l] BY DEF PicturesInv, PicturesTypeOK
<1> SUFFICES ASSUME NEW k \in kept' PROVE \E j \in 1..MaxPictures : tasks'[j] # Rows!NoTask /\ tasks'[j].key = k
  BY DEF KeptAsked, Rows!NoTask
<1>2. CASE k \in kept
  <2>1. PICK j \in 1..MaxPictures : tasks[j] # Rows!NoTask /\ tasks[j].key = k BY <1>2 DEF PicturesInv, KeptAsked
  <2>2. CASE j = i BY <1>1, <2>1, <2>2
  <2>3. CASE j # i BY <1>1, <2>1, <2>3
  <2> QED BY <2>2, <2>3
<1>3. CASE k \notin kept BY <1>1, <1>3
<1> QED BY <1>2, <1>3

\* A request that was there keeps its standing while pictures and bucket stay.
LEMMA TaskStays ==
  ASSUME PicturesInv, section' = section, unwanted \subseteq unwanted', NEW j \in 1..MaxPictures, tasks'[j] = tasks[j],
         (pictures' = pictures /\ bucket' = bucket) \/ tasks[j].at \in {"idle", "read", "done"}
  PROVE TaskOK(tasks[j])'
<1>1. Rows!Portrait' = Rows!Portrait BY DEF Rows!Portrait
<1>2. TaskOK(tasks[j]) BY DEF PicturesInv
<1> QED BY <1>1, <1>2 DEF TaskOK, Rows!NewKeys, Rows!NoTask

\* A new request: a slot is filled, and nothing else changes but what it is for.
LEMMA AskStep ==
  ASSUME PicturesInv, NEW i \in 1..MaxPictures, NEW t \in PictureTask, section' = section,
         tasks[i] = Rows!NoTask, \A j \in 1..(i - 1) : tasks[j] # Rows!NoTask,
         tasks' = [tasks EXCEPT ![i] = t], t.at = "read", t.kind \in {"upload", "remove", "move"}, t.prior = <<>>,
         UNCHANGED <<pictures, bucket, photos, listFetch, kept>>,
         unwanted \subseteq unwanted', missed \subseteq missed',
         t.kind = "move" =>
           /\ section = "portfolio"
           /\ \A j \in 1..MaxPictures : tasks[j].key \in Rows!ToSet(t.order) \cup missed',
         t.kind = "upload" => t.key \in Keys,
         t.kind = "remove" => t.key \in unwanted'
  PROVE PicturesInv'
<1>1. tasks'[i] = t /\ \A l \in 1..MaxPictures : l # i => tasks'[l] = tasks[l] BY DEF PicturesInv, PicturesTypeOK
<1>2. t # Rows!NoTask BY EmptyTask
<1>3. PicturesTypeOK' BY DEF PicturesInv, PicturesTypeOK
<1>4. InTurn' BY <1>2, TurnStays
<1>5. KeptAsked' BY <1>2, AskedStay
<1>6. Rows!Portrait' = Rows!Portrait BY DEF Rows!Portrait
<1>7. PortraitOK' /\ Rows!PhotosStay' BY <1>6 DEF PicturesInv, PortraitOK, Rows!PhotosStay
<1>8. TaskOK(tasks[i])' BY <1>1, <1>6 DEF TaskOK
<1>9. ASSUME NEW j \in 1..MaxPictures PROVE TaskOK(tasks[j])'
  <2>1. CASE j = i BY <1>8, <2>1
  <2>2. CASE j # i BY <1>1, <2>2, TaskStays
  <2> QED BY <2>1, <2>2
<1>10. ASSUME NEW j \in 1..MaxPictures PROVE MoveKnows(j)'
  <2> SUFFICES ASSUME tasks'[j].kind = "move", tasks'[j].at \notin {"idle", "done"}
               PROVE /\ kept' \subseteq Rows!ToSet(tasks'[j].order) \cup missed'
                     /\ \A l \in 1..MaxPictures : l < j => tasks'[l].key \in Rows!ToSet(tasks'[j].order) \cup missed'
    BY DEF MoveKnows, Rows!Running, Rows!ToSet
  <2>1. CASE j = i
    <3>1. kept \subseteq {tasks[l].key : l \in 1..MaxPictures} BY DEF PicturesInv, KeptAsked
    <3>2. \A l \in 1..MaxPictures : tasks[l].key \in Rows!ToSet(t.order) \cup missed' BY <1>1, <2>1
    <3>3. \A l \in 1..MaxPictures : l < j => tasks'[l] = tasks[l] BY <1>1, <2>1
    <3>4. tasks'[j] = t /\ kept' = kept BY <1>1, <2>1
    <3>5. kept \subseteq Rows!ToSet(t.order) \cup missed' BY <3>1, <3>2
    <3>6. \A l \in 1..MaxPictures : l < j => tasks'[l].key \in Rows!ToSet(t.order) \cup missed' BY <3>2, <3>3
    <3> QED BY <3>4, <3>5, <3>6
  <2>2. CASE j # i
    <3>1. tasks'[j] = tasks[j] BY <1>1, <2>2
    <3>2. tasks[j] # Rows!NoTask BY <3>1, EmptyTask
    <3>3. j < i BY <2>2, <3>2 DEF PicturesInv, InTurn
    <3>4. \A l \in 1..MaxPictures : l < j => tasks'[l] = tasks[l] BY <1>1, <3>3
    <3>5. MoveKnows(j) BY DEF PicturesInv
    <3> QED BY <3>1, <3>4, <3>5 DEF MoveKnows, Rows!Running
  <2> QED BY <2>1, <2>2
<1> QED BY <1>3, <1>4, <1>5, <1>7, <1>9, <1>10 DEF PicturesInv

LEMMA NewRequests ==
  ASSUME PicturesInv, NEW i \in 1..MaxPictures,
         \/ \E k \in Keys : Rows!Upload(i, k) \/ Rows!RemovePicture(i, k)
         \/ \E a \in 1..MaxPictures : Rows!Move(i, a)
  PROVE PicturesInv'
<1>1. \A t : Rows!Ask(i, t) =>
        /\ tasks[i] = Rows!NoTask /\ \A j \in 1..(i - 1) : tasks[j] # Rows!NoTask
        /\ tasks' = [tasks EXCEPT ![i] = [t EXCEPT !.at = "read"]]
        /\ UNCHANGED <<section, pictures, bucket, photos, listFetch>>
  BY DEF Rows!Ask, PicturesInv, TaskOK
<1>2. ASSUME NEW k \in Keys, Rows!Upload(i, k) PROVE PicturesInv'
  <2> DEFINE t == [[Rows!NoTask EXCEPT !.kind = "upload", !.key = k] EXCEPT !.at = "read"]
  <2>1. Rows!Ask(i, [Rows!NoTask EXCEPT !.kind = "upload", !.key = k]) /\ UNCHANGED <<kept, unwanted, missed>>
    BY <1>2 DEF Rows!Upload
  <2>2. t \in PictureTask /\ t.at = "read" /\ t.kind = "upload" /\ t.key = k /\ t.prior = <<>>
    BY EmptyTask DEF PictureTask
  <2>3. tasks' = [tasks EXCEPT ![i] = t] BY <1>1, <2>1
  <2> HIDE DEF t
  <2> QED BY <1>1, <2>1, <2>2, <2>3, AskStep
<1>3. ASSUME NEW k \in Keys, Rows!RemovePicture(i, k) PROVE PicturesInv'
  <2> DEFINE t == [[Rows!NoTask EXCEPT !.kind = "remove", !.key = k] EXCEPT !.at = "read"]
  <2>1. Rows!Ask(i, [Rows!NoTask EXCEPT !.kind = "remove", !.key = k]) /\ UNCHANGED <<kept, missed>>
        /\ unwanted' = unwanted \cup {k}
    BY <1>3 DEF Rows!RemovePicture
  <2>2. t \in PictureTask /\ t.at = "read" /\ t.kind = "remove" /\ t.key = k /\ t.prior = <<>>
    BY EmptyTask DEF PictureTask
  <2>3. tasks' = [tasks EXCEPT ![i] = t] BY <1>1, <2>1
  <2> HIDE DEF t
  <2> QED BY <1>1, <2>1, <2>2, <2>3, AskStep
<1>4. ASSUME NEW a \in 1..MaxPictures, Rows!Move(i, a) PROVE PicturesInv'
  <2> DEFINE order == Rows!Moved(photos, a, a + 1)
             t == [[Rows!NoTask EXCEPT !.kind = "move", !.order = order] EXCEPT !.at = "read"]
  <2>1. /\ section = "portfolio" /\ a + 1 \in DOMAIN photos
        /\ Rows!Ask(i, [Rows!NoTask EXCEPT !.kind = "move", !.order = order]) /\ UNCHANGED <<kept, unwanted>>
        /\ missed' = missed \cup ({tasks[j].key : j \in 1..MaxPictures} \ Rows!ToSet(photos))
    BY <1>4 DEF Rows!Move
  <2>2. photos \in Seq(Keys) BY DEF PicturesInv, PicturesTypeOK
  <2>3. a \in DOMAIN photos BY <2>1, <2>2
  <2>4. order \in Seq(Keys) /\ Rows!ToSet(photos) \subseteq Rows!ToSet(order) BY <2>1, <2>2, <2>3, MovedKeeps
  <2> HIDE DEF order
  <2>5. t \in PictureTask /\ t.at = "read" /\ t.kind = "move" /\ t.order = order /\ t.prior = <<>>
    BY <2>4, EmptyTask DEF PictureTask
  <2>6. tasks' = [tasks EXCEPT ![i] = t] BY <1>1, <2>1
  <2> HIDE DEF t
  <2>7. \A j \in 1..MaxPictures : tasks[j].key \in Rows!ToSet(t.order) \cup missed' BY <2>1, <2>4, <2>5
  <2> QED BY <1>1, <2>1, <2>5, <2>6, <2>7, AskStep
<1> QED BY <1>2, <1>3, <1>4

\* A request that goes on or ends, and changes neither array nor bucket.
LEMMA GoesOn ==
  ASSUME PicturesInv, NEW i \in 1..MaxPictures, NEW t \in PictureTask, section' = section,
         tasks[i] # Rows!NoTask, tasks' = [tasks EXCEPT ![i] = t], t # Rows!NoTask, t.key = tasks[i].key,
         UNCHANGED <<pictures, bucket, photos, kept, unwanted, missed>>, FetchOK(listFetch'),
         \/ t.at = "idle" /\ t.kind = "over" /\ t.prior = <<>>
         \/ /\ t.kind = tasks[i].kind /\ t.order = tasks[i].order /\ Rows!Running(i) /\ TaskOK(t)
            /\ \/ t.at = tasks[i].at
               \/ \A j \in 1..(i - 1) : ~Rows!Running(j)
  PROVE PicturesInv'
<1>1. tasks'[i] = t /\ \A l \in 1..MaxPictures : l # i => tasks'[l] = tasks[l] BY DEF PicturesInv, PicturesTypeOK
<1>2. PicturesTypeOK' BY DEF PicturesInv, PicturesTypeOK, FetchOK
<1>3. InTurn' BY TurnStays
<1>4. KeptAsked' BY AskedStay
<1>5. \A j \in 1..MaxPictures : MoveKnows(j)' BY MovesStay
<1>6. Rows!Portrait' = Rows!Portrait BY DEF Rows!Portrait
<1>7. PortraitOK' /\ Rows!PhotosStay' BY <1>6 DEF PicturesInv, PortraitOK, Rows!PhotosStay
<1>8. TaskOK(t)
  <2>1. CASE t.at = "idle" /\ t.kind = "over" /\ t.prior = <<>> BY <2>1 DEF TaskOK
  <2>2. CASE TaskOK(t) BY <2>2
  <2> QED BY <2>1, <2>2
<1>9. TaskOK(tasks[i])' BY <1>1, <1>6, <1>8 DEF TaskOK, Rows!NewKeys, Rows!NoTask
<1>10. ASSUME NEW j \in 1..MaxPictures PROVE TaskOK(tasks[j])'
  <2>1. CASE j = i BY <1>9, <2>1
  <2>2. CASE j # i BY <1>1, <2>2, TaskStays
  <2> QED BY <2>1, <2>2
<1> QED BY <1>2, <1>3, <1>4, <1>5, <1>7, <1>10 DEF PicturesInv

LEMMA OverStep ==
  ASSUME PicturesInv, NEW i \in 1..MaxPictures, Rows!PictureAnswered(i) \/ Rows!PictureFails(i)
  PROVE PicturesInv'
<1>1. /\ section' = section /\ UNCHANGED <<pictures, bucket, photos, kept, unwanted, missed>>
      /\ tasks[i].at # "idle"
  BY DEF Rows!PictureAnswered, Rows!PictureFails, Rows!Running
<1>2. tasks[i] # Rows!NoTask /\ tasks[i] \in PictureTask BY <1>1, EmptyTask DEF PicturesInv, PicturesTypeOK
<1>3. FetchOK(listFetch') BY FetchForms DEF Rows!PictureAnswered, Rows!PictureFails
<1>4. CASE Rows!Over(i)
  <2> DEFINE t == [Rows!NoTask EXCEPT !.kind = "over", !.key = tasks[i].key, !.heard = FALSE]
  <2>1. tasks' = [tasks EXCEPT ![i] = t] BY <1>4 DEF Rows!Over
  <2>2. t \in PictureTask /\ t.kind = "over" /\ t.at = "idle" /\ t.key = tasks[i].key /\ t.prior = <<>>
    BY <1>2, EmptyTask DEF PictureTask
  <2>3. t # Rows!NoTask BY <2>2, EmptyTask
  <2> HIDE DEF t
  <2> QED BY <1>1, <1>2, <1>3, <2>1, <2>2, <2>3, GoesOn
<1>5. CASE Rows!Running(i) /\ tasks' = [tasks EXCEPT ![i].heard = FALSE]
  <2> DEFINE t == [tasks[i] EXCEPT !.heard = FALSE]
  <2>1. tasks' = [tasks EXCEPT ![i] = t] BY <1>5
  <2>2. /\ t \in PictureTask /\ t.kind = tasks[i].kind /\ t.at = tasks[i].at /\ t.key = tasks[i].key
        /\ t.prior = tasks[i].prior /\ t.order = tasks[i].order
    BY <1>2 DEF PictureTask
  <2> HIDE DEF t
  <2>3. t # Rows!NoTask BY <1>1, <2>2, EmptyTask
  <2>4. TaskOK(tasks[i]) BY DEF PicturesInv
  <2>5. t.kind # "none" BY <1>1, <2>2, <2>4 DEF TaskOK
  <2>6. TaskOK(t) BY <2>2, <2>4, <2>5 DEF TaskOK, Rows!NewKeys
  <2> QED BY <1>1, <1>2, <1>3, <1>5, <2>1, <2>2, <2>3, <2>6, GoesOn
<1> QED BY <1>4, <1>5 DEF Rows!PictureAnswered, Rows!PictureFails

\* What a write makes of the array it read.
LEMMA NewKeysOK ==
  ASSUME PicturesInv, NEW t \in PictureTask, t.kind \in {"upload", "remove", "move"}, t.prior = pictures,
         t.kind = "upload" => t.key \in Keys
  PROVE /\ Rows!NewKeys(t) \in Seq(Keys)
        /\ t.kind = "upload" /\ Rows!Portrait =>
             Len(Rows!NewKeys(t)) = 1 /\ Rows!ToSet(Rows!NewKeys(t)) = {t.key}
        /\ t.kind = "upload" /\ ~Rows!Portrait => Rows!ToSet(Rows!NewKeys(t)) = Rows!ToSet(pictures) \cup {t.key}
        /\ t.kind = "remove" =>
             /\ Rows!ToSet(pictures) \ {t.key} \subseteq Rows!ToSet(Rows!NewKeys(t))
             /\ Len(pictures) \in {0, 1} =>
                  /\ Len(Rows!NewKeys(t)) \in {0, 1} /\ t.key \notin Rows!ToSet(Rows!NewKeys(t))
                  /\ Rows!ToSet(Rows!NewKeys(t)) \subseteq Rows!ToSet(pictures)
        /\ t.kind = "move" => Rows!NewKeys(t) = t.order
<1>1. pictures \in Seq(Keys) BY DEF PicturesInv, PicturesTypeOK
<1>2. CASE t.kind = "move"
  <2>1. Rows!NewKeys(t) = t.order BY <1>2 DEF Rows!NewKeys
  <2>2. t.order \in Seq(Keys) BY DEF PictureTask
  <2> QED BY <1>2, <2>1, <2>2
<1>3. CASE t.kind = "remove"
  <2>1. Rows!NewKeys(t) = Rows!WithoutKey(pictures, t.key) BY <1>3 DEF Rows!NewKeys
  <2> QED BY <1>1, <1>3, <2>1, WithoutKeyKeeps
<1>4. CASE t.kind = "upload" /\ Rows!Portrait
  <2>1. Rows!NewKeys(t) = <<t.key>> BY <1>4 DEF Rows!NewKeys
  <2>2. <<t.key>> \in Seq(Keys) /\ Len(<<t.key>>) = 1 BY <1>4
  <2>3. Rows!ToSet(<<t.key>>) = {t.key} BY DEF Rows!ToSet
  <2> QED BY <1>4, <2>1, <2>2, <2>3
<1>5. CASE t.kind = "upload" /\ ~Rows!Portrait
  <2>1. Rows!NewKeys(t) = Append(pictures, t.key) BY <1>5 DEF Rows!NewKeys
  <2> QED BY <1>1, <1>5, <2>1, AppendKey
<1> QED BY <1>2, <1>3, <1>4, <1>5

\* The handler reads the row.
LEMMA ReadPictures ==
  ASSUME PicturesInv, NEW i \in 1..MaxPictures, Rows!Running(i), \A j \in 1..(i - 1) : ~Rows!Running(j),
         tasks[i].at = "read", section' = section, NEW t,
         \/ t = [tasks[i] EXCEPT !.at = "done"]
         \/ t = [tasks[i] EXCEPT !.prior = pictures, !.at = IF tasks[i].kind = "upload" THEN "store" ELSE "write"],
         tasks' = [tasks EXCEPT ![i] = t],
         UNCHANGED <<pictures, bucket, photos, listFetch, kept, unwanted, missed>>
  PROVE PicturesInv'
<1>1. tasks[i] # Rows!NoTask /\ tasks[i] \in PictureTask /\ TaskOK(tasks[i])
  BY EmptyTask DEF PicturesInv, PicturesTypeOK
<1>2. pictures \in Seq(Keys) /\ (Rows!Portrait => Len(pictures) \in {0, 1})
  BY DEF PicturesInv, PicturesTypeOK, PortraitOK
<1>3. /\ t \in PictureTask /\ t.kind = tasks[i].kind /\ t.key = tasks[i].key /\ t.order = tasks[i].order
      /\ \/ t.at = "done" /\ t.prior = tasks[i].prior
         \/ t.prior = pictures /\ t.at = IF tasks[i].kind = "upload" THEN "store" ELSE "write"
  <2>1. CASE t = [tasks[i] EXCEPT !.at = "done"] BY <1>1, <2>1 DEF PictureTask
  <2>2. CASE t = [tasks[i] EXCEPT !.prior = pictures, !.at = IF tasks[i].kind = "upload" THEN "store" ELSE "write"]
    BY <1>1, <1>2, <2>2 DEF PictureTask
  <2> QED BY <2>1, <2>2
<1>4. t # Rows!NoTask BY <1>3, EmptyTask
<1>5. t.kind \in {"upload", "remove", "move"} BY <1>1, <1>3 DEF TaskOK
<1>6. TaskOK(t) BY <1>1, <1>2, <1>3, <1>5 DEF TaskOK
<1>7. FetchOK(listFetch') BY FetchForms
<1> QED BY <1>1, <1>3, <1>4, <1>6, <1>7, GoesOn

\* A step of the handler that changes the array or the bucket.
LEMMA WorkFrame ==
  ASSUME PicturesInv, NEW i \in 1..MaxPictures, Rows!Running(i), \A j \in 1..(i - 1) : ~Rows!Running(j),
         section' = section, NEW step \in {"write", "tidy", "done"}, tasks' = [tasks EXCEPT ![i].at = step],
         UNCHANGED <<photos, listFetch, unwanted, missed>>, pictures' \in Seq(Keys),
         kept' = kept \/ (kept' = kept \cup {tasks[i].key} /\ tasks[i].kind = "upload"),
         PortraitOK', Rows!PhotosStay', TaskOK(tasks[i])'
  PROVE PicturesInv'
<1> DEFINE t == [tasks[i] EXCEPT !.at = step]
<1>1. tasks[i] # Rows!NoTask /\ tasks[i] \in PictureTask BY EmptyTask DEF Rows!Running, PicturesInv, PicturesTypeOK
<1>2. /\ t \in PictureTask /\ t.kind = tasks[i].kind /\ t.key = tasks[i].key /\ t.order = tasks[i].order
      /\ t.at = step /\ tasks' = [tasks EXCEPT ![i] = t]
  BY <1>1 DEF PictureTask
<1> HIDE DEF t
<1>3. t # Rows!NoTask BY <1>2, EmptyTask
<1>4. PicturesTypeOK' BY <1>2 DEF PicturesInv, PicturesTypeOK
<1>5. InTurn' BY <1>1, <1>2, <1>3, TurnStays
<1>6. KeptAsked' BY <1>2, <1>3, AskedStay
<1>7. \A j \in 1..MaxPictures : MoveKnows(j)' BY <1>2, MovesStay
<1>8. ASSUME NEW j \in 1..MaxPictures, j # i PROVE TaskOK(tasks[j])'
  <2>1. tasks'[j] = tasks[j] BY <1>2, <1>8 DEF PicturesInv, PicturesTypeOK
  <2>2. tasks[j].at \in {"idle", "read", "done"} BY <1>8, OneAtWork
  <2> QED BY <2>1, <2>2, TaskStays
<1> QED BY <1>4, <1>5, <1>6, <1>7, <1>8 DEF PicturesInv

LEMMA StorePicture ==
  ASSUME PicturesInv, NEW i \in 1..MaxPictures, Rows!Running(i), \A j \in 1..(i - 1) : ~Rows!Running(j),
         tasks[i].at = "store", section' = section, bucket' = bucket \cup {tasks[i].key},
         tasks' = [tasks EXCEPT ![i].at = "write"],
         UNCHANGED <<pictures, photos, listFetch, kept, unwanted, missed>>
  PROVE PicturesInv'
<1>1. tasks[i] \in PictureTask /\ TaskOK(tasks[i]) /\ pictures \in Seq(Keys) BY DEF PicturesInv, PicturesTypeOK
<1>2. tasks'[i] = [tasks[i] EXCEPT !.at = "write"] BY DEF PicturesInv, PicturesTypeOK
<1>3. /\ tasks'[i].kind = tasks[i].kind /\ tasks'[i].key = tasks[i].key /\ tasks'[i].prior = tasks[i].prior
      /\ tasks'[i].at = "write" /\ tasks[i].kind = "upload"
  BY <1>1, <1>2 DEF PictureTask, TaskOK
<1>4. Rows!Portrait' = Rows!Portrait BY DEF Rows!Portrait
<1>5. TaskOK(tasks[i])' BY <1>1, <1>3, <1>4 DEF TaskOK
<1>6. PortraitOK' /\ Rows!PhotosStay' BY <1>4 DEF PicturesInv, PortraitOK, Rows!PhotosStay
<1> QED BY <1>1, <1>5, <1>6, WorkFrame

LEMMA WritePictures ==
  ASSUME PicturesInv, NEW i \in 1..MaxPictures, Rows!Running(i), \A j \in 1..(i - 1) : ~Rows!Running(j),
         tasks[i].at = "write", section' = section, bucket' = bucket, pictures' = Rows!NewKeys(tasks[i]),
         kept' = IF tasks[i].kind = "upload" THEN kept \cup {tasks[i].key} ELSE kept,
         tasks' = [tasks EXCEPT ![i].at = "tidy"], UNCHANGED <<photos, listFetch, unwanted, missed>>
  PROVE PicturesInv'
<1> DEFINE t == tasks[i]
<1>1. t \in PictureTask /\ TaskOK(t) /\ pictures \in Seq(Keys) BY DEF PicturesInv, PicturesTypeOK
<1>2. tasks'[i] = [t EXCEPT !.at = "tidy"] BY DEF PicturesInv, PicturesTypeOK
<1>3. /\ tasks'[i].kind = t.kind /\ tasks'[i].key = t.key /\ tasks'[i].prior = t.prior
      /\ tasks'[i].order = t.order /\ tasks'[i].at = "tidy"
  BY <1>1, <1>2 DEF PictureTask
<1>4. /\ t.kind \in {"upload", "remove", "move"} /\ t.prior = pictures
      /\ t.kind = "upload" => t.key \in Keys /\ t.key \in bucket
      /\ t.kind = "remove" => t.key \in unwanted
      /\ t.kind = "move" => section = "portfolio"
  BY <1>1 DEF TaskOK
<1>5. Rows!Portrait' = Rows!Portrait BY DEF Rows!Portrait
<1>6. /\ pictures' \in Seq(Keys)
      /\ t.kind = "upload" /\ Rows!Portrait => Len(pictures') = 1 /\ Rows!ToSet(pictures') = {t.key}
      /\ t.kind = "upload" /\ ~Rows!Portrait => Rows!ToSet(pictures') = Rows!ToSet(pictures) \cup {t.key}
      /\ t.kind = "remove" =>
           /\ Rows!ToSet(pictures) \ {t.key} \subseteq Rows!ToSet(pictures')
           /\ Len(pictures) \in {0, 1} =>
                Len(pictures') \in {0, 1} /\ Rows!ToSet(pictures') \subseteq Rows!ToSet(pictures)
      /\ t.kind = "move" => pictures' = t.order
  BY <1>1, <1>4, NewKeysOK
<1>7. Rows!NewKeys(tasks[i])' = Rows!NewKeys(t) BY <1>3, <1>4, <1>5 DEF Rows!NewKeys
<1>8. TaskOK(tasks[i])' BY <1>1, <1>3, <1>4, <1>5, <1>7 DEF TaskOK, Rows!NoTask
<1>9. Rows!ToSet(pictures)' = Rows!ToSet(pictures') BY DEF Rows!ToSet
<1>10. PortraitOK'
  <2> SUFFICES ASSUME Rows!Portrait PROVE Len(pictures') \in {0, 1} /\ Rows!ToSet(pictures') \subseteq bucket
    BY <1>5, <1>9 DEF PortraitOK
  <2>1. Len(pictures) \in {0, 1} /\ Rows!ToSet(pictures) \subseteq bucket BY DEF PicturesInv, PortraitOK
  <2>2. t.kind # "move" BY <1>4 DEF Rows!Portrait
  <2> QED BY <1>4, <1>6, <2>1, <2>2
<1>11. Rows!PhotosStay'
  <2> SUFFICES ASSUME section = "portfolio" PROVE kept' \ (unwanted \cup missed) \subseteq Rows!ToSet(pictures')
    BY <1>9 DEF Rows!PhotosStay
  <2>1. ~Rows!Portrait BY DEF Rows!Portrait
  <2>2. kept \ (unwanted \cup missed) \subseteq Rows!ToSet(pictures) BY DEF PicturesInv, Rows!PhotosStay
  <2>3. CASE t.kind = "upload" BY <1>6, <2>1, <2>2, <2>3
  <2>4. CASE t.kind = "remove" BY <1>4, <1>6, <2>2, <2>4
  <2>5. CASE t.kind = "move"
    <3>1. kept \subseteq Rows!ToSet(t.order) \cup missed BY <2>5 DEF PicturesInv, MoveKnows
    <3> QED BY <1>6, <2>5, <3>1
  <2> QED BY <1>4, <2>3, <2>4, <2>5
<1>12. kept' = kept \/ (kept' = kept \cup {t.key} /\ t.kind = "upload") OBVIOUS
<1> QED BY <1>6, <1>8, <1>10, <1>11, <1>12, WorkFrame

LEMMA TidyBucket ==
  ASSUME PicturesInv, NEW i \in 1..MaxPictures, Rows!Running(i), \A j \in 1..(i - 1) : ~Rows!Running(j),
         tasks[i].at = "tidy", section' = section, bucket' = bucket \ Rows!Superseded(tasks[i]),
         tasks' = [tasks EXCEPT ![i].at = "done"],
         UNCHANGED <<pictures, photos, listFetch, kept, unwanted, missed>>
  PROVE PicturesInv'
<1> DEFINE t == tasks[i]
<1>1. t \in PictureTask /\ TaskOK(t) /\ pictures \in Seq(Keys) BY DEF PicturesInv, PicturesTypeOK
<1>2. tasks'[i] = [t EXCEPT !.at = "done"] BY DEF PicturesInv, PicturesTypeOK
<1>3. tasks'[i].kind = t.kind /\ tasks'[i].key = t.key /\ tasks'[i].prior = t.prior /\ tasks'[i].at = "done"
  BY <1>1, <1>2 DEF PictureTask
<1>4. Rows!Portrait' = Rows!Portrait BY DEF Rows!Portrait
<1>5. TaskOK(tasks[i])' BY <1>1, <1>3, <1>4 DEF TaskOK, Rows!NoTask
<1>6. Rows!PhotosStay' BY DEF PicturesInv, Rows!PhotosStay
<1>7. PortraitOK'
  <2> SUFFICES ASSUME Rows!Portrait PROVE Rows!ToSet(pictures) \cap Rows!Superseded(t) = {}
    BY <1>4 DEF PicturesInv, PortraitOK
  <2>1. pictures = Rows!NewKeys(t) /\ Len(t.prior) \in {0, 1} /\ t.prior \in Seq(Keys)
        /\ t.kind \in {"upload", "remove", "move"}
    BY <1>1 DEF TaskOK, PictureTask
  <2>2. CASE t.kind = "remove"
    <3>1. pictures = Rows!WithoutKey(t.prior, t.key) BY <2>1, <2>2 DEF Rows!NewKeys
    <3>2. t.key \notin Rows!ToSet(pictures) BY <2>1, <3>1, WithoutKeyKeeps
    <3> QED BY <2>2, <3>2 DEF Rows!Superseded
  <2>3. CASE t.kind = "upload"
    <3>1. pictures = <<t.key>> BY <2>1, <2>3 DEF Rows!NewKeys
    <3>2. Rows!ToSet(pictures) = {t.key} BY <3>1 DEF Rows!ToSet
    <3>3. t.key \notin Rows!Superseded(t) BY <2>3 DEF Rows!Superseded
    <3> QED BY <3>2, <3>3
  <2>4. t.kind # "move" BY <1>1 DEF TaskOK, Rows!Portrait
  <2> QED BY <2>1, <2>2, <2>3, <2>4
<1> QED BY <1>1, <1>5, <1>6, <1>7, WorkFrame

LEMMA WorkStep == ASSUME PicturesInv, NEW i \in 1..MaxPictures, Rows!Work(i) PROVE PicturesInv'
<1>1. /\ Rows!Running(i) /\ \A j \in 1..(i - 1) : ~Rows!Running(j)
      /\ section' = section /\ UNCHANGED <<photos, listFetch, unwanted, missed>>
  BY DEF Rows!Work
<1>2. CASE tasks[i].at = "read"
  <2>1. /\ UNCHANGED <<pictures, bucket, kept>>
        /\ \/ tasks' = [tasks EXCEPT ![i].at = "done"]
           \/ tasks' = [tasks EXCEPT ![i].prior = pictures,
                                     ![i].at = IF tasks[i].kind = "upload" THEN "store" ELSE "write"]
    BY <1>2 DEF Rows!Work
  <2>2. PICK t : /\ tasks' = [tasks EXCEPT ![i] = t]
                 /\ \/ t = [tasks[i] EXCEPT !.at = "done"]
                    \/ t = [tasks[i] EXCEPT !.prior = pictures,
                                            !.at = IF tasks[i].kind = "upload" THEN "store" ELSE "write"]
    <3>1. CASE tasks' = [tasks EXCEPT ![i].at = "done"] BY <3>1
    <3>2. CASE tasks' = [tasks EXCEPT ![i].prior = pictures,
                                      ![i].at = IF tasks[i].kind = "upload" THEN "store" ELSE "write"]
      <4>1. tasks' = [tasks EXCEPT ![i] = [tasks[i] EXCEPT !.prior = pictures,
                                                           !.at = IF tasks[i].kind = "upload" THEN "store" ELSE "write"]]
        BY <3>2 DEF PicturesInv, PicturesTypeOK
      <4> QED BY <4>1
    <3> QED BY <2>1, <3>1, <3>2
  <2> QED BY <1>1, <1>2, <2>1, <2>2, ReadPictures
<1>3. CASE tasks[i].at = "store" BY <1>1, <1>3, StorePicture DEF Rows!Work
<1>4. CASE tasks[i].at = "write" BY <1>1, <1>4, WritePictures DEF Rows!Work
<1>5. CASE tasks[i].at = "tidy" BY <1>1, <1>5, TidyBucket DEF Rows!Work
<1> QED BY <1>2, <1>3, <1>4, <1>5 DEF Rows!Work

LEMMA PictureStepOK == ASSUME PicturesInv, Rows!PictureStep PROVE PicturesInv'
<1>1. CASE Rows!ServeList \/ Rows!ShowList \/ Rows!FetchFails BY <1>1, FetchSteps
<1>2. ASSUME NEW i \in 1..MaxPictures, Rows!Work(i) PROVE PicturesInv' BY <1>2, WorkStep
<1>3. ASSUME NEW i \in 1..MaxPictures, Rows!PictureAnswered(i) \/ Rows!PictureFails(i) PROVE PicturesInv'
  BY <1>3, OverStep
<1>4. ASSUME NEW i \in 1..MaxPictures,
             \/ \E k \in Keys : Rows!Upload(i, k) \/ Rows!RemovePicture(i, k)
             \/ \E a \in 1..MaxPictures : Rows!Move(i, a)
      PROVE PicturesInv'
  BY <1>4, NewRequests
<1> QED BY <1>1, <1>2, <1>3, <1>4 DEF Rows!PictureStep


LEMMA RowLeavesDocs == ASSUME DocsInv, Rows!RowStep \/ Rows!PictureStep PROVE DocsInv'
<1>1. CASE Rows!ServeList \/ Rows!ShowList \/ Rows!FetchFails
  BY <1>1, DocsStay DEF Rows!ServeList, Rows!ShowList, Rows!FetchFails, Rows!docVars
<1>2. CASE Rows!Edit \/ Rows!Cancel \/ Rows!Add \/ Rows!Deactivate
  BY <1>2, DocsStay DEF Rows!Edit, Rows!Cancel, Rows!Add, Rows!Deactivate, Rows!docVars
<1>3. ASSUME NEW f \in Rows!Fields, NEW v, Rows!Type(f, v) \/ Rows!OtherSaves(f, v) PROVE DocsInv'
  BY <1>3, DocsStay DEF Rows!Type, Rows!OtherSaves, Rows!docVars
<1>4. ASSUME NEW i \in 1..MaxSaves, Rows!Submit(i) \/ Rows!Patch(i) \/ Rows!Saved(i) \/ Rows!SaveFails(i)
      PROVE DocsInv'
  BY <1>4, DocsStay DEF Rows!Submit, Rows!Patch, Rows!Saved, Rows!SaveFails, Rows!docVars
<1>5. ASSUME NEW i \in 1..MaxPictures, Rows!Work(i) \/ Rows!PictureAnswered(i) \/ Rows!PictureFails(i) PROVE DocsInv'
  BY <1>5, DocsStay DEF Rows!Work, Rows!PictureAnswered, Rows!PictureFails, Rows!docVars
<1>6. ASSUME NEW i \in 1..MaxPictures, NEW k \in Keys, Rows!Upload(i, k) \/ Rows!RemovePicture(i, k) PROVE DocsInv'
  BY <1>6, DocsStay DEF Rows!Upload, Rows!RemovePicture, Rows!Ask, Rows!docVars
<1>7. ASSUME NEW i \in 1..MaxPictures, NEW a \in 1..MaxPictures, Rows!Move(i, a) PROVE DocsInv'
  BY <1>7, DocsStay DEF Rows!Move, Rows!Ask, Rows!docVars
<1> QED BY <1>1, <1>2, <1>3, <1>4, <1>5, <1>6, <1>7 DEF Rows!RowStep, Rows!PictureStep

LEMMA PicturesLeaveRow == ASSUME Rows!RowAssumption, ListRowInv, Rows!PictureStep PROVE ListRowInv'
<1>1. CASE Rows!ServeList \/ Rows!ShowList \/ Rows!FetchFails
  <2>1. Rows!RowStep BY <1>1 DEF Rows!RowStep
  <2> QED BY <2>1, ListRowStepOK
<1>2. ASSUME NEW i \in 1..MaxPictures, Rows!Work(i) \/ Rows!PictureAnswered(i) \/ Rows!PictureFails(i) PROVE ListRowInv'
  BY <1>2, ListRowStays DEF Rows!Work, Rows!PictureAnswered, Rows!PictureFails, Rows!rowVars
<1>3. ASSUME NEW i \in 1..MaxPictures, NEW k \in Keys, Rows!Upload(i, k) \/ Rows!RemovePicture(i, k)
      PROVE ListRowInv'
  BY <1>3, ListRowStays DEF Rows!Upload, Rows!RemovePicture, Rows!Ask, Rows!rowVars
<1>4. ASSUME NEW i \in 1..MaxPictures, NEW a \in 1..MaxPictures, Rows!Move(i, a) PROVE ListRowInv'
  BY <1>4, ListRowStays DEF Rows!Move, Rows!Ask, Rows!rowVars
<1> QED BY <1>1, <1>2, <1>3, <1>4 DEF Rows!PictureStep

LEMMA DocsLeaveLists == ASSUME ListRowInv, PicturesInv, Rows!DocStep PROVE ListRowInv' /\ PicturesInv'
<1>1. UNCHANGED <<section, listRow, list, rowForm, rowSaves, wanted, unwritten, pictures, bucket, tasks, photos,
                  kept, unwanted, missed, listFetch>>
  <2>1. ASSUME NEW w \in Admins,
               \/ Rows!ReadDocs(w) \/ Rows!ChooseInsurance(w) \/ Rows!SendDoc(w) \/ Rows!CheckDoc(w)
               \/ Rows!InsertDoc(w) \/ Rows!DocRefused(w)
        PROVE UNCHANGED <<section, listFetch, Rows!rowVars, Rows!pictureVars>>
    BY <2>1 DEF Rows!ReadDocs, Rows!ChooseInsurance, Rows!SendDoc, Rows!CheckDoc, Rows!InsertDoc, Rows!DocRefused
  <2>2. ASSUME NEW d \in DOMAIN docs, Rows!DocChanges(d)
        PROVE UNCHANGED <<section, listFetch, Rows!rowVars, Rows!pictureVars>>
    BY <2>2 DEF Rows!DocChanges
  <2>3. UNCHANGED <<section, listFetch, Rows!rowVars, Rows!pictureVars>> BY <2>1, <2>2 DEF Rows!DocStep
  <2> QED BY <2>3 DEF Rows!rowVars, Rows!pictureVars
<1>2. photos \in Seq(Keys) BY DEF PicturesInv, PicturesTypeOK
<1> QED BY <1>1, <1>2, ListRowStays, FetchForms, FetchOnly

LEMMA RowsStart == ASSUME SettingsInit PROVE RowsInv
BY SettingsAssumption, ListRowStart, PicturesStart, DocsStart DEF SettingsInit, RowsInv

LEMMA RowsStep == ASSUME RowsInv, [SettingsNext]_<<scene, vars, lists, pages>> PROVE RowsInv'
<1> USE DEF RowsInv
<1>1. Rows!RowAssumption BY SettingsAssumption
<1>2. CASE lists' = lists
  <2>1. UNCHANGED <<section, listRow, list, rowForm, rowSaves, wanted, unwritten, pictures, bucket, tasks, photos,
                    kept, unwanted, missed, listFetch, docs, admins>>
    BY <1>2 DEF lists
  <2>2. photos \in Seq(Keys) BY DEF PicturesInv, PicturesTypeOK
  <2> QED BY <2>1, <2>2, ListRowStays, FetchForms, FetchOnly, DocsStay
<1>3. CASE Rows!RowStep BY <1>1, <1>3, ListRowStepOK, RowLeavesPictures, RowLeavesDocs
<1>4. CASE Rows!PictureStep BY <1>1, <1>4, PicturesLeaveRow, PictureStepOK, RowLeavesDocs
<1>5. CASE Rows!DocStep BY <1>5, DocsLeaveLists, DocStepOK
<1> QED BY <1>2, <1>3, <1>4, <1>5 DEF SettingsNext

\* For any number of saves, uploads, moves and windows: a save the server carried out leaves
\* what was typed and overwrites nothing another manager stored in a field nobody typed into;
\* no photo is lost but by its removal or by a move on a list that did not show it yet; no
\* portrait refers to an object that is gone; and there is one active insurance document.
THEOREM RowsHold == SettingsSpec => []RowsAreKept
<1>1. SettingsInit => RowsInv BY RowsStart
<1>2. RowsInv /\ [SettingsNext]_<<scene, vars, lists, pages>> => RowsInv' BY RowsStep
<1>3. RowsInv => RowsAreKept
  BY InsuranceIn DEF RowsInv, ListRowInv, PicturesInv, PortraitOK, Rows!PortraitExists, RowsAreKept
<1> QED BY <1>1, <1>2, <1>3, PTL DEF SettingsSpec

===============================================================================
