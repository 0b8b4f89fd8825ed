------------------------------ MODULE SettingsForms -----------------------------
(*****************************************************************************)
(* The forms of the settings pages, one of which is on the screen: those of  *)
(* the one row of company settings, which show the cached row, change it     *)
(* before the server has answered and start anew with every version of it;   *)
(* the material factors of a branch, saved as one object; and the production *)
(* rate of a kit, saved when its field is left.                              *)
(*****************************************************************************)
EXTENDS Integers, FiniteSets

CONSTANTS
  Values, Blank, Absent,   \* what a field can hold, an empty field, nothing
  FieldsOf,                \* form of company settings -> its fields
  Factors,                 \* the factors of a material
  Branches,
  Hasty,                   \* a user types on, or leaves, before the last answer
  MaxSaves, MaxOthers, MaxMishaps, MaxPicks   \* bounds

FormsAssumption ==
  /\ Absent \notin Values /\ Blank \notin Values \cup {Absent} /\ Hasty \in BOOLEAN
  /\ \A f, g \in DOMAIN FieldsOf : f # g => FieldsOf[f] \cap FieldsOf[g] = {}

Fields == UNION {FieldsOf[f] : f \in DOMAIN FieldsOf}

VARIABLES
  row, cache, fetch,   \* company settings: stored, cached, being read again
  page,                \* the form on the screen
  saves,               \* its PATCHes
  typed, undone,       \* ghosts: the values typed in this window; see UntouchedStay
  strange,             \* ghost: the row changed since it was last read, or the read failed
  crossed,             \* ghost: a save was sent while another one was under way
  override, listed, factorForm, factorSave, promised,  \* material factors, see below
  rate, known, shown, kit, blurs, typedFor,            \* production rates, see below
  others, mishaps

companyVars == <<row, cache, fetch, page, saves, typed, undone, strange, crossed>>
factorVars == <<override, listed, factorForm, factorSave, promised>>
kitVars == <<rate, known, shown, kit, blurs, typedFor>>
vars == <<others, mishaps, companyVars, factorVars, kitVars>>

Lowest == CHOOSE v \in Values : \A u \in Values : v <= u
NoPage == [form |-> Absent, key |-> 0, save |-> 0, text |-> <<>>]
NoFetch == [at |-> "none", row |-> Absent]
NoSave == [at |-> "idle", body |-> <<>>, previous |-> Absent]
NoKit == [draft |-> Absent, mark |-> FALSE, save |-> 0]
NoBlur == [at |-> "idle", branch |-> Absent, value |-> Absent]
Base == [f \in Factors |-> Lowest]

Init ==
  /\ row = [fields |-> [f \in Fields |-> Lowest], version |-> 1]
  /\ cache = row /\ fetch = NoFetch /\ page = NoPage
  /\ saves = [i \in 1..MaxSaves |-> NoSave]
  /\ typed = [f \in Fields |-> {}] /\ undone = FALSE /\ strange = FALSE /\ crossed = FALSE
  /\ override = [b \in Branches |-> <<>>] /\ listed = [b \in Branches |-> <<>>]
  /\ factorForm = Absent /\ factorSave = Absent /\ promised = [b \in Branches |-> <<>>]
  /\ rate \in [Branches -> Values] /\ known = [b \in Branches |-> Absent]
  /\ shown \in Branches /\ kit = NoKit /\ blurs = [i \in 1..MaxSaves |-> NoBlur]
  /\ typedFor = [b \in Branches |-> {}]
  /\ others = 0 /\ mishaps = 0

Mishap == mishaps < MaxMishaps /\ mishaps' = mishaps + 1
Other == others < MaxOthers /\ others' = others + 1

-----------------------------------------------------------------------------
(* Company settings                                                          *)

\* Mutant of KeyOf: the form is the same whatever the row says.
KeyOfRow(c) == 1

\* key={data.updated_at}.  It counts changes here; the column counts seconds.
KeyOf(c) == c.version

Shows(c, f) == [form |-> f, key |-> KeyOf(c), save |-> 0, text |-> [g \in FieldsOf[f] |-> c.fields[g]]]

\* What React makes of a new row in the cache: another key is another form.
Rendered(c, p) == IF p.form # Absent /\ KeyOf(c) # p.key THEN Shows(c, p.form) ELSE p

OpenForm(f) ==
  /\ page.form # f /\ page' = Shows(cache, f)
  /\ UNCHANGED <<others, mishaps, row, cache, fetch, saves, typed, undone, strange, crossed, factorVars, kitVars>>

TypeField(f, v) ==
  /\ page.form # Absent /\ f \in FieldsOf[page.form] /\ page.text[f] # v /\ v \notin typed[f]  \* bound
  /\ page' = [page EXCEPT !.text[f] = v] /\ typed' = [typed EXCEPT ![f] = @ \cup {v}]
  /\ UNCHANGED <<others, mishaps, row, cache, fetch, saves, undone, strange, crossed, factorVars, kitVars>>

\* What differs from the cached row.
Patch(f) == {g \in FieldsOf[f] : page.text[g] # cache.fields[g]}

UnderWay(i) == saves[i].at \in {"sent", "stored"}

\* The button is disabled while a save is pending that this form, since it was last made
\* anew, has sent.
Pending == page.save # 0 /\ saves[page.save].at # "over"

\* onMutate: a read under way is cancelled, the row remembered and changed.
SaveForm(i) ==
  LET f == page.form
      body == [g \in Patch(f) |-> page.text[g]] IN
  /\ f # Absent /\ Patch(f) # {} /\ ~Pending
  /\ saves[i] = NoSave /\ \A j \in 1..(i - 1) : saves[j] # NoSave
  /\ saves' = [saves EXCEPT ![i] = [at |-> "sent", body |-> body, previous |-> cache]]
  /\ page' = [page EXCEPT !.save = i]
  /\ cache' = [cache EXCEPT !.fields = [g \in Fields |-> IF g \in DOMAIN body THEN body[g] ELSE @[g]]]
  /\ fetch' = NoFetch /\ crossed' = (crossed \/ \E j \in 1..MaxSaves : UnderWay(j))
  /\ UNCHANGED <<others, mishaps, row, typed, undone, strange, factorVars, kitVars>>

StorePatch(i) ==
  LET body == saves[i].body IN
  /\ saves[i].at = "sent" /\ saves' = [saves EXCEPT ![i].at = "stored"]
  /\ row' = [fields |-> [g \in Fields |-> IF g \in DOMAIN body THEN body[g] ELSE row.fields[g]],
             version |-> row.version + 1]
  /\ undone' = (undone \/ \E g \in DOMAIN body : body[g] \notin typed[g] /\ body[g] # row.fields[g])
  /\ UNCHANGED <<others, mishaps, cache, fetch, page, typed, strange, crossed, factorVars, kitVars>>

\* Mutant of Again: the row is read again after a success only.
AgainIfStored(ok) == IF ok THEN [NoFetch EXCEPT !.at = "sent"] ELSE fetch

\* onSettled: the row is read again, whatever the outcome.
Again(ok) == [NoFetch EXCEPT !.at = "sent"]

PatchSettled(i) ==
  /\ UnderWay(i) /\ saves' = [saves EXCEPT ![i] = [NoSave EXCEPT !.at = "over"]]
  /\ \/ saves[i].at = "stored" /\ fetch' = Again(TRUE) /\ UNCHANGED <<mishaps, cache, page>>
     \/ /\ Mishap /\ fetch' = Again(FALSE)   \* refused, or the answer is lost
        /\ cache' = saves[i].previous /\ page' = Rendered(saves[i].previous, page)
  /\ UNCHANGED <<others, row, typed, undone, strange, crossed, factorVars, kitVars>>

\* The read is answered with the row of some moment, and shown later.
ReadRow ==
  /\ \/ fetch.at = "none" /\ fetch' = Again(TRUE) /\ UNCHANGED <<cache, page, strange>>  \* looked at again
     \/ fetch.at = "sent" /\ fetch' = [at |-> "served", row |-> row] /\ strange' = FALSE /\ UNCHANGED <<cache, page>>
     \/ fetch.at = "served" /\ fetch' = NoFetch /\ cache' = fetch.row /\ page' = Rendered(fetch.row, page) /\ UNCHANGED strange
  /\ UNCHANGED <<others, mishaps, row, saves, typed, undone, crossed, factorVars, kitVars>>

ReadFails ==
  /\ fetch.at # "none" /\ Mishap /\ fetch' = NoFetch /\ strange' = TRUE
  /\ UNCHANGED <<others, row, cache, page, saves, typed, undone, crossed, factorVars, kitVars>>

OtherAdmin(f, v) ==
  /\ Other /\ row.fields[f] # v /\ row' = [fields |-> [row.fields EXCEPT ![f] = v], version |-> row.version + 1]
  /\ strange' = TRUE
  /\ UNCHANGED <<mishaps, cache, fetch, page, saves, typed, undone, crossed, factorVars, kitVars>>

CompanyStep ==
  \/ ReadRow \/ ReadFails
  \/ \E f \in DOMAIN FieldsOf : OpenForm(f)
  \/ \E f \in Fields, v \in Values : TypeField(f, v) \/ OtherAdmin(f, v)
  \/ \E i \in 1..MaxSaves : SaveForm(i) \/ StorePatch(i) \/ PatchSettled(i)

-----------------------------------------------------------------------------
(* Material factors.  The list has the row of the company and the overriding
   rows of every branch; a field of the form is named for its factor alone, so
   the last row that has the factor provides its first value.                  *)

Rank == CHOOSE r \in [Branches -> 1..Cardinality(Branches)] : \A a, b \in Branches : a # b => r[a] # r[b]
HavingFactor(f) == {b \in Branches : f \in DOMAIN listed[b]}
LastHaving(f) == CHOOSE b \in HavingFactor(f) : \A c \in HavingFactor(f) : Rank[c] <= Rank[b]

\* Mutant of flattenFactors: the row of the company only.
flattenBase(f) == {Base[f]}

\* The originals of a field: one of each row that has the factor.
flattenFactors(f) == {Base[f]} \cup {listed[b][f] : b \in HavingFactor(f)}

OpenFactors ==
  /\ factorForm = Absent
  /\ factorForm' = [f \in Factors |-> IF HavingFactor(f) = {} \/ flattenFactors(f) = {Base[f]} THEN Base[f]
                                      ELSE listed[LastHaving(f)][f]]
  /\ UNCHANGED <<others, mishaps, override, listed, factorSave, promised, companyVars, kitVars>>

LeaveFactors ==
  /\ factorForm # Absent /\ (Hasty \/ (factorSave = Absent /\ listed = override)) /\ factorForm' = Absent
  /\ UNCHANGED <<others, mishaps, override, listed, factorSave, promised, companyVars, kitVars>>

TypeFactor(f, v) ==
  /\ factorForm # Absent /\ factorForm[f] # v /\ (Hasty \/ (factorSave = Absent /\ listed = override))
  /\ factorForm' = [factorForm EXCEPT ![f] = v]
  /\ UNCHANGED <<others, mishaps, override, listed, factorSave, promised, companyVars, kitVars>>

\* Every field that differs from one of its originals.
SaveFactors ==
  LET changed == {f \in Factors : \E v \in flattenFactors(f) : factorForm[f] # v} IN
  /\ factorForm # Absent /\ factorSave = Absent /\ changed # {}
  /\ others < MaxSaves /\ others' = others + 1
  /\ factorSave' = [branch |-> shown, body |-> [f \in changed |-> factorForm[f]], at |-> "sent"]
  /\ UNCHANGED <<mishaps, override, listed, factorForm, promised, companyVars, kitVars>>

\* _write_material_factors: the object that was sent is the new override.
StoreFactors ==
  LET s == factorSave IN
  /\ s # Absent /\ s.at = "sent" /\ factorSave' = [s EXCEPT !.at = "stored"]
  /\ override' = [override EXCEPT ![s.branch] = s.body]
  /\ promised' = [promised EXCEPT ![s.branch] =
       [f \in DOMAIN s.body \cup DOMAIN @ |-> IF f \in DOMAIN s.body THEN s.body[f] ELSE @[f]]]
  /\ UNCHANGED <<others, mishaps, listed, factorForm, companyVars, kitVars>>

FactorsSettled ==
  /\ factorSave # Absent /\ factorSave' = Absent
  /\ factorSave.at = "sent" => Mishap
  /\ factorSave.at = "stored" => UNCHANGED mishaps
  /\ UNCHANGED <<others, override, listed, factorForm, promised, companyVars, kitVars>>

ListFactors ==
  /\ listed # override /\ listed' = override
  /\ UNCHANGED <<others, mishaps, override, factorForm, factorSave, promised, companyVars, kitVars>>

FactorStep ==
  \/ OpenFactors \/ LeaveFactors \/ SaveFactors \/ StoreFactors \/ FactorsSettled \/ ListFactors
  \/ \E f \in Factors, v \in Values : TypeFactor(f, v)

-----------------------------------------------------------------------------
(* The production rate of a kit.  The row is keyed by the kit: it is made when
   the settings of a branch are there to show, and stays when the picker moves
   to a branch whose settings are in the cache.                                *)

Waiting == \E i \in 1..MaxSaves : blurs[i].at \in {"sent", "stored"}

PickBranch(b) ==
  /\ b # shown /\ others < MaxPicks /\ others' = others + 1 /\ shown' = b
  /\ kit' = IF known[b] = Absent THEN NoKit ELSE kit
  /\ UNCHANGED <<mishaps, rate, known, blurs, typedFor, companyVars, factorVars>>

ReadRate(b) ==
  /\ known[b] # rate[b] /\ known' = [known EXCEPT ![b] = rate[b]]
  /\ kit' = IF b = shown /\ kit = NoKit THEN [NoKit EXCEPT !.draft = rate[b]] ELSE kit
  /\ UNCHANGED <<others, mishaps, rate, shown, blurs, typedFor, companyVars, factorVars>>

\* Mutant of TypeRate: the mark of the last save stays.
MarkOf(k) == k.mark
Unmarked(k) == FALSE

TypeRate(v) ==
  /\ kit # NoKit /\ kit.draft # v /\ (Hasty \/ ~Waiting)
  /\ kit' = [kit EXCEPT !.draft = v, !.mark = Unmarked(kit)]
  /\ typedFor' = [typedFor EXCEPT ![shown] = @ \cup {v}]
  /\ UNCHANGED <<others, mishaps, rate, known, shown, blurs, companyVars, factorVars>>

\* handleBlur: an unchanged value is not sent, an emptied field goes out as nothing.
Blur(i) ==
  /\ kit # NoKit /\ kit.draft # known[shown] /\ (Hasty \/ ~Waiting)
  /\ blurs[i] = NoBlur /\ \A j \in 1..(i - 1) : blurs[j] # NoBlur
  /\ blurs' = [blurs EXCEPT ![i] = [at |-> "sent", branch |-> shown, value |-> kit.draft]]
  /\ kit' = [kit EXCEPT !.mark = FALSE, !.save = i]
  /\ UNCHANGED <<others, mishaps, rate, known, shown, typedFor, companyVars, factorVars>>

\* patch_kit_rate: nothing submitted is a success, too.
StoreRate(i) ==
  /\ blurs[i].at = "sent" /\ blurs' = [blurs EXCEPT ![i].at = "stored"]
  /\ rate' = IF blurs[i].value = Blank THEN rate ELSE [rate EXCEPT ![blurs[i].branch] = blurs[i].value]
  /\ UNCHANGED <<others, mishaps, known, shown, kit, typedFor, companyVars, factorVars>>

\* The row is told of its last save only.
RateSettled(i) ==
  /\ blurs[i].at \in {"sent", "stored"} /\ blurs' = [blurs EXCEPT ![i].at = "over"]
  /\ \/ /\ blurs[i].at = "stored" /\ UNCHANGED mishaps
        /\ kit' = [kit EXCEPT !.mark = @ \/ kit.save = i]
     \/ Mishap /\ UNCHANGED kit
  /\ UNCHANGED <<others, rate, known, shown, typedFor, companyVars, factorVars>>

KitStep ==
  \/ \E b \in Branches : PickBranch(b) \/ ReadRate(b)
  \/ \E v \in Values \cup {Blank} : TypeRate(v)
  \/ \E i \in 1..MaxSaves : Blur(i) \/ StoreRate(i) \/ RateSettled(i)

Next == CompanyStep \/ FactorStep \/ KitStep
Spec == Init /\ [][Next]_vars

-----------------------------------------------------------------------------
(* Properties                                                                *)

\* A save of company settings changes a field only to a value somebody typed into this
\* window: what another administrator stored in a field that was not touched stays,
\* although the form shows an older row.  The exception is a failure after two saves were
\* under way at once: it puts back what one of them had shown, under a form opened since.
UntouchedStay == undone => crossed /\ mishaps > 0

\* (Does not hold: two overlapping saves, of which one fails, and a third.)
UntouchedAlwaysStay == ~undone

\* When nothing is under way and nobody else has written since, the cache says what is
\* stored: an optimistic change that failed, or whose answer was lost, is not left behind.
CacheIsTrue ==
  (\A i \in 1..MaxSaves : saves[i].at \in {"idle", "over"}) /\ fetch.at = "none" /\ ~strange => cache = row

\* What the form reads in an override: its factor, or else the one of the company.
ReadsAs(own, f) == IF f \in DOMAIN own THEN own[f] ELSE Base[f]

\* Although a save replaces the whole override of a branch, the form still reads every
\* factor that was saved before as it was saved.
FactorsSurvive ==
  \A b \in Branches : \A f \in DOMAIN promised[b] : ReadsAs(override[b], f) = promised[b][f]

\* (Does not hold: a factor that was set back to the company's value.)
FactorsStayStored == \A b \in Branches : DOMAIN promised[b] \subseteq DOMAIN override[b]

\* The mark beside a rate means that the rate in the field is the one that is stored, for
\* the branch the last save of this row was for.
MarkIsTrue == kit.mark /\ kit.draft # Blank => kit.draft = rate[blurs[kit.save].branch]

\* A branch gets only rates that were typed while it was shown.  The settings are "keyed
\* by branch so switching the picker re-reads the right branch" (useBranchSettings.ts:23-25).
TypedForItsBranch ==
  \A i \in 1..MaxSaves : blurs[i].at = "stored" => blurs[i].value \in typedFor[blurs[i].branch]
===============================================================================
