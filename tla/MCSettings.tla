------------------------------- MODULE MCSettings -------------------------------
(* What is changed on the settings pages, side by side: a behaviour explores one    *)
(* part, the lists of a proposal, the users or the forms.                          *)
EXTENDS UserAdmin, TLC

CONSTANTS
  Blank, Null, Absent, Texts, Keys, Admins, MaxTyped, MaxPictures, MaxDocs,
  field, other, b1, b2, p1, p2,
  Values, FieldsOf, Factors, MaxSaves, MaxOthers, MaxPicks, window, risk

VARIABLES
  scene,     \* what is explored
  section, listRow, list, listFetch, rowForm, rowSaves, pictures, bucket, tasks, photos, docs, admins,
  wanted, unwritten, kept, unwanted, missed, rowOthers, rowMishaps,
  row, cache, fetch, page, saves, typed, undone, strange, crossed, override, listed, factorForm, factorSave, promised,
  rate, known, shown, kit, blurs, typedFor, others, formMishaps

Rows == INSTANCE SettingsRows WITH
  row <- listRow, fetch <- listFetch, form <- rowForm, saves <- rowSaves, shown <- photos,
  undone <- unwritten, others <- rowOthers, mishaps <- rowMishaps, Overlap <- FALSE

Forms == INSTANCE SettingsForms WITH Hasty <- FALSE, mishaps <- formMishaps

MCFieldsOf == [sla |-> {window, risk}, tiers |-> {}]

ASSUME SettingsAssumption == Rows!RowAssumption /\ UserAssumption /\ Forms!FormsAssumption

lists == <<section, listRow, list, listFetch, rowForm, rowSaves, pictures, bucket, tasks, photos, docs, admins,
           wanted, unwritten, kept, unwanted, missed, rowOthers, rowMishaps>>
pages == <<row, cache, fetch, page, saves, typed, undone, strange, crossed, override, listed, factorForm, factorSave,
           promised, rate, known, shown, kit, blurs, typedFor, others, formMishaps>>

\* What a scene does not look at starts in one way.
SettingsInit ==
  /\ Init /\ Rows!Init /\ Forms!Init
  /\ scene \in {"row", "pictures", "insurance", "user", "authorize", "company", "factors", "kit"}
  /\ scene \notin {"row", "pictures"} => section = "documents"
  /\ scene = "pictures" => section # "references"
  /\ shown = b1
  /\ IF scene = "user" THEN user.role # other ELSE user.role = other /\ user.rep
  /\ scene # "kit" => rate = [b \in Branches |-> Forms!Lowest]

SettingsNext ==
  /\ UNCHANGED scene
  /\ \/ /\ UNCHANGED <<vars, lists>>
        /\ \/ scene = "company" /\ Forms!CompanyStep
           \/ scene = "factors" /\ Forms!FactorStep
           \/ scene = "kit" /\ Forms!KitStep
     \/ /\ UNCHANGED <<vars, pages>>
        /\ \/ scene = "row" /\ Rows!RowStep
           \/ scene = "pictures" /\ Rows!PictureStep
           \/ scene = "insurance" /\ Rows!DocStep
     \/ /\ UNCHANGED <<lists, pages>>
        /\ \/ scene = "user" /\ RowStep
           \/ scene = "authorize" /\ AuthStep
SettingsSpec == SettingsInit /\ [][SettingsNext]_<<scene, vars, lists, pages>>

\* A save the server carried out leaves what was typed, whichever list the row is of, and
\* overwrites nothing another manager stored in a field nobody typed into; no photo is lost
\* but by its removal or by a move on a list that did not show it yet, no portrait refers
\* to an object that is gone, and there is one active insurance document.
RowsAreKept ==
  /\ Rows!SavedFormIsStored /\ Rows!OthersSurvive
  /\ Rows!PhotosStay /\ Rows!PortraitExists /\ Rows!OneInsurance
\* Forms of settings undo nothing that others stored, lose no factor that was saved, and
\* show in the end what is stored.
FormsAreTrue == Forms!UntouchedStay /\ Forms!CacheIsTrue /\ Forms!MarkIsTrue /\ Forms!FactorsSurvive
===============================================================================
