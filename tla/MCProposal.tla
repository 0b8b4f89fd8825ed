------------------------------ MODULE MCProposal -------------------------------
(* The two halves of a proposal, one run: the documents it appends, with two     *)
(* leads, a replaceable slot and two uploads; and its form and pages, with two   *)
(* field reps and the office, two regions, an executive of the company, an       *)
(* account manager of the first rep and a colleague of the second.               *)
EXTENDS ProposalDocuments, TLC

CONSTANTS
  rep, peer, admin, east, west, e1, m1, t1, f1, f2,
  Members, Executive, Manager, FieldReps, Office, Regions, Properties, Photographed,
  PerPage, Services, Creators, Dragged, MaxEdits

VARIABLES
  scene,     \* documents or pages
  active, contract, proposal, creator, draft, coverage, picker, panel, edits, turns

Owner == e1 :> None @@ m1 :> rep @@ t1 :> peer
RegionOf == e1 :> west @@ m1 :> east @@ t1 :> None
Home == rep :> {east} @@ peer :> {east, west} @@ admin :> {}
FileSymmetry == Permutations({f1, f2})

Pages == INSTANCE ProposalPages WITH saved <- proposal, form <- draft, moves <- turns

ASSUME RosterAssumption == Pages!PagesAssumption

pages == <<active, contract, proposal, creator, draft, coverage, picker, panel, edits, turns>>

ProposalInit ==
  /\ scene \in {"documents", "pages"} /\ Init /\ Pages!Init
  /\ scene = "documents" => ~contract /\ creator = rep
ProposalNext ==
  \/ scene = "pages" /\ Pages!Next /\ UNCHANGED <<scene, vars>>
  \/ scene = "documents" /\ Next /\ UNCHANGED <<scene, pages>>
ProposalSpec == ProposalInit /\ [][ProposalNext]_<<scene, vars, pages>>

\* Whoever opens the document finds every chapter once, where the contents say, and
\* everybody the rep picked.
PagesAreWhole == Pages!EveryChapterOnce /\ Pages!PicksShipped
\* The documents of a proposal are those of its lead, all that had been answered for.
DocumentsFollowLead == DocsOfOneLead /\ AnsweredIsInherited
\* A region the user chose is never replaced by the one the server applied.
ChoiceStays == Pages!ChoiceStays
================================================================================
