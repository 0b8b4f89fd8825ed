---------------------------- MODULE ProposalPages ----------------------------
(***************************************************************************)
(* From the form of a proposal to its pages: the rep ticks sections, picks *)
(* people from rosters filtered by region, describes the org chart and     *)
(* submits; the preview and the printed document are then computed, by     *)
(* whoever opens them, from what was saved and from the rosters and the    *)
(* estimate as they are then.  The preview can rearrange the chapters.     *)
(*                                                                         *)
(* A person is a row of team_members.  A field sales rep reads only the    *)
(* rows of their own and those of nobody (Owner = None).                   *)
(***************************************************************************)
EXTENDS Naturals, FiniteSets, SequencesExt

CONSTANTS
  Members,       \* rows of team_members
  Executive,     \* those of the executive team
  Manager,       \* those titled account manager
  Owner,         \* the rep a row belongs to, or None
  RegionOf,      \* the region of a row's branch, or None
  FieldReps,     \* users with the field sales role
  Office,        \* other users
  Home,          \* the regions of each user's branches
  Regions,
  Properties,    \* portfolio properties
  Photographed,  \* those that have a photo
  PerPage,       \* TEAM_CARDS_PER_PAGE
  Services,      \* SERVICE_KEYS: how many detail pages
  None,
  Creators,      \* bound: the users who open a builder
  Dragged,       \* bound: the chapters that are dragged
  MaxEdits,      \* bound: edits of the form
  MaxMoves       \* bound: drags, and changes made by others

Users == FieldReps \cup Office

PagesAssumption ==
  /\ Executive \cup Manager \subseteq Members /\ Photographed \subseteq Properties
  /\ Owner \in [Members -> FieldReps \cup {None}] /\ RegionOf \in [Members -> Regions \cup {None}]
  /\ Home \in [Users -> SUBSET Regions] /\ PerPage \in Nat \ {0} /\ Services \in Nat
  /\ Creators \subseteq Users /\ None \notin Members \cup Users \cup Regions
  /\ Users \cap Members = {} /\ FieldReps \cap Office = {}

VARIABLES
  active,    \* team_members that are active (database)
  contract,  \* the estimate is a maintenance one, approved or won (database)
  saved,     \* the proposal request, or None (database)
  creator,   \* the user of the builder: the signer
  form,      \* ProposalFormState
  coverage,  \* branch coverage has loaded: the region names are known
  picker,    \* the region switcher of each roster
  panel,     \* the order in the reorder panel, or None
  edits, moves

server == <<active, contract, saved>>
builder == <<form, coverage, picker>>
vars == <<server, creator, builder, panel, edits, moves>>

Edit == saved = None /\ edits < MaxEdits /\ edits' = edits + 1
Move == saved # None /\ moves < MaxMoves /\ moves' = moves + 1

Optional ==
  {"startup_plan_30_60_90", "juniper_sync", "juniper_mapping", "meet_our_team_executive",
   "irrigation_reporting_sample", "table_of_contents"}

\* The form of a new proposal: the creator stands in as account manager.
DefaultForm(u) ==
  [sections |-> {}, org |-> FALSE, managers |-> {u}, production |-> FALSE,
   irrigation |-> FALSE, crews |-> {}, team |-> {}, executives |-> {}, portfolio |-> {}]

-----------------------------------------------------------------------------
(* Rosters                                                                   *)

Rosters == {"team", "executive"}
OfRoster(r) == IF r = "executive" THEN Executive ELSE Members

\* Field sales are scoped to their own rows and the company's.
Readable(u) == {m \in active : u \in FieldReps => Owner[m] \in {u, None}}

\* What region_id selects for user u; a row without a region is always in.
\* No region at all stands for no restriction.
Filter(u, choice) == IF choice = "mine" THEN Home[u] ELSE IF choice = "all" THEN {} ELSE {choice}
Roster(u, r, choice) ==
  {m \in Readable(u) \cap OfRoster(r) :
     Filter(u, choice) # {} => RegionOf[m] \in Filter(u, choice) \cup {None}}

\* X-Region-Filter, when it names one region.
EchoOf(u, choice) ==
  IF \E g \in Regions : Filter(u, choice) = {g} THEN CHOOSE g \in Regions : Filter(u, choice) = {g}
  ELSE None

\* nextRegionSelection, applied while rendering: an answer that names one region moves
\* the switcher there, and the roster is asked again.
FollowsAlways(p, u, known) ==
  LET echo == EchoOf(u, p.choice) IN
  IF p.answered /\ known /\ echo \notin {None, p.applied}
  THEN [p EXCEPT !.choice = echo, !.applied = echo, !.answered = p.choice = echo]
  ELSE p
Follows(p, u, known) == IF p.touched THEN p ELSE FollowsAlways(p, u, known)

\* What a picker lists now.
Listed(r) == IF picker[r].answered THEN Roster(creator, r, picker[r].choice) ELSE {}

-----------------------------------------------------------------------------
(* The document                                                              *)

\* The chapters in their default order.
Chapters ==
  <<"rooted-in-florida", "local-landscape-experts", "org-chart", "our-services", "juniper-cares",
    "startup-communication", "customer-care", "startup-plan", "juniper-sync", "juniper-mapping",
    "meet-the-team-executive", "meet-the-team", "references", "insurance", "licenses",
    "portfolio", "contract">>

\* useProposalDocument for user u: the picks that are on the rosters u reads.
PeopleNearby(u, picks) == picks \cap Roster(u, "team", "mine")
People(u, picks) == picks \cap Readable(u)
Executives(u) == People(u, saved.executives) \cap Executive
Exhibited == saved.portfolio \cap Photographed

Exists(k, u) ==
  CASE k = "org-chart" -> saved.org
    [] k = "startup-plan" -> "startup_plan_30_60_90" \in saved.sections
    [] k = "juniper-sync" -> "juniper_sync" \in saved.sections
    [] k = "juniper-mapping" -> "juniper_mapping" \in saved.sections
    [] k = "meet-the-team-executive" -> Executives(u) # {}
    [] k = "portfolio" -> Exhibited # {}
    [] k = "contract" -> contract
    [] OTHER -> TRUE

Natural(u) == SelectSeq(Chapters, LAMBDA k : Exists(k, u))

\* The saved order, without the chapters that are gone; new chapters come last.
ResolveKept(natural, order) ==
  LET present == ToSet(natural)
  IN  IF order = None THEN natural ELSE SelectSeq(order, LAMBDA k : k \in present)
Resolve(natural, order) ==
  LET present == ToSet(natural)
      placed == ToSet(order)
  IN  IF order = None THEN natural
      ELSE SelectSeq(order, LAMBDA k : k \in present)
             \o SelectSeq(natural, LAMBDA k : k \notin placed)

\* How many pages a chapter takes.
Sheets(n) == (n + PerPage - 1) \div PerPage
Paginate(n) == IF n = 0 THEN 1 ELSE Sheets(n)
PageCount(k, u) ==
  CASE k = "our-services" ->
         1 + Services + (IF "irrigation_reporting_sample" \in saved.sections THEN 1 ELSE 0)
    [] k = "juniper-mapping" -> 2
    [] k = "meet-the-team-executive" -> Sheets(Cardinality(Executives(u)))
    [] k = "meet-the-team" -> Paginate(Cardinality(People(u, saved.team)))
    [] k = "portfolio" -> Cardinality(Exhibited)
    [] OTHER -> 1

PagesOf(k, u) == [i \in 1..PageCount(k, u) |-> <<k, i>>]
Body(u) ==
  LET order == Resolve(Natural(u), saved.order)
  IN  FlattenSeq([i \in DOMAIN order |-> PagesOf(order[i], u)])
WithoutToc(u) == <<<<"cover", 1>>, <<"intro", 1>>>> \o Body(u) \o <<<<"thank-you", 1>>>>

HasToc == "table_of_contents" \in saved.sections
Pages(u) == IF HasToc THEN InsertAt(WithoutToc(u), 3, <<"toc", 1>>) ELSE WithoutToc(u)

\* The number a page carries: its place, counted from zero.
Place(pages, page) == CHOOSE i \in DOMAIN pages : pages[i] = page
Printed(pages, page) == Place(pages, page) - 1

\* What the table of contents says of chapter k: its place before the table is inserted,
\* plus one.
TocNumberUnshifted(without, k) == Place(without, <<k, 1>>) - 1
TocNumber(without, k) == Place(without, <<k, 1>>)

\* The org chart: an id that is on no roster u reads is taken for the signer.
ManagerNodes(u) == [i \in saved.managers |-> IF i \in Readable(u) THEN i ELSE creator]
Peers == saved.managers # {} \/ saved.irrigation
CrewsDrawn ==
  IF ~Peers THEN saved.crews
  ELSE {c \in saved.crews : IF c = "irrigation" THEN saved.irrigation ELSE saved.managers # {}}
ProductionDrawn == saved.production /\ (Peers => saved.managers # {})

-----------------------------------------------------------------------------
Init ==
  /\ active = Members /\ contract \in BOOLEAN /\ saved = None
  /\ creator \in Creators /\ form = DefaultForm(creator)
  /\ coverage = FALSE
  /\ picker = [r \in Rosters |-> [choice |-> "mine", touched |-> FALSE, applied |-> None, answered |-> FALSE]]
  /\ panel = None /\ edits = 0 /\ moves = 0

\* The queries of the form answer: the region names, a roster.
CoverageLoads ==
  /\ saved = None /\ ~coverage /\ coverage' = TRUE
  /\ picker' = [r \in Rosters |-> Follows(picker[r], creator, TRUE)]
  /\ UNCHANGED <<server, creator, form, panel, edits, moves>>

RosterAnswers(r) ==
  /\ saved = None /\ ~picker[r].answered
  /\ picker' = [picker EXCEPT ![r] = Follows([@ EXCEPT !.answered = TRUE], creator, coverage)]
  /\ UNCHANGED <<server, creator, form, coverage, panel, edits, moves>>

SelectRegion(r, choice) ==
  /\ Edit /\ choice # picker[r].choice
  /\ picker' = [picker EXCEPT ![r].choice = choice, ![r].touched = TRUE, ![r].answered = FALSE]
  /\ UNCHANGED <<server, creator, form, coverage, panel, moves>>

Flip(set, x) == IF x \in set THEN set \ {x} ELSE set \cup {x}
Patch(f) == form' = f /\ Edit /\ UNCHANGED <<server, creator, coverage, picker, panel, moves>>

ToggleSection(s) == Patch([form EXCEPT !.sections = Flip(@, s)])
ToggleOrgChart == Patch([form EXCEPT !.org = ~@])
ToggleAccountManager(m) ==
  form.org /\ m \in Listed("team") \cap Manager /\ Patch([form EXCEPT !.managers = Flip(@, m)])
PatchOrgChart(production, irrigation) ==
  form.org /\ Patch([form EXCEPT !.production = production, !.irrigation = irrigation])
PatchCrewCounts(c) == form.org /\ Patch([form EXCEPT !.crews = Flip(@, c)])
PickMember(m) == m \in Listed("team") /\ Patch([form EXCEPT !.team = Flip(@, m)])
PickExecutive(m) ==
  /\ "meet_our_team_executive" \in form.sections /\ m \in Listed("executive")
  /\ Patch([form EXCEPT !.executives = Flip(@, m)])
PickProperty(p) == Patch([form EXCEPT !.portfolio = Flip(@, p)])

\* The proposal is created without an order of its own, and the builder goes away.
Generate ==
  /\ saved = None
  /\ saved' = [f \in DOMAIN form \cup {"order"} |-> IF f = "order" THEN None ELSE form[f]]
  /\ picker' = [r \in Rosters |-> [choice |-> "mine", touched |-> FALSE, applied |-> None, answered |-> FALSE]]
  /\ coverage' = FALSE /\ form' = DefaultForm(creator) /\ edits' = 0
  /\ UNCHANGED <<active, contract, creator, panel, moves>>

-----------------------------------------------------------------------------
(* The preview, and what others do meanwhile                                 *)

\* Arrange pages: user u's panel takes the order on u's screen.
OpenPanel(u) ==
  /\ saved # None /\ panel = None
  /\ panel' = Resolve(Natural(u), saved.order)
  /\ UNCHANGED <<server, creator, builder, edits, moves>>

\* arrayMove.
Drag(i, j) ==
  /\ panel # None /\ Move /\ i # j /\ {i, j} \subseteq DOMAIN panel /\ panel[i] \in Dragged
  /\ panel' = InsertAt(RemoveAt(panel, i), j, panel[i])
  /\ UNCHANGED <<server, creator, builder, edits>>

SaveOrder ==
  /\ panel # None
  /\ saved' = [saved EXCEPT !.order = panel] /\ panel' = None
  /\ UNCHANGED <<active, contract, creator, builder, edits, moves>>

\* Cancel; a save that fails leaves the panel open.
ClosePanel == panel # None /\ panel' = None /\ UNCHANGED <<server, creator, builder, edits, moves>>

\* Somebody removes a person from the roster; the estimate is approved or handed back.
RemoveMember(m) ==
  /\ m \in active /\ Move /\ active' = active \ {m}
  /\ UNCHANGED <<contract, saved, creator, builder, panel, edits>>

EstimateMoves ==
  /\ Move /\ contract' = ~contract
  /\ UNCHANGED <<active, saved, creator, builder, panel, edits>>

Form ==
  \/ CoverageLoads \/ ToggleOrgChart \/ Generate
  \/ \E r \in Rosters : RosterAnswers(r) \/ \E c \in {"mine", "all"} \cup Regions : SelectRegion(r, c)
  \/ \E s \in Optional : ToggleSection(s)
  \/ \E m \in Members : ToggleAccountManager(m) \/ PickMember(m) \/ PickExecutive(m)
  \/ \E a, b \in BOOLEAN : PatchOrgChart(a, b)
  \/ \E c \in {"mow", "irrigation"} : PatchCrewCounts(c)
  \/ \E p \in Properties : PickProperty(p)

Preview ==
  \/ \E u \in Users : OpenPanel(u)
  \/ \E i, j \in 1..Len(Chapters) : Drag(i, j)
  \/ SaveOrder \/ ClosePanel \/ EstimateMoves
  \/ \E m \in Members : RemoveMember(m)

Next == Form \/ Preview
Spec == Init /\ [][Next]_vars

-----------------------------------------------------------------------------
(* Properties                                                                *)

PagesTypeOK ==
  /\ active \subseteq Members /\ contract \in BOOLEAN /\ creator \in Users
  /\ form.sections \subseteq Optional /\ form.managers \subseteq Members \cup Users
  /\ form.team \cup form.executives \subseteq Members /\ form.portfolio \subseteq Properties
  /\ \A r \in Rosters : picker[r].choice \in {"mine", "all"} \cup Regions
  /\ panel = None \/ panel \in Seq(ToSet(Chapters))

\* Whoever opens the document, and whatever was saved in whatever order meanwhile, every
\* chapter that exists for them is there exactly once, cover and intro first and the
\* closing letter last, in the order that was saved.
ChaptersOnce(u) ==
  LET body == Resolve(Natural(u), saved.order)
      pages == Pages(u)
      present == ToSet(Natural(u))
  IN
  /\ Cardinality(ToSet(pages)) = Len(pages) /\ ToSet(body) = present
  /\ pages[1] = <<"cover", 1>> /\ pages[2] = <<"intro", 1>> /\ Last(pages) = <<"thank-you", 1>>
  /\ saved.order # None => IsPrefix(SelectSeq(saved.order, LAMBDA k : k \in present), body)

\* The table of contents names the number that the first page of the chapter carries.
TocIsRight(u) ==
  HasToc => LET without == WithoutToc(u)  pages == Pages(u)
            IN  \A k \in ToSet(Natural(u)) : TocNumber(without, k) = Printed(pages, <<k, 1>>)

\* Whoever opens the document finds every chapter once, and finds it where the table of
\* contents says.
EveryChapterOnce ==
  PagesTypeOK /\ (saved # None => \A u \in Users : ChaptersOnce(u) /\ TocIsRight(u))

\* Everybody the rep picked who is still on the roster is in the document when the rep or
\* the office opens it, from whichever region they were picked, and the org chart draws the
\* production manager and the crews under the account manager that were filled in.
PicksShipped ==
  saved # None =>
    /\ \A u \in Office \cup {creator} :
         /\ saved.team \cap active \subseteq People(u, saved.team)
         /\ saved.executives \cap active \subseteq Executives(u)
    /\ saved.org /\ saved.production => ProductionDrawn
    /\ saved.org /\ "mow" \in saved.crews => "mow" \in CrewsDrawn

\* A region the user chose is never replaced by the one the server applied.
ChoiceStays ==
  [][\A r \in Rosters : picker[r].touched /\ picker'[r].touched =>
       picker'[r].choice = picker[r].choice
         \/ \E c \in {"mine", "all"} \cup Regions : SelectRegion(r, c)]_vars

\* (Does not hold.)  Nothing that was filled in is left out of the org chart.
NothingDisappears == saved # None /\ saved.org => CrewsDrawn = saved.crews

\* (Does not hold.)  The picks are in the document whoever opens it.
PicksShippedToAll ==
  saved # None => \A u \in Users : saved.team \cap active \subseteq People(u, saved.team)

\* (Does not hold.)  Nobody stands in the org chart for an account manager of another name.
NobodyElse ==
  saved # None => \A u \in Users : \A m \in saved.managers \cap Members : ManagerNodes(u)[m] = m

\* (Does not hold.)  A section that was unticked is not in the document.
UntickedIsGone ==
  saved # None => \A u \in Users :
    "meet-the-team-executive" \in ToSet(Natural(u)) => "meet_our_team_executive" \in saved.sections
=============================================================================
