------------------------------ MODULE EditorSave ------------------------------
(***************************************************************************)
(* The two line-item editors of the studio and the way they save: an       *)
(* estimator edits a draft of the estimate tree (sections, lines, cost     *)
(* items) in the browser; Save diffs the draft against the tree last       *)
(* loaded and sends one request per changed node, all deletes, then all    *)
(* updates, then all creates, then the scalar fields, and at last reads    *)
(* the estimate back.  The requests of one batch are served in any order,  *)
(* any of them can be refused or lose its answer, and those still under    *)
(* way when a batch fails go on being served.  The server adds to what it  *)
(* is sent: a new maintenance section without lines is given the standard  *)
(* ones, and maintenance lines are priced by the crew rate of the branch.  *)
(*                                                                         *)
(* A tree maps the id of each node to its parent and to a value that       *)
(* stands for its editable fields (for a line: what it sells for).         *)
(***************************************************************************)
EXTENDS Naturals, FiniteSets

CONSTANTS
  ServerIds,    \* ids the server can mint
  LocalIds,     \* ids the browser gives to nodes that are not saved yet
  Vals,         \* values of a node
  Unrated,      \* the value of a line no production rate resolves for
  Optional,     \* the value of the install section "Optional Services"
  Grown,        \* the value of a labour item others were grouped into
  Root,         \* the parent of a section
  Loaded,       \* Loaded[engine]: the tree the editor is opened on
  Standard,     \* the standard lines of maintenance and their items, without a section
  CrewPrice,    \* CrewPrice[v]: what is stored for a maintenance line sent with v (crew rate)
  MaxSaves,     \* bound: clicks on Save
  MaxActs       \* bound: edits, toggles, refetches and tab switches

Engines == {"maintenance", "install"}
Given == ServerIds \cup LocalIds         \* the ids of rows and of nodes of a draft
Ids == Given \cup (Given \X DOMAIN Standard)

Attempts == 1..MaxSaves
Names == Vals \ {Unrated, Optional}   \* what an estimator can type anywhere

VARIABLES
  engine,   \* the estimate's type, which picks the editor; it never changes
  rows,     \* the tree in the database
  life,     \* the lifecycle in the database
  minted,   \* the ids the server has given out
  cache,    \* the open estimate in the query cache: [tree, life]
  draft,    \* the editor's state: [tree, life]
  saved,    \* savedRef: what Save diffs against and Reset restores
  cur,      \* the save the mounted editor waits for, 0 when its buttons are enabled
  err,      \* the save-error banner is shown
  saves,    \* the saves so far, those of an unmounted editor included
  wire,     \* requests the server has not served yet
  toggle,   \* the lifecycle call under way
  lost,     \* the estimate was marked lost
  acts,     \* edits and the like so far (bound only)
  broken,   \* history: how draft, baseline and rows may have come apart
  removed   \* history: the ids the estimator removed from a draft

editorVars == <<engine, rows, life, minted, cache, draft, saved, cur, err, saves, wire,
                toggle, lost, acts, broken, removed>>

server == <<rows, life, minted>>
ghosts == <<broken, removed>>

-----------------------------------------------------------------------------
(* Trees                                                                     *)

\* The nodes directly under p, and a node with everything below it (three levels).
Under(t, p) == {i \in DOMAIN t : t[i].parent = p}
Below(t, i) ==
  LET kids == Under(t, i) IN {i} \cup kids \cup UNION {Under(t, k) : k \in kids}
Sections(t) == Under(t, Root)
Lines(t) == UNION {Under(t, s) : s \in Sections(t)}

Without(t, gone) == [i \in DOMAIN t \ gone |-> t[i]]
With(t, more) == [i \in DOMAIN t \cup DOMAIN more |-> IF i \in DOMAIN more THEN more[i] ELSE t[i]]
Node(p, v) == [parent |-> p, val |-> v]
Leaf(n, p, v) == [i \in {n} |-> Node(p, v)]

\* Every node is a section or lies under a section or a line.
IsOutline(t) ==
  /\ t = [i \in DOMAIN t |-> Node(t[i].parent, t[i].val)]
  /\ \A i \in DOMAIN t : t[i].val \in Vals
  /\ \A i \in DOMAIN t : t[i].parent \in {Root} \cup Sections(t) \cup Lines(t)
IsTree(t) == IsOutline(t) /\ DOMAIN t \subseteq Ids

ASSUME EditorAssumption ==
  /\ IsFiniteSet(Ids) /\ ServerIds \cap LocalIds = {} /\ Root \notin Ids
  /\ {Unrated, Optional, Grown} \subseteq Vals /\ Cardinality({Unrated, Optional, Grown}) = 3
  /\ \A e \in Engines : IsTree(Loaded[e]) /\ DOMAIN Loaded[e] \subseteq ServerIds
  /\ IsOutline(Standard) /\ DOMAIN Standard = Sections(Standard) \cup Lines(Standard)
  /\ Root \notin DOMAIN Standard /\ Given \cap (Given \X DOMAIN Standard) = {}
  /\ CrewPrice \in [Vals -> Vals]
  /\ MaxSaves \in Nat /\ MaxActs \in Nat

\* A copy of the subtree at i under parent p, its nodes named by f.
Copy(t, i, p, f) ==
  [j \in {f[k] : k \in Below(t, i)} |->
     LET k == CHOOSE k \in Below(t, i) : f[k] = j
     IN  Node(IF k = i THEN p ELSE f[t[k].parent], t[k].val)]
Naming(S, free) == CHOOSE f \in [S -> free] : \A x, y \in S : f[x] = f[y] => x = y

\* What the tree says apart from ids: its sections with the values below them.
LineSign(t, l) == <<t[l].val, [v \in Vals |-> Cardinality({c \in Under(t, l) : t[c].val = v})]>>
Sign(t, s) ==
  LET signs == {LineSign(t, l) : l \in Under(t, s)}
  IN  <<t[s].val, {<<g, Cardinality({l \in Under(t, s) : LineSign(t, l) = g})>> : g \in signs}>>
Shape(t) ==
  LET signs == {Sign(t, s) : s \in Sections(t)}
  IN  {<<g, Cardinality({s \in Sections(t) : Sign(t, s) = g})>> : g \in signs}

-----------------------------------------------------------------------------
(* diffEstimateTree                                                          *)

Deletes(old, new) ==
  {i \in DOMAIN old \ DOMAIN new : old[i].parent \in DOMAIN new \cup {Root}}

\* The fields of a section are forgotten.
UpdatesBelowSections(old, new) ==
  {i \in DOMAIN old \cap DOMAIN new : old[i].val # new[i].val /\ old[i].parent # Root}

Updates(old, new) == {i \in DOMAIN old \cap DOMAIN new : old[i].val # new[i].val}
Creates(old, new) ==
  {i \in DOMAIN new \ DOMAIN old : new[i].parent \in DOMAIN old \cup {Root}}

TreeOps(old, new, do) ==
  CASE do = "delete" -> Deletes(old, new)
    [] do = "update" -> Updates(old, new)
    [] do = "create" -> Creates(old, new)

Batches == <<"delete", "update", "create", "scalars", "reload">>
TreeBatches == {"delete", "update", "create"}
After(p) == LET n == CHOOSE n \in 1..4 : Batches[n] = p IN Batches[n + 1]
Running == TreeBatches \cup {"scalars", "reload"}

Requests(a, do, old, new) == {[by |-> a, do |-> do, id |-> i] : i \in TreeOps(old, new, do)}

NoSave == [phase |-> "none", old |-> <<>>, asked |-> <<>>, wanted |-> <<>>, life |-> "bidding"]
NoToggle == [to |-> "none", seen |-> <<>>, own |-> FALSE]
Fresh == [tree |-> rows, life |-> life]

-----------------------------------------------------------------------------
(* What the server adds to what it is sent                                   *)

\* A maintenance section that comes without lines is given the standard ones; <<s, j>> is
\* their node j in section s until it has an id.
Bare(old, t) ==
  {s \in Sections(t) \ DOMAIN old : engine = "maintenance" /\ Under(t, s) = {}}
Seeded(S) ==
  [n \in S \X DOMAIN Standard |->
     LET up == Standard[n[2]].parent IN
     Node(IF up = Root THEN n[1] ELSE <<n[1], up>>, Standard[n[2]].val)]

\* A maintenance line that is created or changed is stored at the price of its crew rate.
Repriced(old, t) ==
  {l \in Lines(t) : engine = "maintenance" /\ (l \in DOMAIN old => old[l].val # t[l].val)}
\* What the rows are to be once the draft t of a save is stored.
Furnished(old, t) ==
  With([i \in DOMAIN t |->
          Node(t[i].parent, IF i \in Repriced(old, t) THEN CrewPrice[t[i].val] ELSE t[i].val)],
       Seeded(Bare(old, t)))

-----------------------------------------------------------------------------
EditorInit ==
  /\ engine \in Engines
  /\ rows = Loaded[engine] /\ minted = DOMAIN rows /\ life = "bidding"
  /\ cache = Fresh /\ draft = Fresh /\ saved = Fresh
  /\ cur = 0 /\ err = FALSE
  /\ saves = [a \in Attempts |-> NoSave]
  /\ wire = {} /\ toggle = NoToggle /\ lost = FALSE
  /\ acts = 0 /\ broken = {} /\ removed = {}

\* One more edit, toggle, refetch or tab switch, within the bound.
Act == acts < MaxActs /\ acts' = acts + 1

-----------------------------------------------------------------------------
(* The maintenance editor is mounted under a key made of the ids and the     *)
(* sell prices of the cached estimate's lines: when that key changes, React  *)
(* drops the editor with its draft and mounts a new one on the cache.  The   *)
(* install editor is only remounted for another estimate.                    *)

PriceKey(e) == {<<l, e.tree[l].val>> : l \in Lines(e.tree)}
Remounts(c) == engine = "maintenance" /\ PriceKey(c) # PriceKey(cache)

\* setOpenEstimate(c), by a handler that leaves ed in the editor it belongs to.
Mounted(c) == [draft |-> c, saved |-> c, cur |-> 0, err |-> FALSE,
               toggle |-> [toggle EXCEPT !.own = FALSE]]
Editor == [draft |-> draft, saved |-> saved, cur |-> cur, err |-> err, toggle |-> toggle]
Shows(ed) ==
  /\ draft' = ed.draft /\ saved' = ed.saved /\ cur' = ed.cur /\ err' = ed.err
  /\ toggle' = ed.toggle
\* A save whose editor goes away before it ends.
Orphaning == IF cur # 0 THEN {"orphan"} ELSE {}
SetOpenEstimate(c, ed) ==
  /\ cache' = c
  /\ Shows(IF Remounts(c) THEN [Mounted(c) EXCEPT !.toggle = [ed.toggle EXCEPT !.own = FALSE]] ELSE ed)

-----------------------------------------------------------------------------
(* Editing: every handler changes the draft only                             *)

Edit(t) ==
  /\ Act
  /\ draft' = [draft EXCEPT !.tree = t]
  /\ UNCHANGED <<engine, server, cache, saved, cur, err, saves, wire, toggle, lost, broken>>

FreeLocal == LocalIds \ (DOMAIN draft.tree \cup DOMAIN saved.tree \cup DOMAIN cache.tree
               \cup UNION {DOMAIN saves[a].asked : a \in Attempts}
               \cup (IF toggle = NoToggle THEN {} ELSE DOMAIN toggle.seen))

(* The maintenance editor                                                    *)

Add(more) == Edit(With(draft.tree, more)) /\ UNCHANGED removed
Drop(i) == /\ Edit(Without(draft.tree, Below(draft.tree, i)))
           /\ removed' = removed \cup Below(draft.tree, i)
Patch(i, v) == draft.tree[i].val # v /\ Edit([draft.tree EXCEPT ![i].val = v]) /\ UNCHANGED removed
Local == CHOOSE n \in FreeLocal : TRUE

Maintenance == engine = "maintenance"
PatchSection(s, v) == Maintenance /\ s \in Sections(draft.tree) /\ v \in Names /\ Patch(s, v)
PatchLine(l, v) == Maintenance /\ l \in Lines(draft.tree) /\ v \in Names \cup {Unrated} /\ Patch(l, v)
AddSection(v) == Maintenance /\ v \in Names /\ FreeLocal # {} /\ Add(Leaf(Local, Root, v))
DuplicateSection(s) ==
  LET sub == Below(draft.tree, s) IN
  /\ Maintenance /\ s \in Sections(draft.tree)
  /\ Cardinality(FreeLocal) >= Cardinality(sub)
  /\ Add(Copy(draft.tree, s, Root, Naming(sub, FreeLocal)))
AddCatalogLine(s, v) ==
  /\ Maintenance /\ s \in Sections(draft.tree) /\ v \in Names \cup {Unrated} /\ FreeLocal # {}
  /\ Add(Leaf(Local, s, v))
RemoveSection(s) == Maintenance /\ s \in Sections(draft.tree) /\ Drop(s)
RemoveLine(l) == Maintenance /\ l \in Lines(draft.tree) /\ Drop(l)

(* The install editor                                                        *)

Install == engine = "install"
Items(t) == UNION {Under(t, l) : l \in Lines(t)}
PatchService(l, v) == Install /\ l \in Lines(draft.tree) /\ v \in Names /\ Patch(l, v)
PatchComponent(c, v) == Install /\ c \in Items(draft.tree) /\ v \in Names /\ Patch(c, v)
AddService(s, v) ==
  Install /\ s \in Sections(draft.tree) /\ v \in Names /\ FreeLocal # {} /\ Add(Leaf(Local, s, v))
AddComponent(l, v) ==
  Install /\ l \in Lines(draft.tree) /\ v \in Names /\ FreeLocal # {} /\ Add(Leaf(Local, l, v))
DeleteService(l) == Install /\ l \in Lines(draft.tree) /\ Drop(l)
DeleteComponent(c) == Install /\ c \in Items(draft.tree) /\ Drop(c)

\* An optional service goes into the Optional Services section, made when there is none.
AddOptionalService(v) ==
  LET f == Naming({"section", "line"}, FreeLocal) IN
  /\ Install /\ v \in Names /\ Cardinality(FreeLocal) >= 2
  /\ \A s \in Sections(draft.tree) : draft.tree[s].val # Optional
  /\ Add(With(Leaf(f["section"], Root, Optional), Leaf(f["line"], f["section"], v)))

\* Labour items of one rate become one: the first grows, the others go.
GroupLabor(l, v) ==
  LET same == {c \in Under(draft.tree, l) : draft.tree[c].val = v} IN
  /\ Install /\ l \in Lines(draft.tree) /\ Cardinality(same) > 1
  /\ LET first == CHOOSE c \in same : TRUE IN
     /\ Edit(Without([draft.tree EXCEPT ![first].val = Grown], same \ {first}))
     /\ removed' = removed \cup (same \ {first})

Reset ==
  /\ engine = "maintenance" /\ Act /\ draft # saved
  /\ draft' = saved /\ err' = FALSE
  /\ UNCHANGED <<engine, server, cache, saved, cur, saves, wire, toggle, lost, ghosts>>

-----------------------------------------------------------------------------
(* Saving                                                                    *)

\* The first save not used yet.
NextSave == CHOOSE a \in Attempts : saves[a] = NoSave /\ \A b \in 1..(a - 1) : saves[b] # NoSave
CanSave == cur = 0 /\ \E a \in Attempts : saves[a] = NoSave

HasUnrated(t) == engine = "maintenance" /\ \E l \in Lines(t) : t[l].val = Unrated

\* The client half of the production-rate guard: nothing is sent.
SaveRefused ==
  /\ CanSave /\ HasUnrated(draft.tree) /\ ~err
  /\ err' = TRUE
  /\ UNCHANGED <<engine, server, cache, draft, saved, cur, saves, wire, toggle, lost, acts, ghosts>>

\* While the kit catalog is not loaded the guard lets a line with a kit pass.
StartSave ==
  LET a == NextSave IN
  /\ CanSave
  /\ cur' = a /\ err' = FALSE
  /\ saves' = [saves EXCEPT ![a] = [phase |-> "delete", old |-> saved.tree,
                                    asked |-> draft.tree, life |-> draft.life,
                                    wanted |-> Furnished(saved.tree, draft.tree)]]
  /\ wire' = wire \cup Requests(a, "delete", saved.tree, draft.tree)
  /\ UNCHANGED <<engine, server, cache, draft, saved, toggle, lost, acts, ghosts>>

\* The next batch is sent without awaiting the one before.
NextBatchAtOnce(a) ==
  LET p == After(saves[a].phase) IN
  /\ saves[a].phase \in TreeBatches
  /\ saves' = [saves EXCEPT ![a].phase = p]
  /\ wire' = IF p \in TreeBatches
               THEN wire \cup Requests(a, p, saves[a].old, saves[a].asked) ELSE wire
  /\ UNCHANGED <<engine, server, cache, draft, saved, cur, err, toggle, lost, acts, ghosts>>

\* Promise.all resolves: the next batch is sent.
NextBatch(a) ==
  LET p == After(saves[a].phase) IN
  /\ saves[a].phase \in TreeBatches
  /\ \A r \in wire : r.by # a
  /\ saves' = [saves EXCEPT ![a].phase = p]
  /\ wire' = IF p \in TreeBatches
               THEN wire \cup Requests(a, p, saves[a].old, saves[a].asked) ELSE wire
  /\ UNCHANGED <<engine, server, cache, draft, saved, cur, err, toggle, lost, acts, ghosts>>

\* No finally: the buttons stay disabled.
RejectForGood(a) ==
  /\ saves' = IF saves[a].phase \in Running THEN [saves EXCEPT ![a].phase = "failed"] ELSE saves
  /\ cur' = cur /\ err' = IF cur = a THEN TRUE ELSE err
  /\ broken' = broken \cup {"failed"}

\* The catch block: the first failure rejects the save, later ones find it rejected.
Reject(a) ==
  /\ saves' = IF saves[a].phase \in Running THEN [saves EXCEPT ![a].phase = "failed"] ELSE saves
  /\ cur' = IF cur = a THEN 0 ELSE cur
  /\ err' = IF cur = a THEN TRUE ELSE err
  /\ broken' = broken \cup {"failed"}

\* What the server makes of a request: the row and all below it go, a value is
\* written, or a subtree gets minted ids.  A missing row or parent is a 404.
Payload(r) == Below(saves[r.by].wanted, r.id)
FreeServer == ServerIds \ minted
Rated(r) ==
  LET t == saves[r.by].asked
      sent == IF r.do = "create" THEN Below(t, r.id) ELSE {r.id}
  IN  engine = "maintenance" => \A i \in sent : t[i].val # Unrated
Serves(r) ==
  CASE r.do = "delete" -> r.id \in DOMAIN rows
    [] r.do = "update" -> r.id \in DOMAIN rows /\ Rated(r)
    [] r.do = "create" -> /\ saves[r.by].wanted[r.id].parent \in DOMAIN rows \cup {Root}
                          /\ Rated(r)
                          /\ Cardinality(FreeServer) >= Cardinality(Payload(r))

\* The subtree of t at i is written below its parent.
Inserted(t, i) ==
  \E f \in {Naming(Below(t, i), FreeServer)} :
    /\ rows' = With(rows, Copy(t, i, t[i].parent, f))
    /\ minted' = minted \cup {f[k] : k \in Below(t, i)}

Apply(r) ==
  CASE r.do = "delete" -> rows' = Without(rows, Below(rows, r.id)) /\ minted' = minted
    [] r.do = "update" -> rows' = [rows EXCEPT ![r.id].val = saves[r.by].wanted[r.id].val] /\ minted' = minted
    [] r.do = "create" -> Inserted(saves[r.by].wanted, r.id)

Serve(r) ==
  /\ r \in wire /\ Serves(r) /\ Apply(r)
  /\ wire' = wire \ {r}
  /\ UNCHANGED <<engine, life, cache, draft, saved, cur, err, saves, toggle, lost, acts, ghosts>>

\* Served, but the answer never arrives.
ServeUnheard(r) ==
  /\ r \in wire /\ Serves(r) /\ Apply(r)
  /\ wire' = wire \ {r} /\ Reject(r.by)
  /\ UNCHANGED <<engine, life, cache, draft, saved, toggle, lost, acts, removed>>

\* Refused, or lost on its way to the server.
RequestFails(r) ==
  /\ r \in wire
  /\ wire' = wire \ {r} /\ Reject(r.by)
  /\ UNCHANGED <<engine, server, cache, draft, saved, toggle, lost, acts, removed>>

\* A create inserts row by row, each line with its items, and stops half way: some of
\* what hangs on the node is missing, and of one line some of the items.
CreateCut(r) ==
  LET t == saves[r.by].wanted IN
  /\ r \in wire /\ r.do = "create" /\ Serves(r)
  /\ \E gone \in SUBSET (Payload(r) \ {r.id}) :
       /\ gone # {} /\ \A k \in gone : Under(t, k) \subseteq gone
       /\ Cardinality({k \in Payload(r) \ ({r.id} \cup gone) : Under(t, k) \cap gone # {}}) <= 1
       /\ Inserted(Without(t, gone), r.id)
  /\ wire' = wire \ {r} /\ Reject(r.by)
  /\ UNCHANGED <<engine, life, cache, draft, saved, toggle, lost, acts, removed>>

\* PATCH of the scalar fields; only the maintenance editor sends the lifecycle.
PatchScalars(a) ==
  /\ saves[a].phase = "scalars"
  /\ life' = IF engine = "maintenance" THEN saves[a].life ELSE life
  /\ saves' = [saves EXCEPT ![a].phase = "reload"]
  /\ UNCHANGED <<engine, rows, minted, cache, draft, saved, cur, err, wire, toggle, lost, acts, ghosts>>

LateStepFails(a) ==
  /\ saves[a].phase \in {"scalars", "reload"}
  /\ Reject(a)
  /\ UNCHANGED <<engine, server, cache, draft, saved, wire, toggle, lost, acts, removed>>

\* The estimate is read back: baseline, draft and cache become what is stored.
\* An editor that was unmounted meanwhile only writes the cache.
Reload(a) ==
  LET own == cur = a
      quiet == wire = {} /\ \A b \in Attempts \ {a} : saves[b].phase \notin Running IN
  /\ saves[a].phase = "reload"
  /\ saves' = [saves EXCEPT ![a].phase = "done"]
  /\ SetOpenEstimate(Fresh, IF own THEN [Editor EXCEPT !.draft = Fresh, !.saved = Fresh, !.cur = 0]
                                    ELSE Editor)
  /\ broken' = CASE own /\ quiet -> {}
                   [] own /\ ~quiet -> broken
                   [] ~own -> broken \cup (IF Remounts(Fresh) THEN Orphaning ELSE {})
  /\ UNCHANGED <<engine, server, wire, lost, acts, removed>>

-----------------------------------------------------------------------------
(* The lifecycle toggle of the maintenance editor.  It saves nothing of the  *)
(* tree, and is enabled at any time, during a save too.                      *)

ClickToggle(to) ==
  /\ Act /\ engine = "maintenance" /\ draft.life # to /\ toggle = NoToggle
  /\ toggle' = [to |-> to, seen |-> draft.tree, own |-> TRUE]
  /\ UNCHANGED <<engine, server, cache, draft, saved, cur, err, saves, wire, lost, ghosts>>

\* The answer: lifecycle and owner are merged into the draft of the click, which
\* becomes the draft and, its unsaved edits included, the open estimate.
ToggleAnswered ==
  LET next == [tree |-> toggle.seen, life |-> toggle.to] IN
  /\ toggle # NoToggle
  /\ life' = toggle.to
  /\ SetOpenEstimate(next, IF toggle.own
                             THEN [Editor EXCEPT !.draft = next, !.saved.life = toggle.to,
                                                 !.toggle = NoToggle]
                             ELSE [Editor EXCEPT !.toggle = NoToggle])
  /\ broken' = broken \cup (IF next.tree # rows THEN {"leaked"} ELSE {})
                      \cup (IF Remounts(next) THEN Orphaning ELSE {})
  /\ UNCHANGED <<engine, rows, minted, saves, wire, lost, acts, removed>>

ToggleFails ==
  /\ toggle # NoToggle /\ toggle' = NoToggle
  /\ UNCHANGED <<engine, server, cache, draft, saved, cur, err, saves, wire, lost, acts, ghosts>>

-----------------------------------------------------------------------------
(* What else replaces the cached estimate or the mounted editor              *)

\* The stale query is fetched again (window focus, a changed branch crew rate).
Refetch ==
  /\ Act /\ cache # Fresh
  /\ SetOpenEstimate(Fresh, Editor)
  /\ broken' = broken \cup (IF Remounts(Fresh) THEN Orphaning ELSE {})
  /\ UNCHANGED <<engine, server, saves, wire, lost, removed>>

\* The editor tab is left and entered again: a new editor on the cached estimate.
SwitchTab ==
  /\ Act
  /\ Shows(Mounted(cache))
  /\ broken' = broken \cup Orphaning
  /\ UNCHANGED <<engine, server, cache, saves, wire, lost, removed>>

\* Mark lost, then read back; the draft goes with it.
MarkLost ==
  /\ Act /\ ~lost /\ lost' = TRUE
  /\ SetOpenEstimate(Fresh, [Editor EXCEPT !.draft = Fresh, !.saved = Fresh])
  /\ broken' = broken \cup (IF Remounts(Fresh) THEN Orphaning ELSE {})
  /\ UNCHANGED <<engine, server, saves, wire, removed>>

-----------------------------------------------------------------------------
Editing ==
  \/ \E i \in DOMAIN draft.tree, v \in Vals :
       \/ PatchSection(i, v) \/ PatchLine(i, v) \/ AddCatalogLine(i, v)
       \/ PatchService(i, v) \/ PatchComponent(i, v) \/ AddService(i, v) \/ AddComponent(i, v)
       \/ GroupLabor(i, v)
  \/ \E v \in Vals : AddSection(v) \/ AddOptionalService(v)
  \/ \E i \in DOMAIN draft.tree :
       \/ DuplicateSection(i) \/ RemoveSection(i) \/ RemoveLine(i)
       \/ DeleteService(i) \/ DeleteComponent(i)
  \/ Reset

Answer(r) == Serve(r) \/ ServeUnheard(r) \/ RequestFails(r) \/ CreateCut(r)
Advance(a) == NextBatch(a) \/ PatchScalars(a) \/ LateStepFails(a) \/ Reload(a)

EditorNext ==
  \/ Editing
  \/ SaveRefused \/ StartSave
  \/ \E r \in wire : Answer(r)
  \/ \E a \in Attempts : Advance(a)
  \/ \E to \in {"bidding", "won"} : ClickToggle(to)
  \/ ToggleAnswered \/ ToggleFails
  \/ Refetch \/ SwitchTab \/ MarkLost

\* Every request is answered or fails in the end, and the save goes on from there.
Fairness ==
  \A a \in Attempts : /\ WF_editorVars(\E r \in wire : r.by = a /\ Answer(r))
                      /\ WF_editorVars(Advance(a))

EditorSpec == EditorInit /\ [][EditorNext]_editorVars /\ Fairness

-----------------------------------------------------------------------------
\* Every tree in play is one: no node lies below a missing one, and the stored rows
\* bear minted ids only, however the requests of two saves are interleaved.
EditorTypeOK ==
  /\ IsTree(rows) /\ DOMAIN rows \subseteq minted /\ minted \subseteq ServerIds
  /\ \A t \in {draft.tree, saved.tree, cache.tree} : IsTree(t) /\ DOMAIN t \subseteq Given
  /\ cur \in {0} \cup {a \in Attempts : saves[a].phase \in Running}
  /\ broken \subseteq {"failed", "orphan", "leaked"}

\* With no save under way, and none that failed or lost its editor, and no unsaved
\* edits that reached the cache, what the next Save diffs against (savedRef) is
\* exactly the tree in the database.
BaselineIsServer ==
  /\ EditorTypeOK
  /\ broken = {} /\ cur = 0 => saved.tree = rows

\* A save that ends with "Estimate saved" stored the draft it was asked to store, its new
\* lines priced and its empty new sections furnished, whatever had gone wrong before
\* except the things in excused.
SavedMeansStored(excused) ==
  \A a \in Attempts :
    saves[a].phase = "reload" /\ saves'[a].phase = "done" /\ cur = a /\ broken \subseteq excused
      => Shape(rows) = Shape(saves[a].wanted)

\* Nothing failed, no editor was lost, nothing leaked: Save stores the draft, furnished, and
\* nothing else, in whatever order the server takes the requests of a batch.
SaveIsExact == SavedMeansStored({})

\* A save repeated after a failure stores the draft, too (persistEstimateTree: "the
\* user retries the whole Save").
RetryIsExact == [][SavedMeansStored({"failed"})]_editorVars

\* A lifecycle toggle does not keep a later save from storing the draft
\* (handleLifecycle: "unsaved tree edits stay local").
ToggledSaveIsExact == [][SavedMeansStored({"leaked"})]_editorVars

\* A stored row goes only if the estimator removed it or a node above it: no retry,
\* half-done save or save of a lost editor deletes a row behind the estimator's
\* back.  (A toggle can: answered after a save, it brings back the draft from before
\* it, whose local ids the next save replaces the stored rows by.)
RowsLostOnlyOnRequest ==
  \A i \in DOMAIN rows \ DOMAIN rows' :
    "leaked" \in broken \/ \E r \in removed : i \in Below(rows, r)

\* A save does what the estimator asked for, no less and no more.
SaveDoesAsAsked == [][SaveIsExact /\ RowsLostOnlyOnRequest]_editorVars

\* The Save button comes back: a save ends, stored or with the error banner.
SaveEnds == \A a \in Attempts : cur = a ~> cur # a

=============================================================================
