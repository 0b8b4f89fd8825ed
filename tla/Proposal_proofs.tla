---------------------------- MODULE Proposal_proofs ----------------------------
(***************************************************************************)
(* The life of a proposal.  ProposalPages: while it is composed, a region  *)
(* the user chose stays chosen.  ProposalDocuments: what it appends are    *)
(* the documents of its lead, all that were answered for.  ProposalRender: *)
(* what a render stores is complete, as a document and as a record,        *)
(* however the renders of one proposal overlap and fail.                   *)
(***************************************************************************)
EXTENDS MCProposal, ProposalRender, FiniteSetTheorems, TLAPS

-----------------------------------------------------------------------------
(* The page of a render.                                                     *)

Queries == [Query -> QueryStates]
Page == [query : Queries, settle : Settling, decoding : SUBSET Images,
         idle : BOOLEAN, retried : BOOLEAN]

\* What could be asked for has been asked for: the gating queries, and once the
\* document is drawn its own.
Started(query) ==
  /\ \A q \in Query \ Own : query[q] = "off" => ~(Needs[q] \subseteq Loaded(query))
  /\ Ready(query) => \A q \in Own : query[q] = "off" => ~(Needs[q] \subseteq Loaded(query))

Unscathed(query) == \A q \in Query : query[q] \in {"off", "flight", "ok"}
AllLoaded(query) == \A q \in Query : query[q] = "ok"

\* What an open page is like: past the data it stays ready, and if no request had to be
\* repeated a quiet network means that everything is there.
PageKnows(p) ==
  /\ Started(p.query)
  /\ p.settle # "data" => Ready(p.query)
  /\ ~p.retried => Unscathed(p.query)
  /\ p.idle /\ ~p.retried => AllLoaded(p.query)

\* Drawing asks for what was off, and changes nothing else.
LEMMA StartAsks ==
  ASSUME NEW query \in Queries, NEW among \in SUBSET Query
  PROVE  /\ Start(query, among) \in Queries
         /\ \A q \in Query : \/ Start(query, among)[q] = query[q]
                             \/ /\ q \in among /\ query[q] = "off" /\ Start(query, among)[q] = "flight"
                                /\ Needs[q] \subseteq Loaded(query)
         /\ \A q \in among : Start(query, among)[q] = "off" => ~(Needs[q] \subseteq Loaded(query))
         /\ Loaded(Start(query, among)) = Loaded(query)
<1>1. \A q \in Query : Start(query, among)[q] =
        IF q \in among /\ query[q] = "off" /\ Needs[q] \subseteq Loaded(query) THEN "flight" ELSE query[q]
  BY DEF Start
<1>2. Start(query, among) \in Queries
  BY DEF Start, Queries, QueryStates
<1>3. \A q \in Query : query[q] \in QueryStates
  BY DEF Queries
<1>4. Loaded(Start(query, among)) = Loaded(query)
  BY <1>1, <1>3 DEF Loaded
<1> QED BY <1>1, <1>2, <1>3, <1>4

LEMMA DrawnAsks ==
  ASSUME NEW query \in Queries
  PROVE  /\ Drawn(query) \in Queries
         /\ \A q \in Query : \/ Drawn(query)[q] = query[q]
                             \/ query[q] = "off" /\ Drawn(query)[q] = "flight"
         /\ Started(Drawn(query))
<1> DEFINE gate == Start(query, Query \ Own)
           drawn == Start(gate, Own)
<1>1. /\ gate \in Queries /\ Loaded(gate) = Loaded(query)
      /\ \A q \in Query : \/ gate[q] = query[q]
                          \/ q \in Query \ Own /\ query[q] = "off" /\ gate[q] = "flight"
      /\ \A q \in Query \ Own : gate[q] = "off" => ~(Needs[q] \subseteq Loaded(query))
  BY StartAsks
<1>2. Own \in SUBSET Query
  BY RenderAssumption
<1>3. /\ drawn \in Queries /\ Loaded(drawn) = Loaded(gate)
      /\ \A q \in Query : \/ drawn[q] = gate[q]
                          \/ q \in Own /\ gate[q] = "off" /\ drawn[q] = "flight"
      /\ \A q \in Own : drawn[q] = "off" => ~(Needs[q] \subseteq Loaded(gate))
  <2> HIDE DEF gate
  <2> QED BY <1>1, <1>2, StartAsks
<1>4. Drawn(query) = IF Ready(gate) THEN drawn ELSE gate
  BY DEF Drawn
<1> HIDE DEF gate, drawn
<1>5. CASE Ready(gate)
  BY <1>1, <1>2, <1>3, <1>4, <1>5 DEF Started
<1>6. CASE ~Ready(gate)
  BY <1>1, <1>4, <1>6 DEF Started
<1> QED BY <1>5, <1>6

\* A document that is drawn stays drawn while its own queries are answered: no gating
\* query starts any more.
LEMMA StaysReady ==
  ASSUME NEW query \in Queries, Started(query), Ready(query),
         NEW next \in Queries, \A q \in Query \ Own : next[q] = query[q]
  PROVE  Ready(Drawn(next))
<1> DEFINE gate == Start(next, Query \ Own)
<1>1. \A q \in Query \ Own : gate[q] = query[q]
  <2> SUFFICES ASSUME NEW q \in Query \ Own PROVE gate[q] = query[q]
    OBVIOUS
  <2>1. CASE next[q] = "off" /\ Needs[q] \subseteq Loaded(next)
    <3>1. Needs[q] \subseteq Query \ Own
      BY RenderAssumption
    <3>2. Needs[q] \subseteq Loaded(query)
      BY <2>1, <3>1 DEF Loaded
    <3> QED BY <2>1, <3>2 DEF Started
  <2>2. CASE ~(next[q] = "off" /\ Needs[q] \subseteq Loaded(next))
    BY <2>2, StartAsks
  <2> QED BY <2>1, <2>2
<1>2. Required \subseteq Query \ Own
  BY RenderAssumption
<1>3. \A q \in Query \ Own : Drawn(next)[q] = gate[q]
  <2>1. \A q \in Query \ Own : Start(gate, Own)[q] = gate[q]
    <3>1. gate \in Queries /\ Own \in SUBSET Query
      BY StartAsks, RenderAssumption
    <3> HIDE DEF gate
    <3> QED BY <3>1, StartAsks
  <2>2. Drawn(next) \in {gate, Start(gate, Own)}
    BY DEF Drawn
  <2> QED BY <2>1, <2>2
<1> HIDE DEF gate
<1> QED BY <1>1, <1>2, <1>3 DEF Ready

\* If nothing failed and nothing is under way, everything is there: queries do not wait
\* for one another in a circle, and the gating ones come first.
LEMMA QuietIsLoaded ==
  ASSUME NEW query \in Queries, Started(query), Unscathed(query), \A q \in Query : ~InFlight(query[q])
  PROVE  AllLoaded(query)
<1> DEFINE missing == {q \in Query : query[q] # "ok"}
<1>1. \A q \in missing : query[q] = "off"
  BY DEF Unscathed, InFlight
<1>2. \A S \in SUBSET missing : S # {} => \E q \in S : Needs[q] \cap S = {}
  BY RenderAssumption
<1>3. \A q \in Query : Needs[q] \in SUBSET Query
  BY RenderAssumption
<1>4. missing \ Own = {}
  <2> SUFFICES ASSUME missing \ Own # {} PROVE FALSE
    OBVIOUS
  <2>1. PICK q \in missing \ Own : Needs[q] \cap (missing \ Own) = {}
    BY <1>2
  <2>2. Needs[q] \subseteq Query \ Own
    BY <2>1, RenderAssumption
  <2>3. Needs[q] \subseteq Loaded(query)
    BY <2>1, <2>2 DEF Loaded
  <2> QED BY <1>1, <2>1, <2>3 DEF Started
<1>5. Ready(query)
  BY <1>4, RenderAssumption DEF Ready, Loading
<1>6. missing = {}
  <2> SUFFICES ASSUME missing # {} PROVE FALSE
    OBVIOUS
  <2>1. PICK q \in missing : Needs[q] \cap missing = {}
    BY <1>2
  <2>2. Needs[q] \subseteq Loaded(query)
    BY <1>3, <2>1 DEF Loaded
  <2>3. q \in Own
    BY <1>4, <2>1
  <2> QED BY <1>1, <1>5, <2>1, <2>2, <2>3 DEF Started
<1> QED BY <1>6 DEF AllLoaded

\* The page with other queries, field by field.
LEMMA Shown ==
  ASSUME NEW p \in Page, NEW query \in Queries
  PROVE  /\ Showing(p, query) \in Page
         /\ Showing(p, query).query = Drawn(query)
         /\ Showing(p, query).settle =
              IF p.settle = "data" /\ Ready(Drawn(query)) THEN "fonts" ELSE p.settle
         /\ Showing(p, query).idle = p.idle /\ Showing(p, query).retried = p.retried
<1>1. Drawn(query) \in Queries
  BY DrawnAsks
<1> QED BY <1>1 DEF Showing, Page, Settling

\* An answer, or the end of a request that failed, leaves the page as it should be.
LEMMA AnswerKnows ==
  ASSUME NEW p \in Page, PageKnows(p), NEW q \in Query, InFlight(p.query[q]),
         NEW outcome \in {"ok", "wait", "failed"}, NEW shown,
         shown = Showing(p, [p.query EXCEPT ![q] = outcome])
  PROVE  /\ shown \in Page /\ Started(shown.query)
         /\ shown.settle # "data" => Ready(shown.query)
         /\ outcome = "ok" => PageKnows(shown)
<1> DEFINE next == [p.query EXCEPT ![q] = outcome]
<1>1. p.query \in Queries /\ next \in Queries
  BY DEF Page, Queries, QueryStates
<1>2. next[q] = outcome /\ \A o \in Query \ {q} : next[o] = p.query[o]
  BY <1>1 DEF Queries
<1> HIDE DEF next
<1>3. /\ shown \in Page /\ shown.query = Drawn(next)
      /\ shown.settle = IF p.settle = "data" /\ Ready(Drawn(next)) THEN "fonts" ELSE p.settle
      /\ shown.idle = p.idle /\ shown.retried = p.retried
  BY <1>1, Shown DEF next
<1>4. Started(shown.query)
  BY <1>1, <1>3, DrawnAsks
<1>5. shown.settle # "data" => Ready(shown.query)
  <2>1. CASE p.settle = "data"
    BY <1>3, <2>1
  <2>2. CASE p.settle # "data"
    <3>1. Ready(p.query)
      BY <2>2 DEF PageKnows
    <3>2. q \in Own
      BY <3>1 DEF Ready, InFlight, Loading
    <3>3. \A o \in Query \ Own : next[o] = p.query[o]
      BY <1>2, <3>2
    <3> QED BY <1>1, <1>3, <3>1, <3>3, StaysReady DEF PageKnows
  <2> QED BY <2>1, <2>2
<1>6. outcome = "ok" => PageKnows(shown)
  <2> SUFFICES ASSUME outcome = "ok" PROVE PageKnows(shown)
    OBVIOUS
  <2>1. ~p.retried => Unscathed(shown.query)
    <3>1. \A o \in Query : Drawn(next)[o] = next[o] \/ Drawn(next)[o] = "flight"
      BY <1>1, DrawnAsks
    <3> QED BY <1>2, <1>3, <3>1 DEF PageKnows, Unscathed
  <2>2. ~(p.idle /\ ~p.retried)
    BY DEF PageKnows, AllLoaded, InFlight
  <2> QED BY <1>3, <1>4, <1>5, <2>1, <2>2 DEF PageKnows
<1> QED BY <1>3, <1>4, <1>5, <1>6

\* A page opens with nothing asked for yet.
LEMMA BlankOpens == Blank \in Page /\ PageKnows(Showing(Blank, Blank.query))
<1>1. Blank \in Page /\ Blank.query \in Queries
  BY DEF Blank, Page, Queries, QueryStates, Settling
<1>2. /\ Blank.query = [q \in Query |-> "off"] /\ Blank.settle = "data"
      /\ Blank.idle = FALSE /\ Blank.retried = FALSE
  BY DEF Blank
<1> DEFINE shown == Showing(Blank, Blank.query)
<1>3. /\ shown.query = Drawn(Blank.query) /\ shown.idle = FALSE
      /\ shown.settle = IF Ready(Drawn(Blank.query)) THEN "fonts" ELSE "data"
  BY <1>1, <1>2, Shown
<1>4. Started(Drawn(Blank.query)) /\ Unscathed(Drawn(Blank.query))
  <2>1. \A q \in Query : Drawn(Blank.query)[q] \in {"off", "flight"}
    BY <1>1, <1>2, DrawnAsks
  <2> QED BY <1>1, <2>1, DrawnAsks DEF Unscathed
<1> HIDE DEF shown
<1>5. PageKnows(shown)
  BY <1>3, <1>4 DEF PageKnows
<1> QED BY <1>1, <1>5 DEF shown

-----------------------------------------------------------------------------
(* The numbering of the rows.                                                *)

\* The rows are numbered from one.
Numbered == IsFiniteSet(records) /\ Versions = 1..Cardinality(records)

\* MAX(version) of the rows is how many there are.
LEMMA MaxIsCount == ASSUME Numbered PROVE MaxVersion = Cardinality(records) /\ MaxVersion \in Nat
<1>1. Cardinality(records) \in Nat /\ (Cardinality(records) = 0 <=> records = {})
  BY FS_CardinalityType, FS_EmptySet DEF Numbered
<1> DEFINE n == Cardinality(records)
<1> HIDE DEF n
<1>2. n \in Nat /\ Versions = 1..n /\ (n = 0 <=> records = {})
  BY <1>1 DEF n, Numbered
<1>3. CASE records = {}
  BY <1>2, <1>3 DEF MaxVersion, n
<1>4. CASE records # {}
  <2>1. n \in Versions /\ \A w \in Versions : w <= n
    BY <1>2, <1>4
  <2>2. \A v \in Versions : (\A w \in Versions : w <= v) => v = n
    BY <1>2, <2>1
  <2>3. MaxVersion = CHOOSE v \in Versions : \A w \in Versions : w <= v
    BY <1>4 DEF MaxVersion
  <2>4. MaxVersion = n
    BY <2>1, <2>2, <2>3
  <2> QED BY <1>2, <2>4 DEF n
<1> QED BY <1>3, <1>4

\* A row whose version is not there, and at most one above the last, is the next one.
LEMMA NextRow ==
  ASSUME Numbered, NEW v \in Nat, v \in 1..(Cardinality(records) + 1), v \notin Versions,
         NEW t, records' = records \cup {<<v, t>>}
  PROVE  /\ Numbered' /\ Versions' = Versions \cup {v}
         /\ Cardinality(records) \in Nat /\ Cardinality(records') = Cardinality(records) + 1
<1>1. <<v, t>> \notin records
  BY DEF Versions
<1>2. Cardinality(records) \in Nat
  BY FS_CardinalityType DEF Numbered
<1>3. IsFiniteSet(records') /\ Cardinality(records') = Cardinality(records) + 1
  BY <1>1, FS_AddElement DEF Numbered
<1>4. Versions' = Versions \cup {v}
  <2>1. <<v, t>>[1] = v
    OBVIOUS
  <2> QED BY <2>1 DEF Versions
<1> DEFINE n == Cardinality(records)
<1> HIDE DEF n
<1>5. Versions = 1..n /\ n \in Nat /\ v \in 1..(n + 1)
  BY <1>2 DEF Numbered, n
<1>6. v = n + 1
  BY <1>5
<1>7. Versions' = 1..(n + 1)
  BY <1>4, <1>5, <1>6
<1> QED BY <1>2, <1>3, <1>4, <1>7 DEF Numbered, n

-----------------------------------------------------------------------------
(* The inductive invariant of the renders.                                   *)

Phase == {"idle", "asked", "slot", "page", "captured", "uploaded", "inserted"}

RenderTypeOK ==
  /\ pc \in [Toolbar -> Phase] /\ version \in [Toolbar -> Nat]
  /\ page \in [Toolbar -> Page] /\ pdf \in [Toolbar -> [query : Queries, retried : BOOLEAN]]

\* RendersAreOnFile, in parts.
OnFile == Numbered /\ Versions \subseteq DOMAIN objects /\ latest \in Versions \cup {0}

\* A file that was captured from a complete page.
Whole(file) ==
  /\ Ready(file.query)
  /\ ~file.retried => AllLoaded(file.query)

\* What the render of toolbar t relies on at each of its statements: its version is one
\* of those that are there, or the next; its file is there before its row.
RenderKnows(t) ==
  /\ pc[t] \in {"slot", "page", "captured", "uploaded"} => version[t] \in 1..(Cardinality(records) + 1)
  /\ pc[t] = "page" => PageKnows(page[t])
  /\ pc[t] \in {"captured", "uploaded", "inserted"} => Whole(pdf[t])
  /\ pc[t] = "uploaded" => version[t] \in DOMAIN objects
  /\ pc[t] = "inserted" => version[t] \in Versions

RenderInv == RenderTypeOK /\ OnFile /\ \A t \in Toolbar : RenderKnows(t)

\* A step moves one render, and removes neither a row nor a file.
Moves(t) ==
  /\ \A u \in Toolbar \ {t} : /\ pc'[u] = pc[u] /\ version'[u] = version[u]
                              /\ page'[u] = page[u] /\ pdf'[u] = pdf[u]
  /\ Cardinality(records') \in {Cardinality(records), Cardinality(records) + 1}
  /\ Versions \subseteq Versions' /\ DOMAIN objects \subseteq DOMAIN objects'

LEMMA OthersKnow ==
  ASSUME RenderInv, NEW t \in Toolbar, Moves(t), RenderTypeOK', OnFile', RenderKnows(t)'
  PROVE  RenderInv'
<1>1. Cardinality(records) \in Nat
  BY FS_CardinalityType DEF RenderInv, OnFile, Numbered
<1> DEFINE n == Cardinality(records)
           m == Cardinality(records')
<1> HIDE DEF n, m
<1>2. n \in Nat /\ m \in {n, n + 1}
  BY <1>1 DEF n, m, Moves
<1>3. ASSUME NEW u \in Toolbar \ {t} PROVE RenderKnows(u)'
  <2>1. RenderKnows(u)
    BY DEF RenderInv
  <2>2. /\ pc'[u] = pc[u] /\ version'[u] = version[u] /\ page'[u] = page[u] /\ pdf'[u] = pdf[u]
    BY <1>3 DEF Moves
  <2>3. \A v \in 1..(n + 1) : v \in 1..(m + 1)
    BY <1>2
  <2>4. pc'[u] \in {"slot", "page", "captured", "uploaded"} => version'[u] \in 1..(m + 1)
    BY <2>1, <2>2, <2>3 DEF RenderKnows, n
  <2>5. /\ pc'[u] = "uploaded" => version'[u] \in DOMAIN objects'
        /\ pc'[u] = "inserted" => version'[u] \in Versions'
    BY <2>1, <2>2 DEF RenderKnows, Moves
  <2>6. /\ pc'[u] = "page" => PageKnows(page'[u])
        /\ pc'[u] \in {"captured", "uploaded", "inserted"} => Whole(pdf'[u])
    BY <2>1, <2>2 DEF RenderKnows
  <2> QED BY <2>4, <2>5, <2>6 DEF RenderKnows, m
<1> QED BY <1>3 DEF RenderInv

\* Where nothing on file moves.
LEMMA SameDisk ==
  ASSUME RenderInv, UNCHANGED disk
  PROVE  OnFile' /\ UNCHANGED <<objects, records, latest>> /\ Versions' = Versions
  BY DEF RenderInv, OnFile, Numbered, Versions, disk

\* The steps of the page: only the page of t moves.
LEMMA PageStep ==
  ASSUME RenderInv, NEW t \in Toolbar, NEW p \in Page, pc[t] = "page", PageKnows(p),
         page' = [page EXCEPT ![t] = p], UNCHANGED <<pc, version, pdf, disk>>
  PROVE  RenderInv'
<1>1. /\ UNCHANGED <<pc, version, pdf>> /\ page'[t] = p
      /\ \A u \in Toolbar \ {t} : page'[u] = page[u]
  BY DEF RenderInv, RenderTypeOK
<1>2. OnFile' /\ UNCHANGED <<objects, records, latest>> /\ Versions' = Versions
  BY SameDisk
<1>3. RenderTypeOK'
  BY <1>1 DEF RenderInv, RenderTypeOK
<1>4. RenderKnows(t)'
  BY <1>1, <1>2 DEF RenderInv, RenderKnows
<1>5. Moves(t)
  BY <1>1, <1>2 DEF Moves
<1> QED BY <1>2, <1>3, <1>4, <1>5, OthersKnow

\* A render that is answered leaves its toolbar idle.
LEMMA RespondStep ==
  ASSUME RenderInv, NEW t \in Toolbar, Responded(t), OnFile',
         page' \in {page, [page EXCEPT ![t] = Blank]}, UNCHANGED <<objects, records>>
  PROVE  RenderInv'
<1>1. /\ pc'[t] = "idle" /\ \A u \in Toolbar \ {t} : /\ pc'[u] = pc[u] /\ version'[u] = version[u]
                                                    /\ page'[u] = page[u] /\ pdf'[u] = pdf[u]
  BY DEF Responded, RenderInv, RenderTypeOK
<1>2. RenderTypeOK'
  <2>1. Unprinted \in [query : Queries, retried : BOOLEAN] /\ Blank \in Page
    BY DEF Unprinted, Blank, Queries, QueryStates, Page, Settling
  <2>2. pc' \in [Toolbar -> Phase] /\ version' \in [Toolbar -> Nat] /\ page' \in [Toolbar -> Page]
    BY <2>1 DEF Responded, RenderInv, RenderTypeOK, Phase
  <2>3. pdf' \in [Toolbar -> [query : Queries, retried : BOOLEAN]]
    BY <2>1 DEF Responded, RenderInv, RenderTypeOK
  <2> QED BY <2>2, <2>3 DEF RenderTypeOK
<1>3. RenderKnows(t)'
  BY <1>1 DEF RenderKnows
<1>4. Versions' = Versions
  BY DEF Versions
<1>5. Moves(t)
  BY <1>1, <1>4 DEF Moves
<1> QED BY <1>2, <1>3, <1>5, OthersKnow

\* Answered, given up or asked for again: a query of an open page.
LEMMA QueryStep ==
  ASSUME RenderInv, NEW t \in Toolbar, NEW q \in Query, Answer(t, q) \/ Reject(t, q) \/ Retry(t, q)
  PROVE  RenderInv'
<1> DEFINE p == page[t]
<1>1. pc[t] = "page" /\ p \in Page /\ PageKnows(p)
  BY DEF RenderInv, RenderTypeOK, RenderKnows, Answer, Reject, Retry
<1>2. CASE Answer(t, q)
  <2> DEFINE shown == Showing(p, [p.query EXCEPT ![q] = "ok"])
  <2>1. page' = [page EXCEPT ![t] = shown] /\ UNCHANGED <<pc, version, pdf, disk>> /\ InFlight(p.query[q])
    BY <1>2 DEF Answer
  <2> HIDE DEF p
  <2>2. shown \in Page /\ PageKnows(shown)
    BY <1>1, <2>1, AnswerKnows
  <2> HIDE DEF shown
  <2> QED BY <1>1, <2>1, <2>2, PageStep
<1>3. CASE Reject(t, q)
  <2> DEFINE outcome == IF p.query[q] = "flight" /\ q \notin Images THEN "wait" ELSE "failed"
             shown == Showing(p, [p.query EXCEPT ![q] = outcome])
             next == [shown EXCEPT !.retried = TRUE]
  <2>1. page' = [page EXCEPT ![t] = next] /\ UNCHANGED <<pc, version, pdf, disk>> /\ InFlight(p.query[q])
    BY <1>3 DEF Reject
  <2>2. outcome \in {"ok", "wait", "failed"}
    OBVIOUS
  <2> HIDE DEF p, outcome
  <2>3. shown \in Page /\ Started(shown.query) /\ (shown.settle # "data" => Ready(shown.query))
    BY <1>1, <2>1, <2>2, AnswerKnows
  <2> HIDE DEF shown
  <2>4. /\ next \in Page /\ next.query = shown.query /\ next.settle = shown.settle
        /\ next.retried = TRUE
    BY <2>3 DEF Page
  <2> HIDE DEF next
  <2>5. PageKnows(next)
    BY <2>3, <2>4 DEF PageKnows
  <2> QED BY <1>1, <2>1, <2>4, <2>5, PageStep
<1>4. CASE Retry(t, q)
  <2> DEFINE query == [p.query EXCEPT ![q] = "again"]
             next == [p EXCEPT !.query = query]
  <2>1. page' = [page EXCEPT ![t] = next] /\ UNCHANGED <<pc, version, pdf, disk>> /\ p.query[q] = "wait"
    BY <1>4 DEF Retry
  <2> HIDE DEF p
  <2>2. /\ query \in Queries /\ query[q] = "again" /\ p.query \in Queries
        /\ \A o \in Query \ {q} : query[o] = p.query[o]
    BY <1>1 DEF Page, Queries, QueryStates
  <2> HIDE DEF query
  <2>3. /\ next \in Page /\ next.query = query /\ next.settle = p.settle
        /\ next.retried = p.retried /\ next.idle = p.idle
    BY <1>1, <2>2 DEF Page
  <2> HIDE DEF next
  <2>4. Loaded(query) = Loaded(p.query)
    BY <2>1, <2>2 DEF Loaded
  <2>5. Ready(query) <=> Ready(p.query)
    <3>1. Required \subseteq Query
      BY RenderAssumption
    <3> QED BY <2>1, <2>2, <3>1 DEF Ready, Loading
  <2>6. Started(query)
    <3>1. Own \subseteq Query
      BY RenderAssumption
    <3>2. \A o \in Query : query[o] = "off" => p.query[o] = "off"
      BY <2>2
    <3>3. Started(p.query)
      BY <1>1 DEF PageKnows
    <3> QED BY <2>4, <2>5, <3>1, <3>2, <3>3 DEF Started
  <2>7. p.retried
    BY <1>1, <2>1 DEF PageKnows, Unscathed
  <2>8. PageKnows(next)
    BY <1>1, <2>3, <2>5, <2>6, <2>7 DEF PageKnows
  <2> QED BY <1>1, <2>1, <2>3, <2>8, PageStep
<1> QED BY <1>2, <1>3, <1>4

\* The fonts, the images, the quiet network: nothing is loaded by these.
LEMMA SettleStep ==
  ASSUME RenderInv, NEW t \in Toolbar,
         FontsLoaded(t) \/ FontsMissing(t) \/ FlagReady(t) \/ NetworkIdle(t)
  PROVE  RenderInv'
<1> DEFINE p == page[t]
<1>1. pc[t] = "page" /\ p \in Page /\ PageKnows(p)
  BY DEF RenderInv, RenderTypeOK, RenderKnows, FontsLoaded, FontsMissing, FlagReady, NetworkIdle
<1>2. ASSUME NEW next \in Page, page' = [page EXCEPT ![t] = next], UNCHANGED <<pc, version, pdf, disk>>,
             next.query = p.query, next.retried = p.retried, p.settle # "data",
             next.idle = p.idle
      PROVE  RenderInv'
  <2> HIDE DEF p
  <2>1. PageKnows(next)
    BY <1>1, <1>2 DEF PageKnows
  <2> QED BY <1>1, <1>2, <2>1, PageStep
<1>3. CASE FontsLoaded(t)
  <2> DEFINE next == [p EXCEPT !.settle = "images", !.decoding = {q \in Images : InFlight(p.query[q])}]
  <2>1. page' = [page EXCEPT ![t] = next] /\ UNCHANGED <<pc, version, pdf, disk>> /\ p.settle = "fonts"
    BY <1>1, <1>3 DEF FontsLoaded, RenderInv, RenderTypeOK
  <2> HIDE DEF p
  <2>2. next \in Page /\ next.query = p.query /\ next.retried = p.retried /\ next.idle = p.idle
    BY <1>1 DEF Page, Settling
  <2> HIDE DEF next
  <2> QED BY <1>2, <2>1, <2>2
<1>4. CASE FontsMissing(t)
  <2> DEFINE next == [p EXCEPT !.settle = "stuck"]
  <2>1. page' = [page EXCEPT ![t] = next] /\ UNCHANGED <<pc, version, pdf, disk>> /\ p.settle = "fonts"
    BY <1>1, <1>4 DEF FontsMissing
  <2> HIDE DEF p
  <2>2. next \in Page /\ next.query = p.query /\ next.retried = p.retried /\ next.idle = p.idle
    BY <1>1 DEF Page, Settling
  <2> HIDE DEF next
  <2> QED BY <1>2, <2>1, <2>2
<1>5. CASE FlagReady(t)
  <2> DEFINE next == [p EXCEPT !.settle = "ready", !.decoding = {}]
  <2>1. page' = [page EXCEPT ![t] = next] /\ UNCHANGED <<pc, version, pdf, disk>> /\ p.settle = "images"
    BY <1>1, <1>5 DEF FlagReady, RenderInv, RenderTypeOK
  <2> HIDE DEF p
  <2>2. next \in Page /\ next.query = p.query /\ next.retried = p.retried /\ next.idle = p.idle
    BY <1>1 DEF Page, Settling
  <2> HIDE DEF next
  <2> QED BY <1>2, <2>1, <2>2
<1>6. CASE NetworkIdle(t)
  <2> DEFINE next == [p EXCEPT !.idle = TRUE]
  <2>1. /\ page' = [page EXCEPT ![t] = next] /\ UNCHANGED <<pc, version, pdf, disk>>
        /\ \A q \in Query : ~InFlight(p.query[q])
    BY <1>6 DEF NetworkIdle
  <2> HIDE DEF p
  <2>2. /\ next \in Page /\ next.query = p.query /\ next.retried = p.retried
        /\ next.settle = p.settle /\ p.query \in Queries
    BY <1>1 DEF Page
  <2> HIDE DEF next
  <2>3. ~p.retried => AllLoaded(p.query)
    BY <1>1, <2>1, <2>2, QuietIsLoaded DEF PageKnows
  <2>4. PageKnows(next)
    BY <1>1, <2>2, <2>3 DEF PageKnows
  <2> QED BY <1>1, <2>1, <2>2, <2>4, PageStep
<1> QED BY <1>3, <1>4, <1>5, <1>6

\* From the click to the open page: the version that is read is the next one.
LEMMA RequestStep ==
  ASSUME RenderInv, NEW t \in Toolbar, Generate(t) \/ ReadVersion(t) \/ Open(t)
  PROVE  RenderInv'
<1>1. UNCHANGED disk /\ pdf' = pdf
  BY DEF Generate, ReadVersion, Open
<1>2. OnFile' /\ UNCHANGED <<objects, records, latest>> /\ Versions' = Versions
  BY <1>1, SameDisk
<1>3. MaxVersion \in Nat /\ MaxVersion + 1 \in 1..(Cardinality(records) + 1)
  <2>1. MaxVersion = Cardinality(records) /\ MaxVersion \in Nat
    BY MaxIsCount DEF RenderInv, OnFile
  <2> QED BY <2>1
<1>4. Showing(Blank, Blank.query) \in Page
  <2>1. Blank.query \in Queries
    BY DEF Blank, Queries, QueryStates
  <2> QED BY <2>1, BlankOpens, Shown
<1>5. RenderTypeOK'
  <2>1. pc' \in [Toolbar -> Phase]
    BY DEF RenderInv, RenderTypeOK, Phase, Generate, ReadVersion, Open
  <2>2. version' \in [Toolbar -> Nat]
    <3>1. MaxVersion + 1 \in Nat
      BY <1>3
    <3> QED BY <3>1 DEF RenderInv, RenderTypeOK, Generate, ReadVersion, Open
  <2>3. page' \in [Toolbar -> Page]
    BY <1>4 DEF RenderInv, RenderTypeOK, Generate, ReadVersion, Open
  <2> QED BY <1>1, <2>1, <2>2, <2>3 DEF RenderInv, RenderTypeOK
<1>6. Moves(t)
  <2>1. ASSUME NEW u \in Toolbar \ {t}
        PROVE  /\ pc'[u] = pc[u] /\ version'[u] = version[u]
               /\ page'[u] = page[u] /\ pdf'[u] = pdf[u]
    BY <1>1 DEF RenderInv, RenderTypeOK, Generate, ReadVersion, Open
  <2> QED BY <1>2, <2>1 DEF Moves
<1>7. RenderKnows(t)'
  BY <1>1, <1>2, <1>3, BlankOpens DEF RenderInv, RenderTypeOK, RenderKnows, Generate, ReadVersion, Open
<1> QED BY <1>2, <1>5, <1>6, <1>7, OthersKnow

\* page.pdf(): the flag is set and the network was quiet.
LEMMA CaptureStep == ASSUME RenderInv, NEW t \in Toolbar, Capture(t) PROVE RenderInv'
<1> DEFINE p == page[t]
           file == [query |-> p.query, retried |-> p.retried]
<1>1. pc[t] = "page" /\ p \in Page /\ PageKnows(p) /\ p.idle /\ p.settle = "ready"
  BY DEF RenderInv, RenderTypeOK, RenderKnows, Capture
<1>2. /\ pc' = [pc EXCEPT ![t] = "captured"] /\ pdf' = [pdf EXCEPT ![t] = file]
      /\ page' = [page EXCEPT ![t] = Blank] /\ UNCHANGED <<version, disk>>
  BY DEF Capture
<1>3. OnFile' /\ UNCHANGED <<objects, records, latest>> /\ Versions' = Versions
  BY <1>2, SameDisk
<1> HIDE DEF p
<1>4. file \in [query : Queries, retried : BOOLEAN] /\ Whole(file)
  BY <1>1 DEF Page, PageKnows, Whole
<1> HIDE DEF file
<1>5. /\ pc'[t] = "captured" /\ pdf'[t] = file /\ version' = version
      /\ \A u \in Toolbar \ {t} : pc'[u] = pc[u] /\ page'[u] = page[u] /\ pdf'[u] = pdf[u]
  BY <1>2 DEF RenderInv, RenderTypeOK
<1>6. RenderTypeOK'
  <2>1. pc' \in [Toolbar -> Phase] /\ page' \in [Toolbar -> Page]
    BY <1>2, BlankOpens DEF RenderInv, RenderTypeOK, Phase
  <2>2. pdf' \in [Toolbar -> [query : Queries, retried : BOOLEAN]]
    BY <1>2, <1>4 DEF RenderInv, RenderTypeOK
  <2> QED BY <1>5, <2>1, <2>2 DEF RenderInv, RenderTypeOK
<1>7. RenderKnows(t)'
  BY <1>1, <1>3, <1>4, <1>5 DEF RenderInv, RenderKnows
<1>8. Moves(t)
  BY <1>3, <1>5 DEF Moves
<1> QED BY <1>3, <1>6, <1>7, <1>8, OthersKnow

\* The file is there before its row, and another render does not take it away.
LEMMA UploadStep == ASSUME RenderInv, NEW t \in Toolbar, Upload(t) PROVE RenderInv'
<1>1. /\ pc[t] = "captured" /\ pc' = [pc EXCEPT ![t] = "uploaded"]
      /\ UNCHANGED <<version, page, pdf, records, latest>> /\ DOMAIN objects' = DOMAIN objects \cup {version[t]}
  BY DEF Upload
<1>2. OnFile' /\ Versions' = Versions
  BY <1>1 DEF RenderInv, OnFile, Numbered, Versions
<1>3. RenderTypeOK' /\ Moves(t)
  BY <1>1, <1>2 DEF RenderInv, RenderTypeOK, Phase, Moves
<1>4. RenderKnows(t)'
  BY <1>1, <1>2 DEF RenderInv, RenderTypeOK, RenderKnows
<1> QED BY <1>2, <1>3, <1>4, OthersKnow

\* UNIQUE (proposal_id, version): the row that goes in is the next one.
LEMMA InsertStep == ASSUME RenderInv, NEW t \in Toolbar, InsertRow(t) PROVE RenderInv'
<1>1. /\ pc[t] = "uploaded" /\ version[t] \notin Versions /\ pc' = [pc EXCEPT ![t] = "inserted"]
      /\ records' = records \cup {<<version[t], t>>} /\ UNCHANGED <<version, page, pdf, objects, latest>>
  BY DEF InsertRow
<1>2. /\ version[t] \in Nat /\ version[t] \in 1..(Cardinality(records) + 1)
      /\ version[t] \in DOMAIN objects /\ Whole(pdf[t])
  BY <1>1 DEF RenderInv, RenderTypeOK, RenderKnows
<1>3. /\ Numbered' /\ Versions' = Versions \cup {version[t]}
      /\ Cardinality(records') = Cardinality(records) + 1
  BY <1>1, <1>2, NextRow DEF RenderInv, OnFile
<1>4. OnFile'
  BY <1>1, <1>2, <1>3 DEF RenderInv, OnFile
<1>5. RenderTypeOK'
  BY <1>1 DEF RenderInv, RenderTypeOK, Phase
<1>6. Moves(t)
  BY <1>1, <1>3 DEF RenderInv, RenderTypeOK, Moves
<1>7. RenderKnows(t)'
  BY <1>1, <1>2, <1>3 DEF RenderInv, RenderTypeOK, RenderKnows
<1> QED BY <1>4, <1>5, <1>6, <1>7, OthersKnow

\* A request that ends: answered, timed out, refused by the key, or failed.
LEMMA EndStep ==
  ASSUME RenderInv, NEW t \in Toolbar, Timeout(t) \/ Duplicate(t) \/ Point(t) \/ Fail(t)
  PROVE  RenderInv'
<1>1. /\ Responded(t) /\ UNCHANGED <<objects, records>>
      /\ page' \in {page, [page EXCEPT ![t] = Blank]}
      /\ latest' = latest \/ (pc[t] = "inserted" /\ latest' = version[t])
  BY DEF Timeout, Duplicate, Point, Fail, disk
<1>2. OnFile'
  BY <1>1 DEF RenderInv, OnFile, Numbered, Versions, RenderKnows
<1> QED BY <1>1, <1>2, RespondStep

LEMMA RenderStep == ASSUME RenderInv, [RenderNext]_renderVars PROVE RenderInv'
<1>1. CASE UNCHANGED renderVars
  BY <1>1
  DEF renderVars, disk, RenderInv, RenderTypeOK, OnFile, Numbered, Versions, RenderKnows
<1>2. ASSUME NEW t \in Toolbar,
             \/ Generate(t) \/ FontsMissing(t) \/ Fail(t)
             \/ \E q \in Query : Reject(t, q)
             \/ Step(t)
      PROVE  RenderInv'
  BY <1>2, QueryStep, SettleStep, RequestStep, CaptureStep, UploadStep, InsertStep, EndStep DEF Step
<1> QED BY <1>1, <1>2 DEF RenderNext

LEMMA RenderStarts == ASSUME RenderInit PROVE RenderInv
<1>1. RenderTypeOK
  <2>1. Unprinted \in [query : Queries, retried : BOOLEAN]
    BY DEF Unprinted, Blank, Queries, QueryStates
  <2> QED BY <2>1, BlankOpens DEF RenderInit, RenderTypeOK, Phase
<1>2. OnFile
  <2>1. IsFiniteSet(records) /\ Cardinality(records) = 0 /\ Versions = {}
    BY FS_EmptySet DEF RenderInit, Versions
  <2> QED BY <2>1 DEF RenderInit, OnFile, Numbered
<1>3. \A t \in Toolbar : RenderKnows(t)
  BY DEF RenderInit, RenderKnows
<1> QED BY <1>1, <1>2, <1>3 DEF RenderInv

LEMMA RenderHolds == RenderSpec => []RenderInv
<1>1. RenderInit => RenderInv
  BY RenderStarts
<1>2. RenderInv /\ [RenderNext]_renderVars => RenderInv'
  BY RenderStep
<1> QED BY <1>1, <1>2, PTL DEF RenderSpec

\* What a render stores is complete, for any number of toolbars, queries and slots: a
\* captured PDF holds the document with nothing that gates it still loading, and
\* everything if no request had to be repeated; the rows of proposal_renders are numbered
\* without a gap, each has its file, and the latest pointer names one of them.
THEOREM RendersComplete == RenderSpec => []RendersAreComplete
<1>1. ASSUME RenderInv PROVE CapturedIsLoaded
  <2> SUFFICES ASSUME NEW t \in Toolbar, pc[t] \in {"captured", "uploaded", "inserted"}
               PROVE  /\ \A q \in Required : pdf[t].query[q] = "ok"
                      /\ \A q \in Query \ Own : ~Loading(pdf[t].query[q])
                      /\ ~pdf[t].retried => \A q \in Query : pdf[t].query[q] = "ok"
    BY DEF CapturedIsLoaded
  <2>1. Whole(pdf[t])
    BY <1>1 DEF RenderInv, RenderKnows
  <2> QED BY <2>1 DEF Whole, Ready, AllLoaded
<1>2. RenderInv => RendersAreOnFile
  BY DEF RenderInv, OnFile, Numbered, RendersAreOnFile
<1>3. RenderInv => RendersAreComplete
  BY <1>1, <1>2 DEF RendersAreComplete
<1> QED BY <1>3, RenderHolds, PTL

-----------------------------------------------------------------------------
(* The documents of a proposal: the builder, its slots and what they hang    *)
(* off.  Which lead an upload was made for never changes; what may change is *)
(* whether its row names that lead, its estimate, or both.                   *)

AnyLead == Leads \cup {None}
Row == [lead : AnyLead, est : AnyLead, kind : Kinds \cup {None},
        status : {"none", "pending", "stored", "failed", "deleted"}]
UploadState == [step : {"none", "put", "confirm", "found", "missing", "confirmed", "ended"},
           scope : Scopes \cup {NoScope}, prev : Files \cup {None}, here : BOOLEAN]
Package == [lead : Leads, est : AnyLead, picks : SUBSET Leads, inherits : SUBSET Files]

DatabaseOK ==
  /\ property \subseteq Leads /\ rows \in [Files -> Row] /\ stored \subseteq Files
  /\ DOMAIN saved \subseteq Proposals /\ saved \in [DOMAIN saved -> Package]

FormOK ==
  /\ form \in [entry : {None, "dialog", "panel"}, lead : AnyLead, withProperty : BOOLEAN,
               picks : SUBSET Leads]
  /\ form.withProperty => form.lead \in property
  /\ known \in [Leads -> {"asking", "no", "yes"}] /\ unasked \subseteq Leads
  /\ FormFollowsLead

SlotsOK ==
  /\ listed \subseteq Files /\ asked \subseteq Scopes /\ uploads \in [Files -> UploadState]
  /\ kept \subseteq Files

CreatingOK ==
  /\ creating \in [id : Proposals \cup {None}, lead : AnyLead, est : AnyLead, picks : SUBSET Leads,
                   step : {"none", "insert", "anchor", "answer"}, here : BOOLEAN]
  /\ creating.step # "none" =>
       /\ creating.id \in Proposals /\ creating.lead \in Leads /\ creating.est \in {None, creating.lead}
  /\ creating.step = "anchor" =>
       /\ creating.id \in DOMAIN saved
       /\ saved[creating.id].lead = creating.lead /\ saved[creating.id].est = creating.est

AttachingOK ==
  attaching \in [lead : AnyLead, here : BOOLEAN] /\ (attaching.lead = None => attaching = NoAttach)

\* A row names the lead its upload was made for, that lead's estimate, or both.
Hangs(f) ==
  /\ uploads[f].step # "none" => uploads[f].scope \in Scopes
  /\ rows[f].status # "none" =>
       /\ uploads[f].scope.of \in Leads
       /\ rows[f].lead \in {None, uploads[f].scope.of} /\ rows[f].est \in {None, uploads[f].scope.of}
       /\ uploads[f].scope.of \in {rows[f].lead, rows[f].est}

\* A proposal is of one lead, and what it inherited stays at the estimate it names.
Inherits(p) ==
  /\ saved[p].est \in {None, saved[p].lead}
  /\ \A f \in saved[p].inherits :
       /\ uploads[f].scope.of = saved[p].lead
       /\ saved[p].est # None /\ rows[f].status # "none" => rows[f].est = saved[p].est

FilesOK ==
  /\ \A f \in Files : Hangs(f)
  /\ \A p \in DOMAIN saved : Inherits(p)
  /\ \A f \in kept : Live(f)

DocumentsInv == DatabaseOK /\ FormOK /\ SlotsOK /\ CreatingOK /\ AttachingOK /\ FilesOK

\* What an upload was made for stays.
Steady == \A f \in Files : /\ uploads'[f].scope = uploads[f].scope
                           /\ uploads'[f].step # "none" => uploads[f].step # "none"

LEMMA FilesStay ==
  ASSUME DatabaseOK, SlotsOK, FilesOK, Steady, UNCHANGED <<rows, saved, kept>>
  PROVE  FilesOK'
<1>1. \A f \in Files : Hangs(f)'
  BY DEF FilesOK, Hangs, Steady
<1>2. ASSUME NEW p \in DOMAIN saved PROVE Inherits(p)'
  <2>1. Inherits(p) /\ saved[p].inherits \subseteq Files
    BY DEF FilesOK, DatabaseOK, Package
  <2> QED BY <2>1 DEF Inherits, Steady
<1>3. \A f \in kept' : Live(f)'
  BY DEF FilesOK, Live
<1> QED BY <1>1, <1>2, <1>3 DEF FilesOK

LEMMA ScopeOK ==
  ASSUME FormOK
  PROVE  /\ Scope \in Scopes \cup {NoScope}
         /\ Scope # NoScope => Scope \in Scopes /\ Scope.of = form.lead /\ form.lead \in Leads
         /\ Estimate \in {None, form.lead}
  BY DEF FormOK, AnyLead, Scope, Scopes, NoScope, Slots, Estimate

LEMMA ScopeOfOK == ASSUME NEW l \in Leads, NEW k PROVE ScopeOf(l, k) \in Scopes
  BY DEF ScopeOf, Scopes, Slots

\* The components of the builder may go: what was uploaded goes on.
LEMMA UnheardOK ==
  ASSUME SlotsOK, uploads' = Unheard(uploads)
  PROVE  uploads' \in [Files -> UploadState] /\ Steady
<1>1. \A f \in Files : uploads[f] \in UploadState
  BY DEF SlotsOK
<1>2. \A f \in Files : uploads'[f] = [uploads[f] EXCEPT !.here = FALSE]
  BY DEF Unheard
<1>3. \A f \in Files : /\ uploads'[f] \in UploadState /\ uploads'[f].scope = uploads[f].scope
                       /\ uploads'[f].step = uploads[f].step
  BY <1>1, <1>2 DEF UploadState
<1> QED BY <1>3 DEF Unheard, Steady

LEMMA SectionOK ==
  ASSUME FormOK, SlotsOK, NEW s \in Scopes \cup {NoScope}, Section(s)
  PROVE  asked' \subseteq Scopes /\ listed' \subseteq Files /\ uploads' \in [Files -> UploadState] /\ Steady
<1>1. asked' \subseteq Scopes /\ listed' \subseteq Files
  BY DEF SlotsOK, Section
<1>2. CASE uploads' = uploads
  BY <1>1, <1>2 DEF SlotsOK, Steady
<1>3. CASE uploads' = Unheard(uploads)
  BY <1>1, <1>3, UnheardOK
<1> QED BY <1>2, <1>3 DEF Section

LEMMA DocumentsStart == ASSUME Init PROVE DocumentsInv
<1>1. DatabaseOK
  <2>1. saved \in [DOMAIN saved -> Package] /\ DOMAIN saved = {}
    BY DEF Init
  <2>2. NoRow \in Row
    BY DEF NoRow, Row, AnyLead
  <2> QED BY <2>1, <2>2, DocumentsAssumption DEF Init, DatabaseOK
<1>2. FormOK
  <2>1. NoForm.picks = {} /\ NoForm.withProperty = FALSE
    BY DEF NoForm
  <2> QED BY <2>1 DEF Init, FormOK, NoForm, AnyLead, FormFollowsLead
<1>3. SlotsOK
  BY DEF Init, SlotsOK, NoUpload, UploadState
<1>4. CreatingOK /\ AttachingOK
  BY DEF Init, CreatingOK, AttachingOK, NoCreate, NoAttach, AnyLead
<1>5. FilesOK
  BY DEF Init, FilesOK, Hangs, NoRow, NoUpload
<1> QED BY <1>1, <1>2, <1>3, <1>4, <1>5 DEF DocumentsInv

\* What stays when only the browser moves.
LEMMA DatabaseStays ==
  ASSUME DocumentsInv, UNCHANGED <<property, rows, saved>>, stored' \in {stored} \cup SUBSET Files,
         UNCHANGED kept, Steady, SlotsOK', FormOK', AttachingOK',
         creating' \in {creating, [creating EXCEPT !.here = FALSE], NoCreate}
  PROVE  DocumentsInv'
<1>1. DatabaseOK'
  BY DEF DocumentsInv, DatabaseOK
<1>2. FilesOK'
  BY FilesStay DEF DocumentsInv
<1>3. CreatingOK'
  <2>1. CASE creating' = creating
    BY <2>1 DEF DocumentsInv, CreatingOK
  <2>2. CASE creating' = [creating EXCEPT !.here = FALSE]
    BY <2>2 DEF DocumentsInv, CreatingOK
  <2>3. CASE creating' = NoCreate
    BY <2>3 DEF CreatingOK, NoCreate, AnyLead
  <2> QED BY <2>1, <2>2, <2>3
<1> QED BY <1>1, <1>2, <1>3 DEF DocumentsInv

LEMMA AttachingGoes ==
  ASSUME AttachingOK, attaching' \in {attaching, [attaching EXCEPT !.here = FALSE], NoAttach}
  PROVE  AttachingOK'
<1>1. CASE attaching' = attaching
  BY <1>1 DEF AttachingOK
<1>2. CASE attaching' = [attaching EXCEPT !.here = FALSE]
  BY <1>2 DEF AttachingOK, NoAttach, AnyLead
<1>3. CASE attaching' = NoAttach
  BY <1>3 DEF AttachingOK, NoAttach, AnyLead
<1> QED BY <1>1, <1>2, <1>3

\* A builder opens empty, and leaves nothing behind.
LEMMA OpenStep ==
  ASSUME DocumentsInv, OpenDialog \/ (\E l \in Leads : OpenPanel(l)) \/ Close \/ Answered
  PROVE  DocumentsInv'
<1>1. ASSUME NEW entry \in {"dialog", "panel"}, NEW l \in AnyLead, Opened(entry, l, known),
             UNCHANGED <<database, known, kept>>
      PROVE  DocumentsInv'
  <2>1. Steady /\ uploads' \in [Files -> UploadState]
    BY <1>1, UnheardOK DEF Opened, DocumentsInv
  <2>2. SlotsOK'
    <3>1. asked' \subseteq Scopes
      BY <1>1, ScopeOfOK DEF Opened, AnyLead
    <3> QED BY <1>1, <2>1, <3>1 DEF Opened, DocumentsInv, SlotsOK
  <2>3. FormOK'
    <3> DEFINE ready == l \in property
    <3>0. ready \in BOOLEAN /\ (ready => l \in property)
      OBVIOUS
    <3>1. form' = [entry |-> entry, lead |-> l, withProperty |-> ready, picks |-> {}]
      BY <1>1 DEF Opened
    <3> HIDE DEF ready
    <3>2. FormFollowsLead'
      BY <3>1 DEF FormFollowsLead
    <3>3. /\ form' \in [entry : {None, "dialog", "panel"}, lead : AnyLead, withProperty : BOOLEAN,
                        picks : SUBSET Leads]
          /\ form'.withProperty => form'.lead \in property
      BY <3>0, <3>1
    <3> QED BY <1>1, <3>2, <3>3 DEF Opened, DocumentsInv, FormOK, database
  <2>4. AttachingOK'
    BY <1>1, AttachingGoes DEF Opened, DocumentsInv
  <2> QED BY <1>1, <2>1, <2>2, <2>3, <2>4, DatabaseStays DEF Opened, database
<1>2. ASSUME Gone, UNCHANGED <<database, known, kept>>,
             creating' \in {creating, [creating EXCEPT !.here = FALSE], NoCreate}
      PROVE  DocumentsInv'
  <2>1. Steady /\ uploads' \in [Files -> UploadState]
    BY <1>2, UnheardOK DEF Gone, DocumentsInv
  <2>2. SlotsOK'
    BY <1>2, <2>1 DEF Gone, DocumentsInv, SlotsOK
  <2>3. FormOK'
    <3>1. form'.picks = {} /\ form'.withProperty = FALSE
      BY <1>2 DEF Gone, NoForm
    <3> QED BY <1>2, <3>1 DEF Gone, DocumentsInv, FormOK, FormFollowsLead, NoForm, AnyLead, database
  <2>4. AttachingOK'
    BY <1>2, AttachingGoes DEF Gone, DocumentsInv
  <2> QED BY <1>2, <2>1, <2>2, <2>3, <2>4, DatabaseStays DEF database
<1>3. ASSUME UNCHANGED <<form, listed, asked, uploads, attaching, unasked, database, known, kept>>,
             creating' = NoCreate
      PROVE  DocumentsInv'
  <2>1. Steady /\ SlotsOK' /\ FormOK' /\ AttachingOK'
    BY <1>3 DEF DocumentsInv, SlotsOK, FormOK, FormFollowsLead, AttachingOK, Steady, database
  <2> QED BY <1>3, <2>1, DatabaseStays DEF database
<1> QED BY <1>1, <1>2, <1>3 DEF OpenDialog, OpenPanel, Close, Answered, AnyLead

\* handleLeadChange, next and previous lead, the estimate that is looked up, a pick.
LEMMA LeadStep ==
  ASSUME DocumentsInv,
         \/ ChangeLead \/ Tick
         \/ \E l \in Leads : \/ NextLead(l) \/ PickLead(l)
                             \/ \E found \in {"no", "yes"} : EstimateAnswered(l, found)
  PROVE  DocumentsInv'
<1>1. UNCHANGED <<property, rows, stored, saved, kept, attaching, creating>>
  BY DEF ChangeLead, Tick, NextLead, PickLead, EstimateAnswered, database
<1>2. AttachingOK'
  BY <1>1 DEF DocumentsInv, AttachingOK
<1>3. SlotsOK' /\ Steady
  <2>1. ASSUME NEW s \in Scopes \cup {NoScope}, Section(s) PROVE SlotsOK' /\ Steady
    BY <1>1, <2>1, SectionOK DEF DocumentsInv, SlotsOK
  <2>2. ASSUME UNCHANGED <<listed, asked, uploads>> PROVE SlotsOK' /\ Steady
    BY <1>1, <2>2 DEF DocumentsInv, SlotsOK, Steady
  <2> QED BY <2>1, <2>2, ScopeOfOK DEF ChangeLead, Tick, NextLead, PickLead, EstimateAnswered
<1>4. FormOK'
  <2>1. CASE Tick
    <3>1. form' = [form EXCEPT !.picks = form.picks \cup {form.lead}] /\ form.lead # None
      BY <2>1 DEF Tick
    <3>2. UNCHANGED <<known, unasked>>
      BY <2>1 DEF Tick
    <3> QED BY <1>1, <3>1, <3>2 DEF DocumentsInv, FormOK, FormFollowsLead, AnyLead
  <2>2. CASE ChangeLead
    <3>1. form' = [form EXCEPT !.lead = None, !.withProperty = FALSE, !.picks = {}]
      BY <2>2 DEF ChangeLead, LeadChanged
    <3>2. known' = known /\ unasked' = {}
      BY <2>2 DEF ChangeLead
    <3> QED BY <1>1, <3>1, <3>2 DEF DocumentsInv, FormOK, FormFollowsLead, AnyLead
  <2>3. ASSUME NEW l \in Leads, NextLead(l) PROVE FormOK'
    <3> DEFINE ready == l \in property
    <3>0. ready \in BOOLEAN /\ (ready => l \in property)
      OBVIOUS
    <3>1. form' = [form EXCEPT !.lead = l, !.withProperty = ready] /\ form.entry = "panel"
      BY <2>3 DEF NextLead
    <3> HIDE DEF ready
    <3>2. known' = known /\ unasked' = {}
      BY <2>3 DEF NextLead
    <3> QED BY <1>1, <3>0, <3>1, <3>2 DEF DocumentsInv, FormOK, FormFollowsLead, AnyLead
  <2>4. ASSUME NEW l \in Leads, PickLead(l) PROVE FormOK'
    <3> DEFINE ready == l \in property
    <3>0. ready \in BOOLEAN /\ (ready => l \in property)
      OBVIOUS
    <3>1. form' = [form EXCEPT !.lead = l, !.withProperty = ready, !.picks = {}]
      BY <2>4, DocumentsAssumption DEF PickLead, LeadChanged
    <3> HIDE DEF ready
    <3>2. known' = known /\ unasked' = {}
      BY <2>4 DEF PickLead
    <3> QED BY <1>1, <3>0, <3>1, <3>2 DEF DocumentsInv, FormOK, FormFollowsLead, AnyLead
  <2>5. ASSUME NEW l \in Leads, NEW found \in {"no", "yes"}, EstimateAnswered(l, found) PROVE FormOK'
    <3>1. known' = [known EXCEPT ![l] = found] /\ UNCHANGED <<form, unasked>>
      BY <2>5 DEF EstimateAnswered
    <3> QED BY <1>1, <3>1 DEF DocumentsInv, FormOK, FormFollowsLead
  <2> QED BY <2>1, <2>2, <2>3, <2>4, <2>5
<1> QED BY <1>1, <1>2, <1>3, <1>4, DatabaseStays

\* A property is attached: its late answer may put back a lead the rep had left, and
\* then says so.
LEMMA AttachStep ==
  ASSUME DocumentsInv, AttachProperty \/ Attached \/ AttachFails
  PROVE  DocumentsInv'
<1>1. UNCHANGED <<rows, stored, saved, kept, creating, known>>
  BY DEF AttachProperty, Attached, AttachFails, database
<1>2. attaching # NoAttach => attaching.lead \in Leads
  BY DEF DocumentsInv, AttachingOK, AnyLead
<1>3. DatabaseOK' /\ CreatingOK'
  BY <1>1, <1>2 DEF DocumentsInv, DatabaseOK, CreatingOK, AttachProperty, Attached, AttachFails, database
<1>4. AttachingOK'
  <2>1. CASE AttachProperty
    BY <2>1, <1>2 DEF AttachProperty, DocumentsInv, AttachingOK, FormOK, AnyLead
  <2>2. CASE Attached \/ AttachFails
    BY <2>2, AttachingGoes DEF Attached, AttachFails, DocumentsInv
  <2> QED BY <2>1, <2>2
<1>5. SlotsOK' /\ Steady
  <2>1. ASSUME NEW s \in Scopes, Section(s) PROVE SlotsOK' /\ Steady
    BY <1>1, <2>1, SectionOK DEF DocumentsInv, SlotsOK
  <2>2. ASSUME UNCHANGED <<listed, asked, uploads>> PROVE SlotsOK' /\ Steady
    BY <1>1, <2>2 DEF DocumentsInv, SlotsOK, Steady
  <2> QED BY <1>2, <2>1, <2>2, ScopeOfOK DEF AttachProperty, Attached, AttachFails
<1>6. FilesOK'
  BY <1>1, <1>5, FilesStay DEF DocumentsInv
<1>7. FormOK'
  <2>1. property \subseteq property'
    BY DEF AttachProperty, Attached, AttachFails, database
  <2>2. ASSUME UNCHANGED <<form, unasked>> PROVE FormOK'
    BY <1>1, <2>1, <2>2 DEF DocumentsInv, FormOK, FormFollowsLead
  <2>3. ASSUME Attached, attaching.here PROVE FormOK'
    <3> DEFINE l == attaching.lead
    <3>1. /\ form' = [form EXCEPT !.lead = l, !.withProperty = TRUE]
          /\ unasked' = IF form.lead # l THEN unasked \cup {l} ELSE unasked
          /\ l \in property' /\ l \in Leads
      BY <1>2, <2>3 DEF Attached, LeadChanged, DocumentsInv, FormOK
    <3> HIDE DEF l
    <3>2. FormFollowsLead'
      BY <3>1 DEF DocumentsInv, FormOK, FormFollowsLead
    <3> QED BY <1>1, <3>1, <3>2 DEF DocumentsInv, FormOK, AnyLead
  <2> QED BY <2>2, <2>3 DEF AttachProperty, Attached, AttachFails
<1> QED BY <1>3, <1>4, <1>5, <1>6, <1>7 DEF DocumentsInv

\* The calls of an upload that only move the upload, and a list that is shown.
LEMMA SlotStep ==
  ASSUME DocumentsInv,
         \/ \E s \in Scopes : ShowList(s)
         \/ \E f \in Files : Put(f) \/ UploadFails(f) \/ ConfirmReads(f)
  PROVE  DocumentsInv'
<1>1. UNCHANGED <<property, rows, saved, form, known, attaching, creating, kept, unasked>>
  BY DEF ShowList, Put, UploadFails, ConfirmReads, database
<1>2. FormOK' /\ AttachingOK'
  BY <1>1 DEF DocumentsInv, FormOK, FormFollowsLead, AttachingOK
<1>3. stored' \in SUBSET Files
  BY DEF ShowList, Put, UploadFails, ConfirmReads, database, DocumentsInv, DatabaseOK
<1>4. listed' \subseteq Files /\ asked' \subseteq Scopes
  BY DEF ShowList, Put, UploadFails, ConfirmReads, DocumentsInv, SlotsOK, Listing
<1>5. uploads' \in [Files -> UploadState] /\ Steady
  <2>1. CASE uploads' = uploads
    BY <2>1 DEF DocumentsInv, SlotsOK, Steady
  <2>2. ASSUME NEW f \in Files, NEW u \in UploadState, uploads' = [uploads EXCEPT ![f] = u],
               u.scope = uploads[f].scope, uploads[f].step # "none"
        PROVE  uploads' \in [Files -> UploadState] /\ Steady
    BY <2>2 DEF DocumentsInv, SlotsOK, Steady
  <2>3. ASSUME NEW f \in Files, NEW step \in {"confirm", "found", "missing"},
               uploads' = [uploads EXCEPT ![f].step = step], uploads[f].step # "none"
        PROVE  uploads' \in [Files -> UploadState] /\ Steady
    <3> DEFINE u == [uploads[f] EXCEPT !.step = step]
    <3>1. uploads[f] \in UploadState
      BY DEF DocumentsInv, SlotsOK
    <3>2. u \in UploadState /\ u.scope = uploads[f].scope /\ uploads' = [uploads EXCEPT ![f] = u]
      BY <2>3, <3>1 DEF UploadState
    <3> HIDE DEF u
    <3> QED BY <2>2, <2>3, <3>2
  <2>4. ASSUME NEW f \in Files, uploads' = Ended(f), uploads[f].step # "none"
        PROVE  uploads' \in [Files -> UploadState] /\ Steady
    <3> DEFINE u == [uploads[f] EXCEPT !.step = "ended", !.prev = None, !.here = FALSE]
    <3>1. uploads[f] \in UploadState
      BY DEF DocumentsInv, SlotsOK
    <3>2. u \in UploadState /\ u.scope = uploads[f].scope
      BY <3>1 DEF UploadState
    <3>3. uploads' = [uploads EXCEPT ![f] = u]
      BY <2>4 DEF Ended, DocumentsInv, SlotsOK
    <3> HIDE DEF u
    <3> QED BY <2>2, <2>4, <3>2, <3>3
  <2> QED BY <2>1, <2>3, <2>4 DEF ShowList, Put, UploadFails, ConfirmReads
<1>6. SlotsOK'
  BY <1>1, <1>4, <1>5 DEF DocumentsInv, SlotsOK
<1> QED BY <1>1, <1>2, <1>3, <1>5, <1>6, DatabaseStays

\* One upload moves.
LEMMA UploadMoves ==
  ASSUME SlotsOK, NEW f \in Files, NEW u \in UploadState, uploads' = [uploads EXCEPT ![f] = u]
  PROVE  /\ uploads' \in [Files -> UploadState] /\ uploads'[f] = u
         /\ \A g \in Files \ {f} : uploads'[g] = uploads[g]
  BY DEF SlotsOK

\* handlePick: the row is made for the lead, or the estimate, of the mounted section.
LEMMA PresignStep ==
  ASSUME DocumentsInv, NEW f \in Files, NEW k \in Kinds, NEW prev \in Files \cup {None},
         NEW heard \in BOOLEAN, Presign(f, k, prev, heard)
  PROVE  DocumentsInv'
<1> DEFINE u == IF heard THEN [step |-> "put", scope |-> Scope, prev |-> prev, here |-> TRUE]
                ELSE [NoUpload EXCEPT !.step = "ended", !.scope = Scope]
           r == [lead |-> IF Scope.to = "lead" THEN Scope.of ELSE None,
                 est |-> IF Scope.to = "estimate" THEN Scope.of ELSE None,
                 kind |-> k, status |-> "pending"]
<1>1. /\ uploads[f] = NoUpload /\ Scope # NoScope
      /\ rows' = [rows EXCEPT ![f] = r] /\ uploads' = [uploads EXCEPT ![f] = u]
      /\ UNCHANGED <<property, stored, saved, form, known, listed, asked, attaching, creating, kept, unasked>>
  BY DEF Presign, CanPick
<1>2. Scope \in Scopes /\ Scope.of \in Leads /\ Scope.to \in {"lead", "estimate"}
  BY <1>1, ScopeOK DEF DocumentsInv, Scopes, Slots
<1>3. u \in UploadState /\ u.scope = Scope
  BY <1>2 DEF UploadState, NoUpload
<1>4. /\ r \in Row /\ r.status = "pending" /\ r.lead \in {None, Scope.of} /\ r.est \in {None, Scope.of}
      /\ Scope.of \in {r.lead, r.est}
  BY <1>2 DEF Row, AnyLead
<1> HIDE DEF u, r
<1>5. /\ uploads' \in [Files -> UploadState] /\ uploads'[f] = u
      /\ \A g \in Files \ {f} : uploads'[g] = uploads[g]
  BY <1>1, <1>3, UploadMoves DEF DocumentsInv
<1>6. rows' \in [Files -> Row] /\ rows'[f] = r /\ \A g \in Files \ {f} : rows'[g] = rows[g]
  BY <1>1, <1>4 DEF DocumentsInv, DatabaseOK
<1>7. FilesOK'
  <2>1. \A g \in Files : Hangs(g)'
    BY <1>2, <1>3, <1>4, <1>5, <1>6 DEF DocumentsInv, FilesOK, Hangs
  <2>2. ASSUME NEW p \in DOMAIN saved PROVE Inherits(p)'
    <3>1. Inherits(p) /\ saved[p].inherits \subseteq Files /\ saved[p].lead \in Leads
      BY DEF DocumentsInv, FilesOK, DatabaseOK, Package
    <3>2. f \notin saved[p].inherits
      BY <1>1, <3>1, DocumentsAssumption DEF Inherits, NoUpload, NoScope
    <3> QED BY <1>1, <1>5, <1>6, <3>1, <3>2 DEF Inherits
  <2>3. \A g \in kept' : Live(g)'
    BY <1>1, <1>4, <1>6 DEF DocumentsInv, FilesOK, SlotsOK, Live
  <2> QED BY <1>1, <2>1, <2>2, <2>3 DEF FilesOK
<1> QED
  BY <1>1, <1>5, <1>6, <1>7
  DEF DocumentsInv, DatabaseOK, FormOK, FormFollowsLead, SlotsOK, CreatingOK, AttachingOK

\* A row goes by the endpoint of its lead, or is marked by the one of its estimate;
\* confirm writes it whatever became of it.  Neither moves it.
LEMMA RowsStay ==
  ASSUME DocumentsInv, UNCHANGED <<property, saved, form, known, listed, attaching, creating, unasked>>,
         rows' \in [Files -> Row], stored' \subseteq Files, asked' \subseteq Scopes,
         uploads' \in [Files -> UploadState], Steady, kept' \subseteq Files, \A f \in kept' : Live(f)',
         \A f \in Files : \/ rows'[f].status = "none"
                          \/ /\ rows'[f].lead = rows[f].lead /\ rows'[f].est = rows[f].est
                             /\ rows[f].status # "none"
  PROVE  DocumentsInv'
<1>1. \A f \in Files : Hangs(f)'
  BY DEF DocumentsInv, FilesOK, Hangs, Steady
<1>2. ASSUME NEW p \in DOMAIN saved PROVE Inherits(p)'
  <2>1. Inherits(p) /\ saved[p].inherits \subseteq Files
    BY DEF DocumentsInv, FilesOK, DatabaseOK, Package
  <2> QED BY <2>1 DEF Inherits, Steady
<1> QED
  BY <1>1, <1>2
  DEF DocumentsInv, DatabaseOK, FormOK, FormFollowsLead, SlotsOK, CreatingOK, AttachingOK, FilesOK

\* A delete, carried out or not.
LEMMA DeletedOK ==
  ASSUME DocumentsInv, NEW s, NEW g \in Files, Deleted(s, g) \/ UNCHANGED <<rows, stored>>
  PROVE  /\ rows' \in [Files -> Row] /\ stored' \subseteq Files
         /\ \A f \in Files : \/ rows'[f].status = "none"
                             \/ /\ rows'[f].lead = rows[f].lead /\ rows'[f].est = rows[f].est
                                /\ rows[f].status # "none"
         /\ \A f \in Files \ {g} : rows'[f] = rows[f]
<1>1. rows \in [Files -> Row] /\ stored \subseteq Files
  BY DEF DocumentsInv, DatabaseOK
<1>2. CASE UNCHANGED <<rows, stored>>
  BY <1>1, <1>2
<1>3. ASSUME Finds(s, g), NEW r \in Row, rows' = [rows EXCEPT ![g] = r], stored' = stored \ {g},
             r.status = "none" \/ (r.lead = rows[g].lead /\ r.est = rows[g].est)
      PROVE  /\ rows' \in [Files -> Row] /\ stored' \subseteq Files
             /\ \A f \in Files : \/ rows'[f].status = "none"
                                 \/ /\ rows'[f].lead = rows[f].lead /\ rows'[f].est = rows[f].est
                                    /\ rows[f].status # "none"
             /\ \A f \in Files \ {g} : rows'[f] = rows[f]
  BY <1>1, <1>3 DEF Finds
<1>4. NoRow \in Row /\ NoRow.status = "none"
  BY DEF NoRow, Row, AnyLead
<1> DEFINE marked == [rows[g] EXCEPT !.status = "deleted"]
<1>5. marked \in Row /\ marked.lead = rows[g].lead /\ marked.est = rows[g].est
  <2>1. rows[g] \in Row
    BY <1>1
  <2> QED BY <2>1 DEF Row
<1>6. ASSUME Deleted(s, g), Finds(s, g)
      PROVE  stored' = stored \ {g} /\ (rows' = [rows EXCEPT ![g] = NoRow] \/ rows' = [rows EXCEPT ![g] = marked])
  BY <1>6 DEF Deleted
<1> HIDE DEF marked
<1> QED BY <1>2, <1>3, <1>4, <1>5, <1>6 DEF Deleted

LEMMA FileStep ==
  ASSUME DocumentsInv, NEW f \in Files,
         ConfirmWrites(f) \/ \E done \in BOOLEAN : Replaced(f, done) \/ Remove(f, done)
  PROVE  DocumentsInv'
<1>1. uploads[f] \in UploadState /\ rows \in [Files -> Row] /\ stored \subseteq Files /\ kept \subseteq Files
  BY DEF DocumentsInv, SlotsOK, DatabaseOK
<1>2. ASSUME NEW step \in {"confirmed", "ended"}, uploads[f].step # "none",
             NEW u, u = [uploads[f] EXCEPT !.step = step] \/ u = [uploads[f] EXCEPT !.step = "ended", !.prev = None, !.here = FALSE],
             uploads' = [uploads EXCEPT ![f] = u]
      PROVE  uploads' \in [Files -> UploadState] /\ Steady
  <2>1. u \in UploadState /\ u.scope = uploads[f].scope
    BY <1>1, <1>2 DEF UploadState
  <2>2. /\ uploads' \in [Files -> UploadState] /\ uploads'[f] = u
        /\ \A g \in Files \ {f} : uploads'[g] = uploads[g]
    BY <1>2, <2>1, UploadMoves DEF DocumentsInv
  <2> QED BY <1>2, <2>1, <2>2 DEF Steady
<1> DEFINE done == [uploads[f] EXCEPT !.step = "ended", !.prev = None, !.here = FALSE]
<1>3. Ended(f) = [uploads EXCEPT ![f] = done]
  BY DEF Ended, DocumentsInv, SlotsOK
<1>4. CASE ConfirmWrites(f)
  <2> DEFINE found == uploads[f].step = "found"
             r == [rows[f] EXCEPT !.status = IF found THEN "stored" ELSE "failed"]
  <2>1. /\ uploads[f].step \in {"found", "missing"}
        /\ rows' = IF rows[f].status = "none" THEN rows ELSE [rows EXCEPT ![f] = r]
        /\ uploads' = IF found THEN [uploads EXCEPT ![f] = [uploads[f] EXCEPT !.step = "confirmed"]] ELSE Ended(f)
        /\ kept' = IF found /\ rows[f].status # "none" THEN kept \cup {f} ELSE kept
        /\ UNCHANGED <<property, stored, saved, form, known, listed, asked, attaching, creating, unasked>>
    BY <1>1, <1>4 DEF ConfirmWrites, DocumentsInv, SlotsOK
  <2>2. uploads' \in [Files -> UploadState] /\ Steady
    BY <1>2, <1>3, <2>1
  <2>3. /\ r \in Row /\ r.lead = rows[f].lead /\ r.est = rows[f].est
        /\ r.status \in {"stored", "failed"} /\ (found => r.status = "stored")
    <3>1. rows[f] \in Row
      BY <1>1
    <3> QED BY <3>1 DEF Row
  <2> HIDE DEF r, found
  <2>4. /\ rows' \in [Files -> Row]
        /\ \A g \in Files : \/ rows'[g] = rows[g] /\ (g = f => rows[f].status = "none")
                            \/ g = f /\ rows[f].status # "none" /\ rows'[f] = r
    BY <1>1, <2>1, <2>3
  <2>5. \A g \in Files : \/ rows'[g].status = "none"
                         \/ /\ rows'[g].lead = rows[g].lead /\ rows'[g].est = rows[g].est
                            /\ rows[g].status # "none"
    BY <2>3, <2>4
  <2>6. kept' \subseteq Files /\ \A g \in kept' : Live(g)'
    <3>1. \A g \in kept : g \in Files /\ Live(g)
      BY <1>1 DEF DocumentsInv, FilesOK
    <3>2. \A g \in Files : Live(g) => Live(g)'
      BY <2>3, <2>4 DEF Live
    <3>3. rows[f].status # "none" => Live(f)'
      BY <2>3, <2>4 DEF Live
    <3> QED BY <2>1, <3>1, <3>2, <3>3
  <2>7. asked' \subseteq Scopes /\ stored' \subseteq Files
    BY <1>1, <2>1 DEF DocumentsInv, SlotsOK
  <2> QED BY <2>1, <2>2, <2>4, <2>5, <2>6, <2>7, RowsStay
<1>5. ASSUME NEW b \in BOOLEAN, Replaced(f, b) PROVE DocumentsInv'
  <2> DEFINE u == uploads[f]
  <2>1. /\ u.step = "confirmed" /\ uploads' = [uploads EXCEPT ![f] = done]
        /\ kept' = kept \ {u.prev} /\ Hydrates(u.here, u.scope)
        /\ (u.prev # None /\ Deleted(u.scope, u.prev)) \/ UNCHANGED <<rows, stored>>
        /\ UNCHANGED <<property, saved, form, known, listed, attaching, creating, unasked>>
    BY <1>3, <1>5 DEF Replaced
  <2>2. uploads' \in [Files -> UploadState] /\ Steady
    BY <1>2, <2>1
  <2>3. u.prev \in Files \cup {None} /\ u.scope \in Scopes
    BY <1>1, <2>1 DEF UploadState, DocumentsInv, FilesOK, Hangs
  <2>4. asked' \subseteq Scopes
    BY <2>1, <2>3 DEF Hydrates, DocumentsInv, SlotsOK
  <2> HIDE DEF u
  <2>5. /\ rows' \in [Files -> Row] /\ stored' \subseteq Files
        /\ \A g \in Files : \/ rows'[g].status = "none"
                            \/ /\ rows'[g].lead = rows[g].lead /\ rows'[g].est = rows[g].est
                               /\ rows[g].status # "none"
        /\ \A g \in Files \ {u.prev} : rows'[g] = rows[g]
    <3>1. CASE u.prev \in Files
      BY <2>1, <3>1, DeletedOK
    <3>2. CASE UNCHANGED <<rows, stored>>
      BY <1>1, <3>2
    <3> QED BY <2>1, <2>3, <3>1, <3>2
  <2>6. kept' \subseteq Files /\ \A g \in kept' : Live(g)'
    BY <1>1, <2>1, <2>5 DEF Live, DocumentsInv, FilesOK
  <2> QED BY <2>1, <2>2, <2>4, <2>5, <2>6, RowsStay
<1>6. ASSUME NEW b \in BOOLEAN, Remove(f, b) PROVE DocumentsInv'
  <2>1. /\ Scope # NoScope /\ kept' = kept \ {f} /\ Hydrates(TRUE, Scope)
        /\ Deleted(Scope, f) \/ UNCHANGED <<rows, stored>>
        /\ UNCHANGED <<property, saved, form, known, listed, uploads, attaching, creating, unasked>>
    BY <1>6 DEF Remove
  <2>2. asked' \subseteq Scopes
    BY <2>1, ScopeOK DEF Hydrates, DocumentsInv, SlotsOK
  <2>3. /\ rows' \in [Files -> Row] /\ stored' \subseteq Files
        /\ \A g \in Files : \/ rows'[g].status = "none"
                            \/ /\ rows'[g].lead = rows[g].lead /\ rows'[g].est = rows[g].est
                               /\ rows[g].status # "none"
        /\ \A g \in Files \ {f} : rows'[g] = rows[g]
    BY <2>1, DeletedOK
  <2>4. kept' \subseteq Files /\ \A g \in kept' : Live(g)'
    BY <1>1, <2>1, <2>3 DEF Live, DocumentsInv, FilesOK
  <2>5. uploads' \in [Files -> UploadState] /\ Steady
    BY <2>1 DEF Steady, DocumentsInv, SlotsOK
  <2> QED BY <2>1, <2>2, <2>3, <2>4, <2>5, RowsStay
<1> QED BY <1>4, <1>5, <1>6

\* handleSubmit and create_proposal: the proposal is inserted, then its lead's documents
\* move to the estimate it names.
LEMMA CreateStep ==
  ASSUME DocumentsInv, Submit \/ Insert \/ Anchor \/ CreateFails
  PROVE  DocumentsInv'
<1>1. UNCHANGED <<property, stored, form, known, listed, asked, uploads, attaching, kept, unasked>>
  BY DEF Submit, Insert, Anchor, CreateFails, database
<1>2. FormOK' /\ SlotsOK' /\ AttachingOK' /\ Steady
  BY <1>1 DEF DocumentsInv, FormOK, FormFollowsLead, SlotsOK, AttachingOK, Steady
<1>3. CASE Submit
  <2>1. PICK p \in Proposals \ DOMAIN saved :
          creating' = [id |-> p, lead |-> form.lead, est |-> Estimate, picks |-> form.picks,
                       step |-> "insert", here |-> TRUE]
    BY <1>3 DEF Submit
  <2>2. form.lead \in Leads /\ form.picks \subseteq Leads /\ Estimate \in {None, form.lead}
    BY <1>3, ScopeOK DEF Submit, DocumentsInv, FormOK, AnyLead
  <2>3. CreatingOK'
    BY <2>1, <2>2 DEF CreatingOK, AnyLead
  <2>4. UNCHANGED <<rows, saved>>
    BY <1>3 DEF Submit, database
  <2>5. FilesOK'
    BY <1>1, <1>2, <2>4, FilesStay DEF DocumentsInv
  <2>6. DatabaseOK'
    BY <1>1, <2>4 DEF DocumentsInv, DatabaseOK
  <2> QED BY <1>2, <2>3, <2>5, <2>6 DEF DocumentsInv
<1>4. CASE CreateFails
  <2>1. creating' = NoCreate /\ UNCHANGED <<rows, saved>>
    BY <1>4 DEF CreateFails, database
  <2> QED BY <1>1, <1>2, <2>1, DatabaseStays
<1>5. CASE Insert
  <2> DEFINE c == creating
             row == [lead |-> c.lead, est |-> c.est, picks |-> c.picks, inherits |-> {}]
  <2>1. /\ c.step = "insert" /\ creating' = [c EXCEPT !.step = "anchor"] /\ rows' = rows
        /\ saved' = [p \in DOMAIN saved \cup {c.id} |-> IF p = c.id THEN row ELSE saved[p]]
    BY <1>5 DEF Insert
  <2>2. /\ c.id \in Proposals /\ c.lead \in Leads /\ c.est \in {None, c.lead} /\ c.picks \subseteq Leads
        /\ c \in [id : Proposals \cup {None}, lead : AnyLead, est : AnyLead, picks : SUBSET Leads,
                  step : {"none", "insert", "anchor", "answer"}, here : BOOLEAN]
    BY <2>1 DEF DocumentsInv, CreatingOK
  <2>3. row \in Package /\ row.lead = c.lead /\ row.est = c.est /\ row.inherits = {}
    BY <2>2 DEF Package, AnyLead
  <2> HIDE DEF c, row
  <2>4. /\ DOMAIN saved' = DOMAIN saved \cup {c.id} /\ saved'[c.id] = row
        /\ \A p \in DOMAIN saved \ {c.id} : saved'[p] = saved[p]
    BY <2>1
  <2>5. DatabaseOK'
    BY <1>1, <2>1, <2>2, <2>3, <2>4 DEF DocumentsInv, DatabaseOK
  <2>6. creating'.step = "anchor" /\ creating'.id = c.id /\ creating'.lead = c.lead /\ creating'.est = c.est
    BY <2>1, <2>2
  <2>7. CreatingOK'
    <3>1. creating' \in [id : Proposals \cup {None}, lead : AnyLead, est : AnyLead, picks : SUBSET Leads,
                         step : {"none", "insert", "anchor", "answer"}, here : BOOLEAN]
      BY <2>1, <2>2
    <3> QED BY <2>2, <2>3, <2>4, <2>6, <3>1 DEF CreatingOK
  <2>8. FilesOK'
    <3>1. \A f \in Files : Hangs(f)'
      BY <1>1, <2>1 DEF DocumentsInv, FilesOK, Hangs
    <3>2. ASSUME NEW p \in DOMAIN saved' PROVE Inherits(p)'
      <4>1. CASE p = c.id
        BY <2>2, <2>3, <2>4, <4>1 DEF Inherits
      <4>2. CASE p # c.id
        BY <1>1, <2>1, <2>4, <4>2 DEF DocumentsInv, FilesOK, Inherits
      <4> QED BY <4>1, <4>2
    <3>3. \A f \in kept' : Live(f)'
      BY <1>1, <2>1 DEF DocumentsInv, FilesOK, Live
    <3> QED BY <3>1, <3>2, <3>3 DEF FilesOK
  <2> QED BY <1>2, <2>5, <2>7, <2>8 DEF DocumentsInv
<1>6. CASE Anchor
  <2> DEFINE e == creating.est
             l == creating.lead
             heirs == {f \in Files : Live(f) /\ uploads[f].scope.of = l}
  <2>1. /\ creating.step = "anchor" /\ creating' = [creating EXCEPT !.step = "answer"]
        /\ rows' = Reanchored(e, l) /\ saved' = [saved EXCEPT ![creating.id].inherits = heirs]
    BY <1>6 DEF Anchor
  <2>2. l \in Leads /\ e \in {None, l} /\ creating.id \in DOMAIN saved
    BY <2>1 DEF DocumentsInv, CreatingOK
  <2>3. saved[creating.id].lead = l /\ saved[creating.id].est = e
    BY <2>1 DEF DocumentsInv, CreatingOK
  <2>4. /\ rows' \in [Files -> Row]
        /\ \A f \in Files : \/ rows'[f] = rows[f] /\ ~(e # None /\ Live(f) /\ rows[f].lead = l /\ rows[f].est = None)
                            \/ /\ e # None /\ Live(f) /\ rows[f].lead = l /\ rows[f].est = None
                               /\ rows'[f].status = rows[f].status /\ rows'[f].lead = l /\ rows'[f].est = e
    <3>1. ASSUME NEW f \in Files
          PROVE  LET r == [rows[f] EXCEPT !.est = e] IN
                 r \in Row /\ r.status = rows[f].status /\ r.lead = rows[f].lead /\ r.est = e
      <4>1. rows[f] \in Row
        BY DEF DocumentsInv, DatabaseOK
      <4> QED BY <2>2, <4>1 DEF Row, AnyLead
    <3>2. \A f \in Files : rows[f] \in Row
      BY DEF DocumentsInv, DatabaseOK
    <3>3. rows' = [f \in Files |-> IF e # None /\ Live(f) /\ rows[f].lead = l /\ rows[f].est = None
                                   THEN [rows[f] EXCEPT !.est = e] ELSE rows[f]]
      BY <2>1 DEF Reanchored
    <3> HIDE DEF e, l
    <3> QED BY <3>1, <3>2, <3>3
  <2>5. /\ DOMAIN saved' = DOMAIN saved /\ saved' \in [DOMAIN saved -> Package]
        /\ saved'[creating.id].lead = l /\ saved'[creating.id].est = e
        /\ saved'[creating.id].inherits = heirs
        /\ \A p \in DOMAIN saved \ {creating.id} : saved'[p] = saved[p]
    <3>1. saved \in [DOMAIN saved -> Package] /\ heirs \subseteq Files
      BY DEF DocumentsInv, DatabaseOK
    <3> HIDE DEF heirs, e, l
    <3> QED BY <2>1, <2>2, <2>3, <3>1 DEF Package
  <2> HIDE DEF e, l
  <2>6. ASSUME NEW f \in Files PROVE Hangs(f)' /\ (rows'[f].status # "none" <=> rows[f].status # "none")
    <3>1. Hangs(f)
      BY DEF DocumentsInv, FilesOK
    <3> QED BY <1>1, <2>2, <2>4, <3>1 DEF Hangs
  <2>7. ASSUME NEW p \in DOMAIN saved PROVE Inherits(p)'
    <3>1. CASE p = creating.id
      <4>1. ASSUME NEW f \in heirs, e # None PROVE rows'[f].est = e
        <5>1. f \in Files /\ Live(f) /\ uploads[f].scope.of = l /\ Hangs(f)
          BY DEF DocumentsInv, FilesOK
        <5>2. rows[f].est = e \/ (rows[f].lead = l /\ rows[f].est = None)
          BY <2>2, <4>1, <5>1 DEF Hangs, Live
        <5> QED BY <2>4, <4>1, <5>1, <5>2
      <4> QED BY <1>1, <2>2, <2>5, <3>1, <4>1 DEF Inherits
    <3>2. CASE p # creating.id
      <4>1. Inherits(p) /\ saved'[p] = saved[p] /\ saved[p].inherits \subseteq Files
        BY <2>5, <3>2 DEF DocumentsInv, FilesOK, DatabaseOK, Package
      <4> QED BY <1>1, <2>4, <4>1 DEF Inherits
    <3> QED BY <3>1, <3>2
  <2>8. \A f \in kept' : Live(f)'
    BY <1>1, <2>4 DEF DocumentsInv, FilesOK, SlotsOK, Live
  <2>9. FilesOK'
    BY <2>5, <2>6, <2>7, <2>8 DEF FilesOK
  <2>10. DatabaseOK'
    BY <1>1, <2>4, <2>5 DEF DocumentsInv, DatabaseOK
  <2>11. CreatingOK'
    BY <2>1 DEF DocumentsInv, CreatingOK
  <2> QED BY <1>2, <2>9, <2>10, <2>11 DEF DocumentsInv
<1> QED BY <1>3, <1>4, <1>5, <1>6

LEMMA DocumentsStep == ASSUME DocumentsInv, [Next]_vars PROVE DocumentsInv'
<1>1. CASE UNCHANGED vars
  BY <1>1
  DEF vars, database, browser, DocumentsInv, DatabaseOK, FormOK, FormFollowsLead, SlotsOK, CreatingOK,
      AttachingOK, FilesOK, Hangs, Inherits, Live
<1>2. CASE Documents
  BY <1>2, PresignStep, SlotStep, FileStep DEF Documents
<1> QED BY <1>1, <1>2, OpenStep, LeadStep, AttachStep, SlotStep, CreateStep DEF Next

LEMMA DocumentsHold == ProposalSpec => []DocumentsInv
<1>1. ProposalInit => DocumentsInv
  BY DocumentsStart DEF ProposalInit
<1>2. DocumentsInv /\ [ProposalNext]_<<scene, vars, pages>> => DocumentsInv'
  <2> SUFFICES ASSUME DocumentsInv, [ProposalNext]_<<scene, vars, pages>> PROVE [Next]_vars
    BY DocumentsStep
  <2> QED BY DEF ProposalNext
<1> QED BY <1>1, <1>2, PTL DEF ProposalSpec

\* A proposal appends documents of its own lead only, and all of those that were there
\* when it was created and named an estimate, until somebody removes or replaces one:
\* for any number of leads, uploads and proposals, whatever answers late or not at all.
THEOREM DocumentsOfTheirLead == ProposalSpec => []DocumentsFollowLead
<1>1. ASSUME DocumentsInv PROVE DocumentsFollowLead
  <2>1. DocumentsTypeOK
    BY <1>1
    DEF DocumentsInv, DatabaseOK, FormOK, SlotsOK, DocumentsTypeOK, Row, UploadState, AnyLead
  <2>2. FormFollowsLead
    BY <1>1 DEF DocumentsInv, FormOK
  <2>3. ASSUME NEW p \in DOMAIN saved, NEW f \in Tail(p) PROVE uploads[f].scope.of = saved[p].lead
    <3>1. Inherits(p) /\ saved[p].lead \in Leads /\ f \in Files /\ Hangs(f)
      BY <1>1 DEF DocumentsInv, FilesOK, DatabaseOK, Package, Tail
    <3>2. rows[f].status # "none"
      BY DEF Tail, Live
    <3> QED BY <3>1, <3>2, DocumentsAssumption DEF Tail, Inherits, Hangs
  <2>4. ASSUME NEW p \in DOMAIN saved, saved[p].est # None, NEW f \in saved[p].inherits \cap kept
        PROVE  f \in Tail(p)
    <3>1. Inherits(p) /\ Live(f) /\ f \in Files
      BY <1>1 DEF DocumentsInv, FilesOK, DatabaseOK, Package
    <3> QED BY <2>4, <3>1 DEF Inherits, Tail, Live
  <2> QED BY <2>1, <2>2, <2>3, <2>4 DEF DocumentsFollowLead, DocsOfOneLead, AnsweredIsInherited
<1>2. DocumentsInv => DocumentsFollowLead
  BY <1>1
<1> QED BY <1>2, DocumentsHold, PTL


-----------------------------------------------------------------------------
(* The region switchers of the rosters (ProposalPages).                      *)

Choices == {"mine", "all"} \cup Regions
Switcher == [choice : Choices, touched : BOOLEAN, applied : Regions \cup {None}, answered : BOOLEAN]
SwitchersOK == picker \in [Pages!Rosters -> Switcher]

\* A choice that is still the user's is the one that was there, but for a choice made now.
Chosen(r) ==
  picker[r].touched /\ picker'[r].touched =>
    picker'[r].choice = picker[r].choice
      \/ \E c \in {"mine", "all"} \cup Regions : Pages!SelectRegion(r, c)

\* An answer of the server moves only a switcher that nobody touched.
LEMMA FollowsUntouched ==
  ASSUME NEW p \in Switcher, NEW u, NEW known1 \in BOOLEAN
  PROVE  /\ Pages!Follows(p, u, known1) \in Switcher
         /\ Pages!Follows(p, u, known1).touched = p.touched
         /\ p.touched => Pages!Follows(p, u, known1) = p
<1>1. CASE p.touched BY <1>1 DEF Pages!Follows
<1>2. CASE ~p.touched
  <2> DEFINE echo == Pages!EchoOf(u, p.choice)
  <2>1. echo \in Regions \cup {None} BY DEF Pages!EchoOf
  <2>2. Pages!Follows(p, u, known1) =
          IF p.answered /\ known1 /\ echo \notin {None, p.applied}
          THEN [p EXCEPT !.choice = echo, !.applied = echo, !.answered = p.choice = echo]
          ELSE p
    BY <1>2 DEF Pages!Follows, Pages!FollowsAlways
  <2> HIDE DEF echo
  <2>3. (p.choice = echo) \in BOOLEAN OBVIOUS
  <2> QED BY <1>2, <2>1, <2>2, <2>3 DEF Switcher, Choices
<1> QED BY <1>1, <1>2

LEMMA CoverageStep ==
  ASSUME SwitchersOK, Pages!CoverageLoads
  PROVE  SwitchersOK' /\ \A r \in Pages!Rosters : Chosen(r)
<1>1. picker' = [r \in Pages!Rosters |-> Pages!Follows(picker[r], creator, TRUE)]
  BY DEF Pages!CoverageLoads
<1>2. ASSUME NEW r \in Pages!Rosters
      PROVE  picker'[r] \in Switcher /\ Chosen(r)
  <2>1. picker[r] \in Switcher /\ picker'[r] = Pages!Follows(picker[r], creator, TRUE)
    BY <1>1 DEF SwitchersOK
  <2> QED BY <2>1, FollowsUntouched DEF Chosen
<1> QED BY <1>1, <1>2 DEF SwitchersOK

LEMMA AnswersStep ==
  ASSUME SwitchersOK, NEW s \in Pages!Rosters, Pages!RosterAnswers(s), coverage \in BOOLEAN
  PROVE  SwitchersOK' /\ \A r \in Pages!Rosters : Chosen(r)
<1> DEFINE heard == [picker[s] EXCEPT !.answered = TRUE]
<1>1. picker' = [picker EXCEPT ![s] = Pages!Follows(heard, creator, coverage)]
  BY DEF Pages!RosterAnswers
<1>2. picker[s] \in Switcher /\ heard \in Switcher
      /\ heard.choice = picker[s].choice /\ heard.touched = picker[s].touched
  BY DEF SwitchersOK, Switcher
<1> HIDE DEF heard
<1>3. /\ Pages!Follows(heard, creator, coverage) \in Switcher
      /\ Pages!Follows(heard, creator, coverage).touched = heard.touched
      /\ heard.touched => Pages!Follows(heard, creator, coverage) = heard
  BY <1>2, FollowsUntouched
<1>4. ASSUME NEW r \in Pages!Rosters PROVE Chosen(r)
  <2>1. CASE r = s BY <1>1, <1>2, <1>3, <2>1 DEF Chosen, SwitchersOK
  <2>2. CASE r # s BY <1>1, <2>2 DEF Chosen, SwitchersOK
  <2> QED BY <2>1, <2>2
<1> QED BY <1>1, <1>3, <1>4 DEF SwitchersOK

LEMMA ChoiceStep ==
  ASSUME SwitchersOK, NEW s \in Pages!Rosters, NEW c \in Choices, Pages!SelectRegion(s, c)
  PROVE  SwitchersOK' /\ \A r \in Pages!Rosters : Chosen(r)
<1>1. picker' = [picker EXCEPT ![s].choice = c, ![s].touched = TRUE, ![s].answered = FALSE]
  BY DEF Pages!SelectRegion
<1>2. SwitchersOK' BY <1>1 DEF SwitchersOK, Switcher
<1>3. ASSUME NEW r \in Pages!Rosters PROVE Chosen(r)
  <2>1. CASE r = s BY <2>1 DEF Chosen, Choices
  <2>2. CASE r # s BY <1>1, <2>2 DEF Chosen, SwitchersOK
  <2> QED BY <2>1, <2>2
<1> QED BY <1>2, <1>3

\* A new form starts with switchers nobody touched.
LEMMA GenerateStep ==
  ASSUME SwitchersOK, Pages!Generate
  PROVE  SwitchersOK' /\ \A r \in Pages!Rosters : Chosen(r)
BY DEF Pages!Generate, SwitchersOK, Switcher, Choices, Chosen

\* Every other step leaves the switchers alone.
LEMMA SwitchersStep ==
  ASSUME SwitchersOK, coverage \in BOOLEAN, [ProposalNext]_<<scene, vars, pages>>
  PROVE  SwitchersOK' /\ coverage' \in BOOLEAN /\ \A r \in Pages!Rosters : Chosen(r)
<1>1. ASSUME UNCHANGED <<picker, coverage>>
      PROVE  SwitchersOK' /\ coverage' \in BOOLEAN /\ \A r \in Pages!Rosters : Chosen(r)
  BY <1>1 DEF SwitchersOK, Chosen
<1>2. CASE Pages!Form
  <2>1. CASE Pages!CoverageLoads BY <2>1, CoverageStep DEF Pages!CoverageLoads
  <2>2. CASE Pages!Generate BY <2>2, GenerateStep DEF Pages!Generate
  <2>3. ASSUME NEW s \in Pages!Rosters, Pages!RosterAnswers(s)
        PROVE  SwitchersOK' /\ coverage' \in BOOLEAN /\ \A r \in Pages!Rosters : Chosen(r)
    <3>1. coverage' = coverage BY <2>3 DEF Pages!RosterAnswers, Pages!server
    <3> QED BY <2>3, <3>1, AnswersStep
  <2>4. ASSUME NEW s \in Pages!Rosters, NEW c \in Choices, Pages!SelectRegion(s, c)
        PROVE  SwitchersOK' /\ coverage' \in BOOLEAN /\ \A r \in Pages!Rosters : Chosen(r)
    <3>1. coverage' = coverage BY <2>4 DEF Pages!SelectRegion
    <3> QED BY <2>4, <3>1, ChoiceStep
  <2>5. ASSUME NEW f, Pages!Patch(f) PROVE UNCHANGED <<picker, coverage>>
    BY <2>5 DEF Pages!Patch
  <2>6. CASE \/ Pages!ToggleOrgChart
             \/ \E s \in Pages!Optional : Pages!ToggleSection(s)
             \/ \E m \in Members : \/ Pages!ToggleAccountManager(m)
                                   \/ Pages!PickMember(m) \/ Pages!PickExecutive(m)
             \/ \E a, b \in BOOLEAN : Pages!PatchOrgChart(a, b)
             \/ \E c \in {"mow", "irrigation"} : Pages!PatchCrewCounts(c)
             \/ \E p \in Properties : Pages!PickProperty(p)
    <3>1. \E f : Pages!Patch(f)
      BY <2>6 DEF Pages!ToggleOrgChart, Pages!ToggleSection, Pages!ToggleAccountManager,
                  Pages!PickMember, Pages!PickExecutive, Pages!PatchOrgChart,
                  Pages!PatchCrewCounts, Pages!PickProperty
    <3> QED BY <3>1, <2>5, <1>1
  <2> QED BY <1>2, <2>1, <2>2, <2>3, <2>4, <2>6 DEF Pages!Form, Choices
<1>3. CASE Pages!Preview
  <2>1. UNCHANGED Pages!builder
    BY <1>3 DEF Pages!Preview, Pages!OpenPanel, Pages!Drag, Pages!SaveOrder, Pages!ClosePanel,
                Pages!EstimateMoves, Pages!RemoveMember
  <2> QED BY <2>1, <1>1 DEF Pages!builder
<1>4. CASE UNCHANGED pages BY <1>4, <1>1 DEF pages
<1> QED BY <1>2, <1>3, <1>4 DEF ProposalNext, Pages!Next

\* MCProposal's ChoiceStays: whichever answers arrive after the user chose a region, and
\* in whatever order, the switcher keeps the user's choice.
THEOREM RegionStays == ProposalSpec => ChoiceStays
<1> DEFINE Safe == SwitchersOK /\ coverage \in BOOLEAN
           Stays == \A r \in Pages!Rosters : Chosen(r)
<1>1. ProposalInit => Safe
  <2> SUFFICES ASSUME Pages!Init PROVE Safe
    BY DEF ProposalInit
  <2>1. /\ picker = [r \in Pages!Rosters |->
                      [choice |-> "mine", touched |-> FALSE, applied |-> None, answered |-> FALSE]]
        /\ coverage = FALSE
    BY DEF Pages!Init
  <2>2. [choice |-> "mine", touched |-> FALSE, applied |-> None, answered |-> FALSE] \in Switcher
    BY DEF Switcher, Choices
  <2> QED BY <2>1, <2>2 DEF SwitchersOK
<1>2. Safe /\ [ProposalNext]_<<scene, vars, pages>> => Safe' /\ Stays BY SwitchersStep
<1>3. Stays => [\A r \in Pages!Rosters :
                  picker[r].touched /\ picker'[r].touched =>
                    picker'[r].choice = picker[r].choice
                      \/ \E c \in {"mine", "all"} \cup Regions : Pages!SelectRegion(r, c)]_(Pages!vars)
  BY DEF Chosen
<1> QED BY <1>1, <1>2, <1>3, PTL DEF ProposalSpec, ChoiceStays, Pages!ChoiceStays, Safe, Stays

-----------------------------------------------------------------------------
(* The picks of a proposal.                                                  *)

Filled == [sections : SUBSET Pages!Optional, org : BOOLEAN, managers : SUBSET (Members \cup Pages!Users),
           production : BOOLEAN, irrigation : BOOLEAN, crews : SUBSET {"mow", "irrigation"},
           team : SUBSET Members, executives : SUBSET Members, portfolio : SUBSET Properties]

Fields == {"sections", "org", "managers", "production", "irrigation", "crews", "team",
           "executives", "portfolio"}

\* What the builder lets into a form f: nobody whom its user cannot read, no executive who
\* is none, and the user stays among the account managers.
PicksOf(f) ==
  /\ creator \in f.managers
  /\ f.team \cap active \subseteq Pages!Readable(creator)
  /\ f.executives \cap active \subseteq Pages!Readable(creator) \cap Executive

\* A form, or the proposal it became: the same fields, and an order.
Composed(f) == \E g \in Filled : PicksOf(g) /\ \A k \in Fields : f[k] = g[k]

PicksInv ==
  /\ active \subseteq Members /\ creator \in Pages!Users
  /\ draft \in Filled /\ PicksOf(draft)
  /\ proposal # None => Composed(proposal) /\ DOMAIN proposal = Fields \cup {"order"}
  /\ panel # None => proposal # None

\* A picker lists people its user reads, and the executives' picker executives.
LEMMA ListedIsReadable ==
  /\ Pages!Listed("team") \subseteq Pages!Readable(creator)
  /\ Pages!Listed("executive") \subseteq Pages!Readable(creator) \cap Executive
<1>1. \A r : Pages!Listed(r) \subseteq Pages!Readable(creator) \cap Pages!OfRoster(r)
  BY DEF Pages!Listed, Pages!Roster
<1>2. Pages!OfRoster("executive") = Executive BY DEF Pages!OfRoster
<1> QED BY <1>1, <1>2

\* A patch of the form by one person, or by no one.
LEMMA PatchStep ==
  ASSUME PicksInv, NEW f \in Filled, PicksOf(f), Pages!Patch(f)
  PROVE  PicksInv'
<1>1. draft' = f /\ UNCHANGED <<active, proposal, creator, panel>>
  BY DEF Pages!Patch, Pages!server
<1>2. Pages!Readable(creator)' = Pages!Readable(creator)
  BY <1>1 DEF Pages!Readable
<1>3. \A g : PicksOf(g)' <=> PicksOf(g)
  BY <1>1, <1>2 DEF PicksOf
<1>4. PicksOf(draft)' BY <1>1, <1>3, <1>2 DEF PicksOf
<1>5. Composed(proposal)' <=> Composed(proposal)
  BY <1>1, <1>3 DEF Composed
<1> QED BY <1>1, <1>4, <1>5 DEF PicksInv

\* Whatever is edited, the form stays one the builder allows.
LEMMA EditsStep ==
  ASSUME PicksInv,
         \/ Pages!ToggleOrgChart
         \/ \E s \in Pages!Optional : Pages!ToggleSection(s)
         \/ \E m \in Members : \/ Pages!ToggleAccountManager(m)
                               \/ Pages!PickMember(m) \/ Pages!PickExecutive(m)
         \/ \E a, b \in BOOLEAN : Pages!PatchOrgChart(a, b)
         \/ \E c \in {"mow", "irrigation"} : Pages!PatchCrewCounts(c)
         \/ \E p \in Properties : Pages!PickProperty(p)
  PROVE  PicksInv'
<1> USE DEF PicksInv
<1>a. Pages!Users \cap Members = {} BY RosterAssumption DEF Pages!PagesAssumption
<1>1. CASE Pages!ToggleOrgChart
  <2>1. [draft EXCEPT !.org = ~@] \in Filled /\ PicksOf([draft EXCEPT !.org = ~@])
    BY DEF Filled, PicksOf
  <2> QED BY <1>1, <2>1, PatchStep DEF Pages!ToggleOrgChart
<1>2. ASSUME NEW s \in Pages!Optional, Pages!ToggleSection(s) PROVE PicksInv'
  <2> DEFINE f == [draft EXCEPT !.sections = Pages!Flip(@, s)]
  <2>1. f \in Filled /\ PicksOf(f) BY DEF Filled, PicksOf, Pages!Flip
  <2>2. Pages!Patch(f) BY <1>2 DEF Pages!ToggleSection
  <2> QED BY <2>1, <2>2, PatchStep
<1>3. ASSUME NEW m \in Members, Pages!ToggleAccountManager(m) PROVE PicksInv'
  <2> DEFINE f == [draft EXCEPT !.managers = Pages!Flip(@, m)]
  <2>1. f \in Filled /\ PicksOf(f) BY <1>a DEF Filled, PicksOf, Pages!Flip
  <2>2. Pages!Patch(f) BY <1>3 DEF Pages!ToggleAccountManager
  <2> QED BY <2>1, <2>2, PatchStep
<1>4. ASSUME NEW m \in Members, Pages!PickMember(m) PROVE PicksInv'
  <2> DEFINE f == [draft EXCEPT !.team = Pages!Flip(@, m)]
  <2>1. m \in Pages!Readable(creator) BY <1>4, ListedIsReadable DEF Pages!PickMember
  <2>2. f \in Filled /\ PicksOf(f) BY <2>1 DEF Filled, PicksOf, Pages!Flip
  <2>3. Pages!Patch(f) BY <1>4 DEF Pages!PickMember
  <2> QED BY <2>2, <2>3, PatchStep
<1>5. ASSUME NEW m \in Members, Pages!PickExecutive(m) PROVE PicksInv'
  <2> DEFINE f == [draft EXCEPT !.executives = Pages!Flip(@, m)]
  <2>1. m \in Pages!Readable(creator) \cap Executive
    BY <1>5, ListedIsReadable DEF Pages!PickExecutive
  <2>2. f \in Filled /\ PicksOf(f) BY <2>1 DEF Filled, PicksOf, Pages!Flip
  <2>3. Pages!Patch(f) BY <1>5 DEF Pages!PickExecutive
  <2> QED BY <2>2, <2>3, PatchStep
<1>6. ASSUME NEW a \in BOOLEAN, NEW b \in BOOLEAN, Pages!PatchOrgChart(a, b) PROVE PicksInv'
  <2> DEFINE f == [draft EXCEPT !.production = a, !.irrigation = b]
  <2>1. f \in Filled /\ PicksOf(f) BY DEF Filled, PicksOf
  <2>2. Pages!Patch(f) BY <1>6 DEF Pages!PatchOrgChart
  <2> QED BY <2>1, <2>2, PatchStep
<1>7. ASSUME NEW c \in {"mow", "irrigation"}, Pages!PatchCrewCounts(c) PROVE PicksInv'
  <2> DEFINE f == [draft EXCEPT !.crews = Pages!Flip(@, c)]
  <2>1. f \in Filled /\ PicksOf(f) BY DEF Filled, PicksOf, Pages!Flip
  <2>2. Pages!Patch(f) BY <1>7 DEF Pages!PatchCrewCounts
  <2> QED BY <2>1, <2>2, PatchStep
<1>8. ASSUME NEW p \in Properties, Pages!PickProperty(p) PROVE PicksInv'
  <2> DEFINE f == [draft EXCEPT !.portfolio = Pages!Flip(@, p)]
  <2>1. f \in Filled /\ PicksOf(f) BY DEF Filled, PicksOf, Pages!Flip
  <2>2. Pages!Patch(f) BY <1>8 DEF Pages!PickProperty
  <2> QED BY <2>1, <2>2, PatchStep
<1> QED BY <1>1, <1>2, <1>3, <1>4, <1>5, <1>6, <1>7, <1>8

\* A new form holds its user, and no picks.
LEMMA NewFormIsFilled ==
  ASSUME creator \in Pages!Users
  PROVE  Pages!DefaultForm(creator) \in Filled /\ PicksOf(Pages!DefaultForm(creator))
BY DEF Pages!DefaultForm, Filled, PicksOf

LEMMA SubmitStep ==
  ASSUME PicksInv, Pages!Generate
  PROVE  PicksInv'
<1> USE DEF PicksInv
<1>1. /\ proposal' = [f \in DOMAIN draft \cup {"order"} |-> IF f = "order" THEN None ELSE draft[f]]
      /\ draft' = Pages!DefaultForm(creator) /\ proposal = None
      /\ UNCHANGED <<active, creator, panel>>
  BY DEF Pages!Generate
<1>2. DOMAIN draft = Fields BY DEF Filled, Fields
<1>3. \A g : PicksOf(g)' <=> PicksOf(g)
  BY <1>1 DEF PicksOf, Pages!Readable
<1>4. \A k \in Fields : proposal'[k] = draft[k]
  BY <1>1, <1>2 DEF Fields
<1>5. Composed(proposal)'
  BY <1>3, <1>4 DEF Composed
<1>6. DOMAIN proposal' = Fields \cup {"order"} BY <1>1, <1>2
<1>7. draft' \in Filled /\ PicksOf(draft)'
  BY <1>1, NewFormIsFilled DEF PicksOf, Pages!Readable
<1> QED BY <1>1, <1>5, <1>6, <1>7

\* In the preview the roster shrinks and the order changes; the picks stay.
LEMMA PreviewStep ==
  ASSUME PicksInv, Pages!Preview
  PROVE  PicksInv'
<1> USE DEF PicksInv
<1>1. /\ active' \subseteq active
      /\ UNCHANGED <<creator, draft>>
  BY DEF Pages!Preview, Pages!OpenPanel, Pages!Drag, Pages!SaveOrder, Pages!ClosePanel,
         Pages!EstimateMoves, Pages!RemoveMember, Pages!server, Pages!builder
<1>2. Pages!Readable(creator)' = Pages!Readable(creator) \cap active'
  BY <1>1 DEF Pages!Readable
<1>3. \A g : PicksOf(g) => PicksOf(g)'
  BY <1>1, <1>2 DEF PicksOf
<1>4. PicksOf(draft)' BY <1>1, <1>2 DEF PicksOf
<1>5. \/ UNCHANGED proposal
      \/ panel # None /\ proposal' = [proposal EXCEPT !.order = panel] /\ panel' = None
  BY DEF Pages!Preview, Pages!OpenPanel, Pages!Drag, Pages!SaveOrder, Pages!ClosePanel,
         Pages!EstimateMoves, Pages!RemoveMember, Pages!server
<1>6. panel' # None => proposal' # None
  BY <1>5 DEF Pages!Preview, Pages!OpenPanel, Pages!Drag, Pages!SaveOrder, Pages!ClosePanel,
              Pages!EstimateMoves, Pages!RemoveMember, Pages!server
<1>7. proposal' # None => /\ proposal # None /\ DOMAIN proposal' = Fields \cup {"order"}
                          /\ \A k \in Fields : proposal'[k] = proposal[k]
  BY <1>5 DEF Fields
<1>8. proposal' # None => Composed(proposal)'
  BY <1>3, <1>7 DEF Composed
<1> QED BY <1>1, <1>4, <1>6, <1>7, <1>8

LEMMA PicksStep ==
  ASSUME PicksInv, [ProposalNext]_<<scene, vars, pages>>
  PROVE  PicksInv'
<1>1. ASSUME UNCHANGED <<active, creator, draft, proposal, panel>> PROVE PicksInv'
  <2>1. Pages!Readable(creator)' = Pages!Readable(creator) BY <1>1 DEF Pages!Readable
  <2>2. \A g : PicksOf(g)' <=> PicksOf(g) BY <1>1, <2>1 DEF PicksOf
  <2>3. PicksOf(draft)' <=> PicksOf(draft) BY <1>1, <2>1 DEF PicksOf
  <2>4. Composed(proposal)' <=> Composed(proposal) BY <1>1, <2>2 DEF Composed
  <2> QED BY <1>1, <2>3, <2>4 DEF PicksInv
<1>2. CASE Pages!Form
  <2>1. CASE \/ Pages!CoverageLoads
             \/ \E r \in Pages!Rosters : \/ Pages!RosterAnswers(r)
                                         \/ \E c \in Choices : Pages!SelectRegion(r, c)
    BY <2>1, <1>1 DEF Pages!CoverageLoads, Pages!RosterAnswers, Pages!SelectRegion, Pages!server
  <2>2. CASE Pages!Generate BY <2>2, SubmitStep
  <2>3. CASE \/ Pages!ToggleOrgChart
             \/ \E s \in Pages!Optional : Pages!ToggleSection(s)
             \/ \E m \in Members : \/ Pages!ToggleAccountManager(m)
                                   \/ Pages!PickMember(m) \/ Pages!PickExecutive(m)
             \/ \E a, b \in BOOLEAN : Pages!PatchOrgChart(a, b)
             \/ \E c \in {"mow", "irrigation"} : Pages!PatchCrewCounts(c)
             \/ \E p \in Properties : Pages!PickProperty(p)
    BY <2>3, EditsStep
  <2> QED BY <1>2, <2>1, <2>2, <2>3 DEF Pages!Form, Choices
<1>3. CASE Pages!Preview BY <1>3, PreviewStep
<1>4. CASE UNCHANGED pages BY <1>4, <1>1 DEF pages
<1> QED BY <1>2, <1>3, <1>4 DEF ProposalNext, Pages!Next

\* PagesAreWhole's PicksShipped: whoever is removed from the roster and whatever is
\* rearranged after the proposal was submitted, the rep and the office see everybody who
\* was picked and is still there, and the org chart has no row without its head.
THEOREM PicksHold == ProposalSpec => []Pages!PicksShipped
<1>1. ProposalInit => PicksInv
  <2> SUFFICES ASSUME Pages!Init PROVE PicksInv
    BY DEF ProposalInit
  <2>1. /\ active = Members /\ proposal = None /\ creator \in Pages!Users
        /\ draft = Pages!DefaultForm(creator) /\ panel = None
    BY RosterAssumption DEF Pages!Init, Pages!PagesAssumption
  <2> QED BY <2>1, NewFormIsFilled DEF PicksInv
<1>2. PicksInv /\ [ProposalNext]_<<scene, vars, pages>> => PicksInv' BY PicksStep
<1>3. PicksInv => Pages!PicksShipped
  <2> SUFFICES ASSUME PicksInv, proposal # None PROVE Pages!PicksShipped
    BY DEF Pages!PicksShipped
  <2>1. /\ creator \in proposal.managers
        /\ proposal.team \cap active \subseteq Pages!Readable(creator)
        /\ proposal.executives \cap active \subseteq Pages!Readable(creator) \cap Executive
    BY DEF PicksInv, Composed, PicksOf, Fields
  <2>2. \A u \in Office : Pages!Readable(u) = active
    BY RosterAssumption DEF Pages!Readable, Pages!PagesAssumption
  <2>3. \A u \in Office \cup {creator} :
          /\ proposal.team \cap active \subseteq Pages!People(u, proposal.team)
          /\ proposal.executives \cap active \subseteq Pages!Executives(u)
    BY <2>1, <2>2 DEF Pages!People, Pages!Executives
  <2>4. Pages!Peers BY <2>1 DEF Pages!Peers
  <2>5. proposal.production => Pages!ProductionDrawn
    BY <2>1 DEF Pages!ProductionDrawn
  <2>6. "mow" \in proposal.crews => "mow" \in Pages!CrewsDrawn
    BY <2>1, <2>4 DEF Pages!CrewsDrawn
  <2> QED BY <2>3, <2>5, <2>6 DEF Pages!PicksShipped
<1> QED BY <1>1, <1>2, <1>3, PTL DEF ProposalSpec

=============================================================================
