------------------------------- MODULE BidMoney -------------------------------
(***************************************************************************)
(* What the lines of an estimate are worth, in each place that says so:    *)
(* the rows of the editors, which keep what they computed for an object    *)
(* that has not been replaced, the margin panel, the contract and its      *)
(* payments, and the landscape and irrigation dollars of the ITB tracker,  *)
(* which the server derives anew from its own rows after every request.    *)
(*                                                                         *)
(* Money is whole cents.  Quantities, hours and thousands of square feet   *)
(* are counted in halves, a complexity of 1 is 50%.  A line is a slot.     *)
(***************************************************************************)
EXTENDS Integers, FiniteSetsExt, SequencesExt

CONSTANTS
  Slots,         \* the lines an estimate may have
  SquareFeet,    \* of each section, in halves of 1000
  Kits,          \* install kits: [irrigation, quotes, sell, hours]
  Defaults,      \* the default items a catalog service may bring
  Sells, Costs, Quantities,   \* what is typed
  CrewRate,      \* cents per half hour of the loaded crew
  Others,        \* the other projects of the tracker
  None,
  Overlap,       \* whether a request is sent before the last one is answered
  MaxEdits       \* bound: edits of the draft

BidAssumption ==
  /\ SquareFeet \in Seq(Nat) /\ Sells \subseteq Nat /\ Costs \subseteq Nat \cup {None}
  /\ Quantities \subseteq Nat /\ CrewRate \in Nat /\ Overlap \in BOOLEAN /\ MaxEdits \in Nat

VARIABLES
  type,      \* install or maintenance
  lines,     \* the draft in the editor: a line or None of every slot
  memo,      \* what the editor has computed, by object
  stored,    \* section_services
  recompute, \* of every slot: the request that changed it is at none, read, write
  project,   \* itb_projects: [total, ls, ir]
  edits

bid == <<type, lines, memo, stored, recompute, project, edits>>

Kinds == {"labor", "material", "subcontractor"}
Groups == {"mow", "edge"}
Live(t) == {i \in Slots : t[i] # None}

-----------------------------------------------------------------------------
(* Cents                                                                     *)

Math_round(n, d) == (2 * n + d) \div (2 * d)

\* Python's round: halves go to the even neighbour.
round(n, d) == LET q == n \div d  r == 2 * (n % d) IN IF r > d \/ (r = d /\ q % 2 = 1) THEN q + 1 ELSE q

Amount(cents) == IF cents = None THEN 0 ELSE cents
Total(f, S) == MapThenSumSet(LAMBDA i : f[i], S)
Items(l) == DOMAIN l.components

installLineTotal(qty, sell) == Math_round(qty * sell, 2)
maintServiceLine(sqft, rate, qty, complexity) == Math_round(sqft * rate * qty * (2 + complexity), 8)
componentCost(c) == Math_round(c.qty * c.cost, 2)
componentUnitCostOrNull(c) == IF c.cost = None THEN None ELSE componentCost(c)

\* The price of a line, by the one engine of the estimate's type.
LinePrice(l) ==
  IF type = "install" THEN installLineTotal(l.qty, Amount(l.sell))
  ELSE maintServiceLine(SquareFeet[l.section], Amount(l.sell), l.qty, l.complexity)

sectionTotal(t, s) == Total([i \in Live(t) |-> LinePrice(t[i])], {i \in Live(t) : t[i].section = s})
contractTotal(t) == Total([s \in DOMAIN SquareFeet |-> sectionTotal(t, s)], DOMAIN SquareFeet)

-----------------------------------------------------------------------------
(* The install editor: items, lines, sections, estimate                      *)

\* The live sum of the items wins over the cost embedded in the kit.
unitCostBasisCents(l) ==
  IF l.components = <<>> THEN Amount(l.embedded)
  ELSE Total([k \in Items(l) |-> Amount(componentUnitCostOrNull(l.components[k]))], Items(l))

serviceSubCostCents(l) == Math_round(l.qty * unitCostBasisCents(l), 2)

\* An unknown cost is not zero; a catalog service without items costs nothing yet.
serviceCostOrNull(l) ==
  CASE \E k \in Items(l) : l.components[k].cost = None -> None
    [] l.components = <<>> /\ l.embedded = None /\ ~l.service -> None
    [] OTHER -> serviceSubCostCents(l)

\* A margin is a fraction.
rollupGm(price, cost) == IF cost = None \/ price = 0 THEN None ELSE <<price - cost, price>>
Rollup(price, cost) == [price |-> price, cost |-> cost, gm |-> rollupGm(price, cost)]
serviceRollup(l) == Rollup(LinePrice(l), serviceCostOrNull(l))

componentExtendedCostCents(l, k) == Math_round(l.qty * componentCost(l.components[k]), 2)

\* A mutant of componentRollups: every share rounded by itself.
RoundedShares(l) ==
  LET price == LinePrice(l)
      cost == [k \in Items(l) |-> componentExtendedCostCents(l, k)]
      total == Total(cost, Items(l))
  IN [k \in Items(l) |-> IF total = 0 THEN None ELSE Math_round(price * cost[k], total)]

\* An item's price is its share of the line's by cost, the cents left over going
\* to the largest fractions.
componentRollups(l) ==
  IF \E k \in Items(l) : l.components[k].cost = None THEN [k \in Items(l) |-> None]
  ELSE LET price == LinePrice(l)
           cost == [k \in Items(l) |-> componentExtendedCostCents(l, k)]
           total == Total(cost, Items(l))
           floor == [k \in Items(l) |-> (price * cost[k]) \div total]
           fraction == [k \in Items(l) |-> (price * cost[k]) % total]
           ahead(k) == {j \in Items(l) : \/ fraction[j] > fraction[k]
                                         \/ fraction[j] = fraction[k] /\ j < k}
       IN [k \in Items(l) |->
             IF total = 0 THEN None
             ELSE floor[k] + (IF Cardinality(ahead(k)) < price - Total(floor, Items(l)) THEN 1 ELSE 0)]

sumRollups(children, price) ==
  Rollup(price, IF \E r \in DOMAIN children : children[r].cost = None THEN None
                ELSE Total([r \in DOMAIN children |-> children[r].cost], DOMAIN children))
sectionRollup(s) ==
  sumRollups([i \in {j \in Live(lines) : lines[j].section = s} |-> memo[lines[i].object]], sectionTotal(lines, s))
estimateRollup ==
  LET sections == [s \in DOMAIN SquareFeet |-> sectionRollup(s)]
  IN  sumRollups(sections, Total([s \in DOMAIN sections |-> sections[s].price], DOMAIN sections))

-----------------------------------------------------------------------------
(* The margin panel: by service, across the sections                         *)

\* maintenanceLineCost; a line whose hours are unknown costs nothing here.
maintenanceLineCost(l) == Math_round(Amount(l.hours) * l.qty * (2 + l.complexity) * CrewRate, 4)

installLineCost(l) == serviceSubCostCents(l)

\* The cost by bucket: each bucket rounded on its own, what is left never negative.
installLineCostSplit(l) ==
  LET kind == [b \in Kinds |-> Math_round(l.qty *
                 Total([k \in Items(l) |-> Amount(componentUnitCostOrNull(l.components[k]))],
                       {k \in Items(l) : l.components[k].kind = b}), 2)]
      left == installLineCost(l) - Total(kind, Kinds)
  IN  [kind |-> kind, unattributed |-> IF left < 0 THEN 0 ELSE left]

serviceGroupMargins(g) ==
  LET own == {i \in Live(lines) : lines[i].label = g}
      split == [i \in own |-> IF type = "install" THEN installLineCostSplit(lines[i])
                              ELSE [kind |-> [b \in Kinds |-> 0], unattributed |-> 0]]
  IN [price |-> Total([i \in own |-> LinePrice(lines[i])], own),
      cost |-> Total([i \in own |-> IF type = "install" THEN installLineCost(lines[i])
                                    ELSE maintenanceLineCost(lines[i])], own),
      buckets |-> [b \in Kinds |-> Total([i \in own |-> split[i].kind[b]], own)],
      unattributed |-> Total([i \in own |-> split[i].unattributed], own)]

\* Total cost and overall margin of the panel.
MarginAnalysis ==
  LET cost == Total([g \in Groups |-> serviceGroupMargins(g).cost], Groups)
  IN  [cost |-> cost, gm |-> rollupGm(contractTotal(lines), cost)]

-----------------------------------------------------------------------------
(* The contract, and the maintenance editor's sums                           *)

\* Whatever is not marked one-time is recurring.
recurring == {i \in Live(lines) : ~lines[i].once}

buildContractTotals(S) ==
  Total([i \in S |-> IF lines[i].sell = None THEN 0 ELSE LinePrice(lines[i])], S)

\* Twelve payments, the cents left over on the first ones.
buildPaymentSchedule(annual) ==
  LET per == annual \div 12 IN [m \in 0..11 |-> per + (IF m < annual - per * 12 THEN 1 ELSE 0)]

categoryRollup(s) ==
  LET own == {i \in Live(lines) : lines[i].section = s}
  IN  [cents |-> Total([i \in own |-> LinePrice(lines[i])], own),
       hours |-> IF \E i \in own : lines[i].hours = None THEN None
                 ELSE Total([i \in own |-> lines[i].hours * lines[i].qty * (2 + lines[i].complexity)], own)]

-----------------------------------------------------------------------------
(* Editing                                                                   *)

Init ==
  /\ type \in {"install", "maintenance"}
  /\ lines = [i \in Slots |-> None] /\ memo = [o \in {} |-> None]
  /\ stored = lines /\ recompute = [i \in Slots |-> [step |-> "none"]]
  /\ project = [total |-> 4, ls |-> 4, ir |-> 0] /\ edits = 0

\* Every edit replaces the line it touches, and no other; then the rows are drawn.
\* (Edits wait for the requests, which share nothing with them.)
Draw(t) ==
  memo' = [o \in {t[i].object : i \in Live(t)} |->
             IF o \in DOMAIN memo THEN memo[o]
             ELSE serviceRollup(t[CHOOSE i \in Live(t) : t[i].object = o])]
Draft(t) ==
  /\ \A i \in Slots : recompute[i].step = "none"
  /\ edits < MaxEdits /\ edits' = edits + 1 /\ lines' = t /\ Draw(t)
  /\ UNCHANGED <<type, stored, recompute, project>>

\* An object that is none of the live ones.
Fresh == Min((1..(Cardinality(Slots) + 1)) \ {lines[i].object : i \in Live(lines)})

\* A mutant of Patch: the object stays the one it was.
PatchInPlace(i, l) == Draft([lines EXCEPT ![i] = l])
Patch(i, l) == Draft([lines EXCEPT ![i] = [l EXCEPT !.object = Fresh]])

NewLine(s) ==
  [object |-> Fresh, section |-> s, label |-> "mow", service |-> FALSE, irrigation |-> FALSE, discipline |-> None,
   qty |-> 2, sell |-> None, embedded |-> None, complexity |-> 0, hours |-> None, once |-> FALSE, components |-> <<>>]
Insert(i, l) == lines[i] = None /\ (\A j \in Slots : j < i => lines[j] # None) /\ Draft([lines EXCEPT ![i] = l])

averagedVendorCostCents(quotes) ==
  IF quotes = <<>> THEN 0 ELSE Math_round(FoldLeft(LAMBDA a, b : a + b, 0, quotes), Len(quotes))

\* kitToService: a kit of the catalog, with the average of its quotes as its cost.
AddKit(i, s) ==
  \E k \in Kits : Insert(i, [NewLine(s) EXCEPT !.irrigation = k.irrigation, !.sell = k.sell,
                                               !.hours = k.hours, !.embedded = averagedVendorCostCents(k.quotes)])

\* catalogServiceToLine: a service with its default items, without a price.
AddService(i, s) ==
  type = "install" /\ \E d \in Defaults : Insert(i, [NewLine(s) EXCEPT !.service = TRUE, !.label = "edge", !.components = d])

RemoveLine(i) == lines[i] # None /\ Draft([lines EXCEPT ![i] = None])

EditLine(i) ==
  LET l == lines[i] IN
  /\ l # None
  /\ \/ \E q \in Quantities \ {l.qty} : Patch(i, [l EXCEPT !.qty = q])
     \/ \E p \in Sells \ {l.sell} : Patch(i, [l EXCEPT !.sell = p])
     \/ type = "maintenance" /\ Patch(i, [l EXCEPT !.complexity = 1 - @])
     \/ type = "maintenance" /\ Patch(i, [l EXCEPT !.once = ~@])

\* DisciplineSelect: Auto, LS or IR.
EditDiscipline(i) ==
  /\ lines[i] # None
  /\ \E d \in {None, "landscape", "irrigation"} \ {lines[i].discipline} : Patch(i, [lines[i] EXCEPT !.discipline = d])

buildComponent(kind) == [kind |-> kind, qty |-> 2, cost |-> 0]
AddComponent(i) ==
  /\ lines[i] # None /\ type = "install"
  /\ \E b \in Kinds : Patch(i, [lines[i] EXCEPT !.components = Append(@, buildComponent(b))])

\* A cost is typed, or comes with a material and may be unknown.
EditComponent(i) ==
  /\ lines[i] # None
  /\ \E k \in Items(lines[i]) : LET c == lines[i].components[k] IN
       \/ \E v \in Costs \ {c.cost} : Patch(i, [lines[i] EXCEPT !.components[k].cost = v])
       \/ \E q \in Quantities \ {c.qty} : Patch(i, [lines[i] EXCEPT !.components[k].qty = q])
RemoveComponent(i) ==
  /\ lines[i] # None
  /\ \E k \in Items(lines[i]) : Patch(i, [lines[i] EXCEPT !.components = RemoveAt(@, k)])

\* Labor items of one rate become one; of an unknown rate they stay apart.
groupSameRateLabor(cs) ==
  LET rated(k) == cs[k].kind = "labor" /\ cs[k].cost # None
      twins(k) == {j \in DOMAIN cs : rated(j) /\ cs[j].cost = cs[k].cost}
      kept == {k \in DOMAIN cs : rated(k) => \A j \in twins(k) : j >= k}
      merged == [k \in DOMAIN cs |->
                   IF rated(k) THEN [cs[k] EXCEPT !.qty = Total([j \in twins(k) |-> cs[j].qty], twins(k))] ELSE cs[k]]
  IN  [n \in 1..Cardinality(kept) |-> merged[SetToSortSeq(kept, LAMBDA a, b : a < b)[n]]]
GroupLabor(i) ==
  /\ lines[i] # None
  /\ LET grouped == groupSameRateLabor(lines[i].components) IN
       Len(grouped) < Len(lines[i].components) /\ Patch(i, [lines[i] EXCEPT !.components = grouped])

-----------------------------------------------------------------------------
(* The split of the tracker                                                  *)

LineDiscipline(l) ==
  IF l.discipline # None THEN l.discipline ELSE IF l.irrigation THEN "irrigation" ELSE "landscape"

Sell(l) ==
  IF type = "install" THEN round(l.qty * Amount(l.sell), 2)
  ELSE round(SquareFeet[l.section] * Amount(l.sell) * l.qty * (2 + l.complexity), 8)

\* Of the stored lines; an estimate without lines keeps its total as landscape.
ComputeSplit(total) ==
  LET of(d) == {i \in Live(stored) : LineDiscipline(stored[i]) = d}
      sum(d) == Total([i \in of(d) |-> Sell(stored[i])], of(d))
  IN  IF Live(stored) = {} THEN [ls |-> total, ir |-> 0]
      ELSE [ls |-> sum("landscape"), ir |-> sum("irrigation")]

SamePrice(a, b) ==
  \/ a = None /\ b = None
  \/ a # None /\ b # None /\ [a EXCEPT !.object = 0, !.components = <<>>] = [b EXCEPT !.object = 0, !.components = <<>>]

At(i, step) == recompute[i].step = step

\* A mutant of SaveLine: a deleted line does not start a recompute.
SaveAndForget(i) ==
  /\ \A j \in Slots : At(j, "none") /\ ~SamePrice(lines[i], stored[i])
  /\ stored' = [stored EXCEPT ![i] = lines[i]]
  /\ recompute' = IF lines[i] = None THEN recompute ELSE [recompute EXCEPT ![i] = [step |-> "read"]]
  /\ UNCHANGED <<type, lines, memo, project, edits>>

\* One create, update or delete of a line; then the split, in statements of their own.
SaveLine(i) ==
  /\ At(i, "none") /\ (Overlap \/ \A j \in Slots : At(j, "none")) /\ ~SamePrice(lines[i], stored[i])
  /\ stored' = [stored EXCEPT ![i] = lines[i]]
  /\ recompute' = [recompute EXCEPT ![i] = [step |-> "read"]]
  /\ UNCHANGED <<type, lines, memo, project, edits>>
ReadLines(i) ==
  /\ At(i, "read")
  /\ recompute' = [recompute EXCEPT ![i] = [step |-> "write", split |-> ComputeSplit(project.total)]]
  /\ UNCHANGED <<type, lines, memo, stored, project, edits>>
WriteSplit(i) ==
  /\ At(i, "write")
  /\ project' = LET x == recompute[i].split IN [total |-> x.ls + x.ir, ls |-> x.ls, ir |-> x.ir]
  /\ recompute' = [recompute EXCEPT ![i] = [step |-> "none"]]
  /\ UNCHANGED <<type, lines, memo, stored, edits>>

Next ==
  \E i \in Slots :
    \/ \E s \in DOMAIN SquareFeet : AddKit(i, s) \/ AddService(i, s)
    \/ RemoveLine(i) \/ EditLine(i) \/ EditDiscipline(i)
    \/ AddComponent(i) \/ EditComponent(i) \/ RemoveComponent(i) \/ GroupLabor(i)
    \/ SaveLine(i) \/ ReadLines(i) \/ WriteSplit(i)

Spec == Init /\ [][Next]_bid

\* ItbTracker: the rows a filter leaves, and the sums above them.
Shown(projects, estimator) == {p \in projects : estimator = "all" \/ estimator \in {p.lsEstimator, p.irrEstimator}}
Stats(rows) ==
  LET sum(f, S) == MapThenSumSet(LAMBDA p : p[f], S)
  IN  [estTotal |-> sum("total", rows), dedupTotal |-> sum("total", {p \in rows : ~p.rebid}),
       estLs |-> sum("ls", rows), estIr |-> sum("ir", rows)]
Tracker == Others \cup {[total |-> project.total, ls |-> project.ls, ir |-> project.ir, rebid |-> FALSE,
                         lsEstimator |-> "ann", irrEstimator |-> "bob"]}

-----------------------------------------------------------------------------
(* Properties                                                                *)

\* After any edits, the editor, the margin panel and the contract say the same of
\* one estimate: what the rows kept is what would be computed afresh, the prices
\* agree, and so do cost and margin wherever the editor knows the cost.
\* Code: install.ts:122 "so the editor and the panel cannot disagree".
ViewsAgree ==
  /\ \A i \in Live(lines) : memo[lines[i].object] = serviceRollup(lines[i])
  /\ estimateRollup.price = contractTotal(lines)
  /\ Total([g \in Groups |-> serviceGroupMargins(g).price], Groups) = contractTotal(lines)
  /\ buildContractTotals(Live(lines)) = contractTotal(lines)
  /\ Total([s \in DOMAIN SquareFeet |-> categoryRollup(s).cents], DOMAIN SquareFeet) = contractTotal(lines)
  /\ type = "install" => LET editor == estimateRollup  panel == MarginAnalysis IN
       editor.cost # None => editor.cost = panel.cost /\ editor.gm = panel.gm

\* No cent is lost or invented when a sum is taken apart: the items of a line share
\* exactly its price, a year's payments are the annual price and differ by a cent at
\* most, the later never more, and the buckets hold the cost of the group, each
\* bucket of a line off by less than a cent.
PartsAddUp ==
  /\ \A i \in Live(lines) : LET price == componentRollups(lines[i]) IN
       \/ \A k \in Items(lines[i]) : price[k] = None
       \/ /\ Total(price, Items(lines[i])) = LinePrice(lines[i])
          /\ \A k \in Items(lines[i]) : price[k] >= 0
  /\ LET annual == buildContractTotals(recurring)  pay == buildPaymentSchedule(annual)
     IN  /\ Total(pay, DOMAIN pay) = annual
         /\ \A m \in 1..11 : pay[0] - pay[m] \in {0, 1} /\ pay[m - 1] >= pay[m]
  /\ type = "install" => \A g \in Groups : LET x == serviceGroupMargins(g)
       parts == Total(x.buckets, Kinds) + x.unattributed IN
       x.cost <= parts /\ parts < x.cost + Cardinality(Kinds) * (1 + Cardinality(Live(lines)))

\* For an editor that waits for each answer: once the requests are served the tracker
\* splits exactly the lines that are stored, to within the cent a line may be rounded
\* the other way, and its sums add up under every filter.
TrackerFollowsLines ==
  /\ ~Overlap /\ (\A i \in Slots : At(i, "none")) /\ Live(stored) # {} =>
       /\ project.ls + project.ir = Total([i \in Live(stored) |-> Sell(stored[i])], Live(stored))
       /\ (\A i \in Live(stored) : LineDiscipline(stored[i]) = "landscape") => project.ir = 0
       /\ LET gap == project.total - contractTotal(stored) IN
            -Cardinality(Live(stored)) <= gap /\ gap <= Cardinality(Live(stored))
  /\ \A e \in {"all", "ann", "bob"} : LET s == Stats(Shown(Tracker, e)) IN
       s.estTotal = s.estLs + s.estIr /\ s.dedupTotal <= s.estTotal

\* (Does not hold.)  The panel knows no cost that the editor does not know.
EditorKnowsCost == type = "install" /\ lines # [i \in Slots |-> None] => estimateRollup.cost = MarginAnalysis.cost
================================================================================
