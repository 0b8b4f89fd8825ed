---------------------------- MODULE QuantityReview -----------------------------
(* Two tables of quantities.  The discrepancy review shows takeoff lines and     *)
(* sends every keystroke as a PATCH of its own, which nothing orders or repeats; *)
(* it derives bid quantity and flag beside the server, which derives them too.   *)
(* The materials calculator turns a measurement into an order quantity and a     *)
(* price, from rows of configuration that replace the built-in ones once loaded. *)
(* Percentages and measurements are whole numbers, and a bid quantity is rounded *)
(* to the nearest unit.  The calculator computes in doubles: for whole numbers   *)
(* they can miss the number of units only where it is whole, and only by ending  *)
(* just above it; for which entries they do is a constant.                       *)
EXTENDS Integers, FiniteSetsExt

CONSTANTS
  Lines,        \* takeoff lines of the estimate
  Quantities,   \* what a cell of a line may hold
  Percents,     \* Add % and flag thresholds
  Default,      \* DISCREPANCY_THRESHOLD.defaultPct
  Materials,    \* material keys
  BuiltIn,      \* MATERIAL_FORMULA_ROWS: material key -> row
  Configured,   \* the rows of the configuration
  Measures,     \* areas and lengths entered
  Depths,       \* depths entered
  Overshoot,    \* <<measurement, Add %, cover>> whose doubles end above the whole quotient
  None,
  MaxKeys,      \* keystrokes in the review
  MaxInputs,    \* entries in the calculator
  MaxMishaps    \* PATCHes that fail

Cell == {"planQty", "addPct", "measuredQty"}
Line == [Cell -> Quantities \cup Percents]

ReviewAssumption ==
  /\ Quantities \subseteq Nat /\ Percents \subseteq Nat /\ Default \in Percents
  /\ Measures \subseteq Nat /\ Depths \subseteq Nat
  /\ DOMAIN BuiltIn \subseteq Materials /\ DOMAIN Configured \subseteq Materials

VARIABLES
  stored,      \* takeoff_lines of the server
  lines,       \* the lines of the tab
  threshold,   \* the slider
  sent,        \* the PATCHes under way, in no order
  typed,       \* history: how often each cell was typed into
  keys, mishaps,
  rows,        \* the materials that have a card
  inputs       \* what was entered on the cards, by material

tableVars == <<stored, lines, threshold, sent, typed, keys, mishaps>>
cardVars == <<rows, inputs>>
vars == <<tableVars, cardVars>>

NoInput == [measure |-> 0, depth |-> None, addPct |-> 0]
NewLine == [planQty |-> Max(Quantities), addPct |-> 0, measuredQty |-> Max(Quantities)]

Init ==
  /\ stored = [l \in Lines |-> NewLine] /\ lines = stored
  /\ threshold = Default /\ sent = {}
  /\ typed = [l \in Lines |-> [c \in Cell |-> 0]] /\ keys = 0 /\ mishaps = 0
  /\ rows = BuiltIn /\ inputs = [m \in DOMAIN BuiltIn |-> NoInput]

-----------------------------------------------------------------------------
(* Discrepancy review                                                          *)

\* Math.round of a positive quantity.
Round(n, d) == (2 * n + d) \div (2 * d)

bidQty(ln) == Round(ln.planQty * (100 + ln.addPct), 100)
\* A plan of nothing is never flagged; the threshold itself is not beyond it.
isFlagged(ln, t) ==
  ln.planQty # 0 /\ 100 * Max({ln.measuredQty - ln.planQty, ln.planQty - ln.measuredQty}) > t * ln.planQty

\* reviewTakeoff: what the stat cards, the rows and the banner show.
Review(ls, t) ==
  [flagged |-> {l \in Lines : isFlagged(ls[l], t)},
   bid |-> [l \in Lines |-> bidQty(ls[l])]]

\* Mutant of Patch: the line as the tab has it.
PatchLine(l, c, v) == [lines[l] EXCEPT ![c] = v]
\* A PATCH carries the cell that was typed into.
Patch(l, c, v) == [d \in {c} |-> v]

\* updateLine: shown at once, then sent.
UpdateLine(l, c, v) ==
  /\ keys < MaxKeys /\ v # lines[l][c]
  /\ lines' = [lines EXCEPT ![l][c] = v]
  /\ sent' = sent \cup {[line |-> l, body |-> Patch(l, c, v), key |-> keys]}
  /\ keys' = keys + 1
  /\ typed' = [typed EXCEPT ![l][c] = @ + 1]
  /\ UNCHANGED <<stored, threshold, mishaps, cardVars>>

\* update_takeoff_line: the columns of the body.  The answer is not looked at.
PatchRuns(p) ==
  /\ stored' = [stored EXCEPT ![p.line] = [c \in Cell |-> IF c \in DOMAIN p.body THEN p.body[c] ELSE @[c]]]
  /\ sent' = sent \ {p}
  /\ UNCHANGED <<lines, threshold, typed, keys, mishaps, cardVars>>
\* "best-effort": nothing is shown of a failure.
PatchFails(p) ==
  /\ mishaps < MaxMishaps /\ mishaps' = mishaps + 1
  /\ sent' = sent \ {p}
  /\ UNCHANGED <<stored, lines, threshold, typed, keys, cardVars>>

MoveSlider(t) ==
  /\ threshold' = t
  /\ UNCHANGED <<stored, lines, sent, typed, keys, mishaps, cardVars>>

\* The tab is opened again: it is empty until the lines of the server are there.  A cell whose
\* text is lost with the tab counts as typed into more than once.
OpenTab ==
  /\ lines' = stored /\ threshold' = Default
  /\ lines # stored \/ threshold # Default
  /\ typed' = [l \in Lines |-> [c \in Cell |-> IF lines[l][c] = stored[l][c] THEN typed[l][c] ELSE 2]]
  /\ UNCHANGED <<stored, sent, keys, mishaps, cardVars>>

TableStep ==
  \/ \E l \in Lines, c \in Cell :
       \E v \in (IF c = "addPct" THEN Percents ELSE Quantities) : UpdateLine(l, c, v)
  \/ \E p \in sent : PatchRuns(p) \/ PatchFails(p)
  \/ \E t \in Percents : MoveSlider(t)
  \/ OpenTab

-----------------------------------------------------------------------------
(* Materials calculator                                                        *)

\* Mutant of Ceil: what is left over is not ordered.
FloorOf(n, d) == n \div d
Ceil(n, d) == (n + d - 1) \div d

\* The entry of a card; a blank or zero depth is no depth.
EntryOf(m) == IF m \in DOMAIN inputs THEN inputs[m] ELSE NoInput
DepthOf(r, e) == IF e.depth \in {None, 0} THEN r.depth ELSE e.depth

\* Square feet, or feet, that one unit covers at a depth: a piece, roll, pallet or
\* bag covers the same at any depth, a ton what the table says or else what it says
\* of the default depth, a cubic yard the less the deeper and the more it is compacted.
Covers(r, depth) ==
  CASE r.compute = "div" -> [of |-> r.size, per |-> 1, compaction |-> 0]
    [] r.compute = "aggregate" ->
         [of |-> IF depth \in DOMAIN r.table THEN r.table[depth]
                 ELSE IF r.depth \in DOMAIN r.table THEN r.table[r.depth] ELSE 100,
          per |-> 1, compaction |-> 0]
    [] r.compute = "yard" -> [of |-> 324, per |-> depth, compaction |-> r.compaction]

\* What has to be covered and what a unit covers, both in ten-thousandths.
Need(e, c) == e.measure * (100 + e.addPct) * c.per * (100 + c.compaction)
UnitOf(c) == 10000 * c.of
Overshoots(e, c) == <<e.measure, e.addPct, c>> \in Overshoot

\* FORMULA_ENGINE: every formula rounds the quotient up, and so the least excess of a
\* double over a whole quotient is a unit more: 3000 with 10% over 300 gives 12.
Units(r, e) ==
  LET c == Covers(r, DepthOf(r, e))
      least == Ceil(Need(e, c), UnitOf(c))
  IN  IF Overshoots(e, c) /\ UnitOf(c) * least = Need(e, c) THEN least + 1 ELSE least

LineTotal(m) == Units(rows[m], EntryOf(m)) * rows[m].sell
subtotalCents == MapThenSumSet(LineTotal, DOMAIN rows)

\* What the depth field of a card shows: a list shows its first option for no value.
DisplayDepth(r, e) ==
  LET d == IF e.depth # None THEN e.depth ELSE r.depth IN
  IF r.compute = "aggregate" /\ d \notin DOMAIN r.table THEN Min(DOMAIN r.table) ELSE d

\* The depths a card accepts: a list of options, any number, no field at all.
Offered(r) == CASE r.compute = "aggregate" -> DOMAIN r.table [] r.compute = "yard" -> Depths [] OTHER -> {}

\* A row has what its formula divides by, and the two lists of materials agree: a table
\* offered before the configuration is loaded has no depth that the configured one lacks.
RowOK(r) ==
  /\ r.compute \in {"div", "aggregate", "yard"}
  /\ r.compute = "div" => r.size \in Nat \ {0}
  /\ r.compute = "yard" => r.depth \in Nat /\ r.compaction \in Nat
  /\ r.compute = "aggregate" => r.depth \in DOMAIN r.table /\ \A d \in DOMAIN r.table : r.table[d] \in Nat \ {0}
CardsAgree ==
  /\ \A m \in DOMAIN BuiltIn : RowOK(BuiltIn[m])
  /\ \A m \in DOMAIN Configured : RowOK(Configured[m])
  /\ \A m \in DOMAIN BuiltIn \cap DOMAIN Configured : Configured[m].compute = "aggregate" =>
       BuiltIn[m].compute = "aggregate" /\ DOMAIN BuiltIn[m].table \subseteq DOMAIN Configured[m].table

\* handleInput.
HandleInput(m, f, v) ==
  /\ m \in DOMAIN rows /\ EntryOf(m)[f] # v
  /\ f = "depth" => v \in Offered(rows[m])
  /\ Cardinality({i \in (DOMAIN inputs) \X (DOMAIN NoInput) : inputs[i[1]][i[2]] # NoInput[i[2]]}) < MaxInputs
  /\ inputs' = [n \in DOMAIN inputs \cup {m} |-> IF n = m THEN [EntryOf(m) EXCEPT ![f] = v] ELSE inputs[n]]
  /\ UNCHANGED <<tableVars, rows>>

\* useEstimatingConfig has answered: other rows, the same entries.
ConfigLoaded ==
  /\ rows = BuiltIn /\ rows' = Configured
  /\ UNCHANGED <<tableVars, inputs>>

CardStep ==
  \/ \E m \in Materials :
       \/ \E v \in Measures : HandleInput(m, "measure", v)
       \/ \E v \in Depths : HandleInput(m, "depth", v)
       \/ \E v \in Percents : HandleInput(m, "addPct", v)
  \/ ConfigLoaded

Next == TableStep \/ CardStep
Spec == Init /\ [][Next]_vars

-----------------------------------------------------------------------------
\* In whatever order the keystrokes' PATCHes are executed, a cell that was typed into
\* once is stored as typed and one that was not stays as it was; when they have all
\* run on such lines, the server derives the flags and bids that the tab shows at the
\* default threshold.  Code: updateLine, update_takeoff_line and _takeoff_line_out.
KeystrokesLand ==
  sent = {} /\ mishaps = 0 =>
    /\ \A l \in Lines, c \in Cell : typed[l][c] <= 1 => stored[l][c] = lines[l][c]
    /\ (\A l \in Lines, c \in Cell : typed[l][c] <= 1) =>
         Review(stored, Default) = Review(lines, Default)

\* An order covers the measurement with its waste and its compaction, at the depth that its
\* card shows, and by less than a unit; by one whole unit where the doubles end above a whole
\* quotient.  Code: FORMULA_ENGINE and MaterialCard.
OrdersCover ==
  \A m \in DOMAIN rows :
    LET r == rows[m]  e == EntryOf(m)  c == Covers(r, DisplayDepth(r, e))
        ordered == UnitOf(c) * Units(r, e)
        less == UnitOf(c) * (Units(r, e) - 1)
    IN  e.depth # 0 => /\ ordered >= Need(e, c)
                       /\ Units(r, e) > 0 => less < Need(e, c) \/ (less = Need(e, c) /\ Overshoots(e, c))
================================================================================
