--------------------------- MODULE CrewRates_proofs ---------------------------
(***************************************************************************)
(* For any lines, rates and number of rate changes: the settings form ends *)
(* on the stored rate, however its PATCHes and refetches overlap; a refused *)
(* save marks lines that need the rate; and, where the server works on one *)
(* request at a time, a computed price is the formula's at the rate that   *)
(* is in force.                                                            *)
(***************************************************************************)
EXTENDS CrewRates, TLAPS

Rate == Rates \cup {NoRate}
Price == Nat \cup {Absent, Blank}
Phase == {"idle", "sent", "prior", "select", "reprice", "done", "failed", "settled"}

PatchType == [new : Rate, before : Rate, prior : Rate, at : Phase, todo : SUBSET Lines]
FormType == [shown : Rate, fetch : {"none", "asked", "read"}, got : Rate]
EditorType ==
  [open : BOOLEAN, snap : Rate, live : Rate, draft : [Lines -> Price], saved : [Lines -> Price],
   touched : SUBSET Lines, sent : SUBSET Lines, busy : BOOLEAN, marked : SUBSET Lines, error : BOOLEAN]

CrewTypeOK ==
  /\ rate \in Rate
  /\ est \in [status : {"queued", "in_progress", "pending_approval"}, snap : Rate]
  /\ row \in [Lines -> Price] /\ madeBy \in [Lines -> {"rate", "hand", "late"}]
  /\ patches \in [Ids -> PatchType] /\ form \in FormType /\ ed \in EditorType

-----------------------------------------------------------------------------
(* Operators.                                                               *)

\* A divisor's quotient of naturals is a natural.
LEMMA RoundType == ASSUME NEW a \in Nat, NEW b \in Nat \ {0} PROVE Round(a, b) \in Nat
<1>1. 2 * a + b \in Nat /\ 2 * b \in Nat \ {0}
  OBVIOUS
<1> DEFINE m == 2 * a + b  n == 2 * b
<1>2. m \in Nat /\ n \in Nat \ {0}
  BY <1>1
<1>3. m \div n \in Nat
  <2> HIDE DEF m, n
  <2> QED BY <1>2
<1> QED BY <1>3 DEF Round

\* The formula makes a price of a rate.
LEMMA SellType == ASSUME NEW r \in Rates PROVE Sell(r) \in Nat /\ Sell(r) \in Price /\ Sell(r) # Absent
<1>1. r \in Nat /\ ProductionRate \in Nat \ {0} /\ 100 - TargetGm \in Nat \ {0}
  BY CrewRateAssumption
<1>2. 1000 * r * 100 \in Nat
  BY <1>1
<1>3. ASSUME NEW p \in Nat \ {0}, NEW q \in Nat \ {0} PROVE p * q \in Nat \ {0}
  OBVIOUS
<1>4. ProductionRate * (100 - TargetGm) \in Nat \ {0}
  BY <1>1, <1>3
<1>5. Sell(r) \in Nat
  BY <1>2, <1>4, RoundType DEF Sell
<1>6. Absent \notin Nat
  BY CrewRateAssumption
<1> QED BY <1>5, <1>6 DEF Price

LEMMA NewPriceType == ASSUME NEW l \in Lines, NEW r \in Rate PROVE NewPrice(l, r) \in Price
<1>1. CatalogSell \in Nat
  BY CrewRateAssumption
<1> QED BY <1>1, SellType DEF NewPrice, Rate, Price

LEMMA ResolvedType == ASSUME NEW s \in Rate, NEW r \in Rate PROVE Resolved(s, r) \in Rate
  BY DEF Resolved

-----------------------------------------------------------------------------
(* Types.                                                                   *)

LEMMA CrewTypes ==
  ASSUME CrewTypeOK
  PROVE  /\ rate \in Rate /\ row \in [Lines -> Price] /\ madeBy \in [Lines -> {"rate", "hand", "late"}]
         /\ est \in [status : {"queued", "in_progress", "pending_approval"}, snap : Rate]
         /\ patches \in [Ids -> PatchType] /\ form \in FormType /\ ed \in EditorType
  BY DEF CrewTypeOK

\* A step of one PATCH.
Moves(i) == patches' \in [Ids -> PatchType] /\ \A j \in Ids \ {i} : patches'[j] = patches[j]

LEMMA PatchMoves ==
  ASSUME patches \in [Ids -> PatchType], NEW i \in Ids
  PROVE  /\ \A f \in Phase, x \in SUBSET Lines : Step(i, f, x) =>
              /\ Moves(i) /\ patches'[i].at = f /\ patches'[i].todo = x
              /\ patches'[i].new = patches[i].new /\ patches'[i].prior = patches[i].prior
         /\ \A f \in Phase : Answer(i, f) => Moves(i) /\ patches'[i].at = f
         /\ Settle(i) => Moves(i) /\ patches'[i].at = "settled"
<1>1. NoOne \in PatchType
  BY DEF NoOne, PatchType, Rate, Phase
<1>2. ASSUME NEW f \in Phase, NEW x \in SUBSET Lines, Step(i, f, x)
      PROVE  /\ Moves(i) /\ patches'[i].at = f /\ patches'[i].todo = x
             /\ patches'[i].new = patches[i].new /\ patches'[i].prior = patches[i].prior
  BY <1>2 DEF Step, Moves, PatchType
<1>3. ASSUME NEW f \in Phase, Answer(i, f) PROVE Moves(i) /\ patches'[i].at = f
  <2>1. [NoOne EXCEPT !.at = f, !.before = patches[i].before] \in PatchType
    BY <1>1 DEF PatchType
  <2>2. [NoOne EXCEPT !.at = f, !.before = patches[i].before].at = f
    BY <1>1 DEF PatchType
  <2>3. patches' = [patches EXCEPT ![i] = [NoOne EXCEPT !.at = f, !.before = patches[i].before]]
    BY <1>3 DEF Answer
  <2> QED BY <2>1, <2>2, <2>3 DEF Moves
<1>4. ASSUME Settle(i) PROVE Moves(i) /\ patches'[i].at = "settled"
  <2>1. [NoOne EXCEPT !.at = "settled"] \in PatchType /\ [NoOne EXCEPT !.at = "settled"].at = "settled"
    BY <1>1 DEF PatchType, Phase
  <2> QED BY <1>4, <2>1 DEF Settle, Moves
<1> QED BY <1>2, <1>3, <1>4

LEMMA ClosedType == Closed \in EditorType
<1>1. [l \in Lines |-> Absent] \in [Lines -> Price] /\ NoRate \in Rate
  BY DEF Price, Rate
<1> QED BY <1>1 DEF Closed, EditorType

\* What each step of a PATCH does to it.
LEMMA PatchSteps ==
  ASSUME CrewTypeOK, NEW i \in Ids
  PROVE  /\ Succeed(i) => Moves(i) /\ patches[i].at = "done" /\ patches'[i].at = "settled"
         /\ Fail(i) => Moves(i) /\ patches[i].at = "failed" /\ patches'[i].at = "settled"
         /\ ReadPrior(i) => /\ Moves(i) /\ patches[i].at = "sent" /\ patches'[i].at = "prior"
                            /\ patches'[i].prior = rate /\ patches'[i].new = patches[i].new
         /\ Upsert(i) => /\ Moves(i) /\ patches[i].at = "prior" /\ rate' = patches[i].new
                         /\ \/ /\ patches[i].prior \in {NoRate, patches[i].new} /\ patches'[i].at = "done"
                            \/ /\ patches[i].prior \notin {NoRate, patches[i].new}
                               /\ patches'[i].at = "select" /\ patches'[i].todo = {}
                               /\ patches'[i].new = patches[i].new /\ patches'[i].prior = patches[i].prior
         /\ SelectDrafts(i) =>
              /\ Moves(i) /\ patches[i].at = "select" /\ patches'[i].at = "reprice"
              /\ patches'[i].new = patches[i].new /\ patches'[i].prior = patches[i].prior
              /\ patches'[i].todo = IF est.status \notin Open THEN {}
                     ELSE {l \in Lines : KindOf[l] = "hours" /\ row[l] = Sell(patches[i].prior)}
         /\ Finish(i) => Moves(i) /\ patches[i].at = "reprice" /\ patches[i].todo = {} /\ patches'[i].at = "done"
         /\ Mishap(i) => /\ Moves(i) /\ (patches[i].at \in {"sent", "done"} \/ Serving(i))
                         /\ patches'[i].at = "failed"
<1> USE CrewTypes
<1>1. "idle" \in Phase /\ "prior" \in Phase /\ "select" \in Phase /\ "reprice" \in Phase /\ "done" \in Phase
      /\ "failed" \in Phase /\ {} \in SUBSET Lines
  BY DEF Phase
<1>2. Succeed(i) => Moves(i) /\ patches[i].at = "done" /\ patches'[i].at = "settled"
  BY PatchMoves DEF Succeed
<1>3. Fail(i) => Moves(i) /\ patches[i].at = "failed" /\ patches'[i].at = "settled"
  BY PatchMoves DEF Fail
<1>4. ReadPrior(i) => /\ Moves(i) /\ patches[i].at = "sent" /\ patches'[i].at = "prior"
                      /\ patches'[i].prior = rate /\ patches'[i].new = patches[i].new
  <2>1. ASSUME NEW f \in Phase, NEW r \in Rate, patches' = [patches EXCEPT ![i].at = f, ![i].prior = r]
        PROVE  Moves(i) /\ patches'[i].at = f /\ patches'[i].prior = r /\ patches'[i].new = patches[i].new
    BY <2>1 DEF Moves, PatchType
  <2> QED BY <1>1, <2>1 DEF ReadPrior
<1>5. ASSUME Upsert(i)
      PROVE  /\ Moves(i) /\ patches[i].at = "prior" /\ rate' = patches[i].new
             /\ \/ /\ patches[i].prior \in {NoRate, patches[i].new} /\ patches'[i].at = "done"
                \/ /\ patches[i].prior \notin {NoRate, patches[i].new}
                   /\ patches'[i].at = "select" /\ patches'[i].todo = {}
                   /\ patches'[i].new = patches[i].new /\ patches'[i].prior = patches[i].prior
  BY <1>1, <1>5, PatchMoves DEF Upsert
<1>6. ASSUME SelectDrafts(i)
      PROVE  /\ Moves(i) /\ patches[i].at = "select" /\ patches'[i].at = "reprice"
             /\ patches'[i].new = patches[i].new /\ patches'[i].prior = patches[i].prior
             /\ patches'[i].todo = IF est.status \notin Open THEN {}
                    ELSE {l \in Lines : KindOf[l] = "hours" /\ row[l] = Sell(patches[i].prior)}
  <2> DEFINE X == IF est.status \notin Open THEN {}
                  ELSE {l \in Lines : KindOf[l] = "hours" /\ row[l] = Sell(patches[i].prior)}
  <2>1. X \in SUBSET Lines
    OBVIOUS
  <2>2. Step(i, "reprice", X) /\ patches[i].at = "select"
    BY <1>6 DEF SelectDrafts
  <2> HIDE DEF X
  <2>3. /\ Moves(i) /\ patches'[i].at = "reprice" /\ patches'[i].todo = X
        /\ patches'[i].new = patches[i].new /\ patches'[i].prior = patches[i].prior
    BY <1>1, <2>1, <2>2, PatchMoves
  <2> QED BY <2>2, <2>3 DEF X
<1>7. Finish(i) => Moves(i) /\ patches[i].at = "reprice" /\ patches[i].todo = {} /\ patches'[i].at = "done"
  BY <1>1, PatchMoves DEF Finish
<1>8. Mishap(i) => /\ Moves(i) /\ (patches[i].at \in {"sent", "done"} \/ Serving(i))
                   /\ patches'[i].at = "failed"
  BY <1>1, PatchMoves DEF Mishap
<1> QED BY <1>2, <1>3, <1>4, <1>5, <1>6, <1>7, <1>8

LEMMA RepriceStep ==
  ASSUME CrewTypeOK, NEW i \in Ids, RepriceLine(i)
  PROVE  \E l \in patches[i].todo :
           /\ Moves(i) /\ patches[i].at = "reprice" /\ patches'[i].at = "reprice"
           /\ patches'[i].todo = patches[i].todo \ {l}
           /\ patches'[i].new = patches[i].new /\ patches'[i].prior = patches[i].prior
           /\ row' = [row EXCEPT ![l] = IF @ = Absent THEN @ ELSE Sell(patches[i].new)]
<1>1. PICK l \in patches[i].todo :
        /\ row' = [row EXCEPT ![l] = IF @ = Absent THEN @ ELSE Sell(patches[i].new)]
        /\ Step(i, "reprice", patches[i].todo \ {l})
  BY DEF RepriceLine
<1>2. "reprice" \in Phase /\ patches[i].todo \ {l} \in SUBSET Lines
  BY CrewTypes DEF Phase, PatchType
<1>3. /\ Moves(i) /\ patches'[i].at = "reprice" /\ patches'[i].todo = patches[i].todo \ {l}
      /\ patches'[i].new = patches[i].new /\ patches'[i].prior = patches[i].prior
  BY <1>1, <1>2, CrewTypes, PatchMoves
<1> QED BY <1>1, <1>3 DEF RepriceLine

\* The editor keeps its types.
LEMMA EditorTypes ==
  ASSUME CrewTypeOK,
         \/ OpenEditor \/ ReadLive \/ Save \/ Reload \/ CloseEditor
         \/ \E l \in Lines : AddLine(l) \/ TouchLine(l) \/ RemoveLine(l) \/ StoreLine(l) \/ RefuseLine(l)
  PROVE  ed' \in EditorType
<1> USE CrewTypes, ClosedType
<1>1. CASE OpenEditor \/ ReadLive \/ Reload \/ CloseEditor
  <2>1. CASE OpenEditor BY <2>1 DEF OpenEditor, EditorType
  <2>2. CASE ReadLive BY <2>2 DEF ReadLive, EditorType
  <2>3. CASE Reload BY <2>3 DEF Reload, EditorType
  <2>4. CASE CloseEditor BY <2>4 DEF CloseEditor
  <2> QED BY <1>1, <2>1, <2>2, <2>3, <2>4
<1>2. CASE Save
  <2>1. {l \in ed.touched : ~(ed.draft[l] = Absent /\ ed.saved[l] = Absent)} \in SUBSET Lines
    BY DEF EditorType
  <2> QED BY <1>2, <2>1 DEF Save, EditorType
<1>3. ASSUME NEW l \in Lines, NEW price \in Price, Edit(l, price) PROVE ed' \in EditorType
  BY <1>3 DEF Edit, EditorType
<1>4. ASSUME NEW l \in Lines, AddLine(l) \/ TouchLine(l) \/ RemoveLine(l) PROVE ed' \in EditorType
  <2>1. NewPrice(l, Resolved(ed.snap, ed.live)) \in Price /\ ed.draft[l] \in Price /\ Absent \in Price
    BY NewPriceType, ResolvedType DEF EditorType, Price
  <2> QED BY <1>3, <1>4, <2>1 DEF AddLine, TouchLine, RemoveLine
<1>5. ASSUME NEW l \in Lines, StoreLine(l) PROVE ed' \in EditorType
  BY <1>5 DEF StoreLine, EditorType
<1>6. ASSUME NEW l \in Lines, RefuseLine(l) PROVE ed' \in EditorType
  <2>1. PICK m \in SUBSET Lines :
          ed' = [ed EXCEPT !.sent = @ \ {l}, !.busy = FALSE, !.error = ed.open, !.marked = m]
    <3> DEFINE m == IF ed.busy
                    THEN IF ed.saved[l] # Absent THEN {l} ELSE UnsavedDerived(ed.saved, ed.draft, ed.live)
                    ELSE ed.marked
    <3>1. m \in SUBSET Lines
      BY DEF UnsavedDerived, EditorType
    <3>2. ed' = [ed EXCEPT !.sent = @ \ {l}, !.busy = FALSE, !.error = ed.open, !.marked = m]
      BY <1>6 DEF RefuseLine, EditorType
    <3> QED BY <3>1, <3>2
  <2> QED BY <2>1 DEF EditorType
<1> QED BY <1>1, <1>2, <1>4, <1>5, <1>6

\* What a stored line is taken for.
LEMMA StoreTypes ==
  ASSUME CrewTypeOK, NEW l \in Lines, StoreLine(l)
  PROVE  /\ row' \in [Lines -> Price] /\ madeBy' \in [Lines -> {"rate", "hand", "late"}]
         /\ \A k \in Lines \ {l} : row'[k] = row[k] /\ madeBy'[k] = madeBy[k]
         /\ madeBy'[l] = "rate" =>
              KindOf[l] = "hours" /\ rate # NoRate /\ est.status \in Open /\ row'[l] = Sell(rate)
<1>1. Stored(l) \in Price
  BY CrewTypes, SellType DEF Stored, Computed, EditorType, Rate
<1> QED BY <1>1, CrewTypes DEF StoreLine, Stored, Computed

\* A PATCH under way brings a rate.
BringsRate == \A i \in Ids : patches[i].at \in {"sent", "prior", "select", "reprice"} => patches[i].new \in Rates

LEMMA CrewTypeStep == ASSUME CrewTypeOK, BringsRate, [Next]_vars PROVE CrewTypeOK'
<1> USE CrewTypes
<1>1. CASE UNCHANGED vars
  BY <1>1 DEF vars, server, CrewTypeOK
<1>2. ASSUME NEW i \in Ids, NEW n \in Rates, SubmitRate(i, n) PROVE CrewTypeOK'
  <2>1. [NoOne EXCEPT !.new = n, !.before = form.shown, !.at = "sent"] \in PatchType
    BY DEF NoOne, PatchType, FormType, Rate, Phase
  <2>2. patches' \in [Ids -> PatchType] /\ form' \in FormType
    BY <1>2, <2>1 DEF SubmitRate, FormType, Rate
  <2> QED BY <1>2, <2>2 DEF SubmitRate, server, CrewTypeOK
<1>3. ASSUME NEW i \in Ids, Succeed(i) \/ Fail(i) PROVE CrewTypeOK'
  <2>1. patches' \in [Ids -> PatchType]
    BY <1>3, PatchSteps DEF Moves
  <2>2. form' \in FormType
    BY <1>3 DEF Succeed, Fail, FormType, PatchType
  <2> QED BY <1>3, <2>1, <2>2 DEF Succeed, Fail, server, CrewTypeOK
<1>4. ASSUME NEW i \in Ids, ReadPrior(i) \/ SelectDrafts(i) \/ Finish(i) \/ Mishap(i) PROVE CrewTypeOK'
  <2>1. patches' \in [Ids -> PatchType]
    BY <1>4, PatchSteps DEF Moves
  <2> QED BY <1>4, <2>1 DEF ReadPrior, SelectDrafts, Finish, Mishap, server, CrewTypeOK
<1>5. ASSUME NEW i \in Ids, Upsert(i) PROVE CrewTypeOK'
  <2>1. Moves(i) /\ rate' = patches[i].new
    BY <1>5, PatchSteps
  <2>2. patches' \in [Ids -> PatchType] /\ rate' \in Rate
    BY <2>1 DEF Moves, PatchType
  <2> QED BY <1>5, <2>2 DEF Upsert, CrewTypeOK
<1>6. ASSUME NEW i \in Ids, RepriceLine(i) PROVE CrewTypeOK'
  <2>1. PICK l \in patches[i].todo :
          /\ Moves(i) /\ row' = [row EXCEPT ![l] = IF @ = Absent THEN @ ELSE Sell(patches[i].new)]
    BY <1>6, RepriceStep
  <2>2. Sell(patches[i].new) \in Price
    BY <1>6, SellType DEF RepriceLine, BringsRate
  <2> QED BY <1>6, <2>1, <2>2 DEF RepriceLine, Moves, CrewTypeOK
<1>7. CASE ServeSettings \/ ShowSettings
  <2>1. form' \in FormType
    <3>1. CASE ServeSettings BY <3>1 DEF ServeSettings, FormType
    <3>2. CASE ShowSettings
      <4>1. NoRate \in Rate
        BY DEF Rate
      <4> QED BY <3>2, <4>1 DEF ShowSettings, FormType
    <3> QED BY <1>7, <3>1, <3>2
  <2> QED BY <1>7, <2>1 DEF ServeSettings, ShowSettings, server, CrewTypeOK
<1>8. CASE Start \/ Submit
  <2>1. est' \in [status : {"queued", "in_progress", "pending_approval"}, snap : Rate]
    BY <1>8 DEF Start, Submit, Rate
  <2> QED BY <1>8, <2>1 DEF Start, Submit, CrewTypeOK
<1>9. CASE OpenEditor \/ ReadLive \/ Save \/ Reload \/ CloseEditor
  <2>1. ed' \in EditorType
    BY <1>9, EditorTypes
  <2> QED BY <1>9, <2>1 DEF OpenEditor, ReadLive, Save, Reload, CloseEditor, server, CrewTypeOK
<1>10. ASSUME NEW l \in Lines, AddLine(l) \/ TouchLine(l) \/ RemoveLine(l) \/ RefuseLine(l) PROVE CrewTypeOK'
  <2>1. ed' \in EditorType
    BY <1>10, EditorTypes
  <2> QED BY <1>10, <2>1 DEF AddLine, TouchLine, RemoveLine, RefuseLine, server, CrewTypeOK
<1>11. ASSUME NEW l \in Lines, StoreLine(l) PROVE CrewTypeOK'
  <2>1. ed' \in EditorType /\ row' \in [Lines -> Price] /\ madeBy' \in [Lines -> {"rate", "hand", "late"}]
    BY <1>11, EditorTypes, StoreTypes
  <2> QED BY <1>11, <2>1 DEF StoreLine, CrewTypeOK
<1> QED BY <1>1, <1>2, <1>3, <1>4, <1>5, <1>6, <1>7, <1>8, <1>9, <1>10, <1>11 DEF Next

\* The steps of PATCHes, and of everything else.
PatchAction(i) ==
  \/ \E n \in Rates : SubmitRate(i, n)
  \/ Succeed(i) \/ Fail(i) \/ ReadPrior(i) \/ Upsert(i) \/ SelectDrafts(i)
  \/ RepriceLine(i) \/ Finish(i) \/ Mishap(i)

LEMMA OtherwiseUnchanged ==
  ASSUME [Next]_vars, \A i \in Ids : ~PatchAction(i)
  PROVE  UNCHANGED <<patches, rate, died>>
  BY DEF Next, PatchAction, ServeSettings, ShowSettings, Start, Submit, OpenEditor, ReadLive, Save, Reload,
     CloseEditor, AddLine, TouchLine, RemoveLine, StoreLine, RefuseLine, server, vars

LEMMA SubmitStep ==
  ASSUME CrewTypeOK, NEW i \in Ids, NEW n \in Rates, SubmitRate(i, n)
  PROVE  /\ Moves(i) /\ patches[i].at = "idle" /\ patches'[i].at = "sent" /\ patches'[i].new = n
         /\ UNCHANGED rate
<1>1. [NoOne EXCEPT !.new = n, !.before = form.shown, !.at = "sent"] \in PatchType
  BY CrewTypes DEF NoOne, PatchType, FormType, Rate, Phase
<1>2. /\ [NoOne EXCEPT !.new = n, !.before = form.shown, !.at = "sent"].at = "sent"
      /\ [NoOne EXCEPT !.new = n, !.before = form.shown, !.at = "sent"].new = n
  BY DEF NoOne
<1> QED BY <1>1, <1>2, CrewTypes DEF SubmitRate, Moves, server

LEMMA BringsRateStep == ASSUME CrewTypeOK, BringsRate, [Next]_vars PROVE BringsRate'
<1>1. ASSUME NEW i \in Ids, Moves(i),
             patches'[i].at \in {"sent", "prior", "select", "reprice"} => patches'[i].new \in Rates
      PROVE  BringsRate'
  BY <1>1 DEF BringsRate, Moves
<1>2. ASSUME NEW i \in Ids, PatchAction(i) PROVE BringsRate'
  <2>1. CASE \E n \in Rates : SubmitRate(i, n)
    BY <1>1, <2>1, SubmitStep
  <2>2. CASE Succeed(i) \/ Fail(i) \/ Finish(i) \/ Mishap(i)
    BY <1>1, <2>2, PatchSteps
  <2>3. CASE ReadPrior(i) \/ Upsert(i) \/ SelectDrafts(i)
    BY <1>1, <2>3, PatchSteps DEF BringsRate
  <2>4. CASE RepriceLine(i)
    BY <1>1, <2>4, RepriceStep DEF BringsRate
  <2> QED BY <1>2, <2>1, <2>2, <2>3, <2>4 DEF PatchAction
<1>3. CASE \A i \in Ids : ~PatchAction(i)
  BY <1>3, OtherwiseUnchanged DEF BringsRate
<1> QED BY <1>2, <1>3

LEMMA CrewInit == ASSUME Init PROVE CrewTypeOK /\ BringsRate
<1>1. NoOne \in PatchType /\ NoOne.at = "idle"
  BY DEF NoOne, PatchType, Rate, Phase
<1>2. patches \in [Ids -> PatchType] /\ \A i \in Ids : patches[i].at = "idle"
  BY <1>1 DEF Init
<1>3. rate \in Rate /\ row \in [Lines -> Price] /\ madeBy \in [Lines -> {"rate", "hand", "late"}]
  BY CrewRateAssumption DEF Init, Rate, Price
<1>4. est \in [status : {"queued", "in_progress", "pending_approval"}, snap : Rate] /\ form \in FormType
  BY <1>3 DEF Init, FormType, Rate
<1> QED BY <1>2, <1>3, <1>4, ClosedType DEF Init, CrewTypeOK, BringsRate

-----------------------------------------------------------------------------
(* The settings form ends on the stored rate.                               *)

\* What is asked for after the last PATCH is answered is the rate that is stored.
FormInv ==
  (\A i \in Ids : patches[i].at \in {"idle", "settled"}) =>
     /\ form.fetch = "none" => form.shown = rate
     /\ form.fetch = "read" => form.got = rate

LEMMA FormStep == ASSUME CrewTypeOK, FormInv, [Next]_vars PROVE FormInv'
<1>1. ASSUME NEW i \in Ids, Moves(i), patches'[i].at \notin {"idle", "settled"} PROVE FormInv'
  BY <1>1 DEF FormInv
<1>2. ASSUME NEW i \in Ids, PatchAction(i) PROVE FormInv'
  <2>1. CASE \E n \in Rates : SubmitRate(i, n)
    BY <1>1, <2>1, SubmitStep
  <2>2. CASE Succeed(i) \/ Fail(i)
    <3>1. form'.fetch = "asked"
      BY <2>2, CrewTypes DEF Succeed, Fail, FormType
    <3> QED BY <3>1 DEF FormInv
  <2>3. CASE ReadPrior(i) \/ Upsert(i) \/ SelectDrafts(i) \/ Finish(i) \/ Mishap(i)
    BY <1>1, <2>3, PatchSteps
  <2>4. CASE RepriceLine(i)
    BY <1>1, <2>4, RepriceStep
  <2> QED BY <1>2, <2>1, <2>2, <2>3, <2>4 DEF PatchAction
<1>3. CASE ServeSettings
  <2>1. form'.fetch = "read" /\ form'.got = rate /\ UNCHANGED <<patches, rate>>
    BY <1>3, CrewTypes DEF ServeSettings, FormType, server
  <2> QED BY <2>1 DEF FormInv
<1>4. CASE ShowSettings
  <2>1. form.fetch = "read" /\ form'.fetch = "none" /\ form'.shown = form.got /\ UNCHANGED <<patches, rate>>
    BY <1>4, CrewTypes DEF ShowSettings, FormType, server
  <2> QED BY <2>1 DEF FormInv
<1>5. CASE (\A i \in Ids : ~PatchAction(i)) /\ ~ServeSettings /\ ~ShowSettings
  <2>1. UNCHANGED form
    BY <1>5 DEF Next, PatchAction, Start, Submit, OpenEditor, ReadLive, Save, Reload,
       CloseEditor, AddLine, TouchLine, RemoveLine, StoreLine, RefuseLine, vars
  <2> QED BY <1>5, <2>1, OtherwiseUnchanged DEF FormInv
<1> QED BY <1>2, <1>3, <1>4, <1>5

\* When nothing is on its way the settings page shows the stored rate, whatever was
\* shown early, rolled back or lost, and however many PATCHes overlap.
THEOREM FormEndsOnStored == Spec => []FormShowsStored
<1>1. Init => CrewTypeOK /\ BringsRate /\ FormInv
  <2>1. Init => form.fetch = "none" /\ form.shown = rate
    BY DEF Init
  <2> QED BY <2>1, CrewInit DEF FormInv
<1>2. CrewTypeOK /\ BringsRate /\ FormInv /\ [Next]_vars => CrewTypeOK' /\ BringsRate' /\ FormInv'
  BY CrewTypeStep, BringsRateStep, FormStep
<1>3. FormInv => FormShowsStored
  BY DEF FormInv, FormShowsStored
<1> QED BY <1>1, <1>2, <1>3, PTL DEF Spec

-----------------------------------------------------------------------------
(* A refused save marks lines that need the rate.                           *)

MarkInv ==
  /\ ed.sent # {} => ed.open /\ (ed.busy \/ ed.error)
  /\ ed.live # NoRate => rate # NoRate
  /\ ed.sent \subseteq ed.touched
  /\ \A l \in Lines : l \notin ed.touched => ed.draft[l] = ed.saved[l]

\* A rate once set stays set.
LEMMA RateStays == ASSUME CrewTypeOK, BringsRate, [Next]_vars PROVE rate # NoRate => rate' # NoRate
<1>1. CASE \A i \in Ids : ~PatchAction(i)
  BY <1>1, OtherwiseUnchanged
<1>2. ASSUME NEW i \in Ids, PatchAction(i) PROVE rate # NoRate => rate' # NoRate
  <2>1. CASE Upsert(i)
    <3>1. rate' \in Rates
      BY <2>1, PatchSteps DEF BringsRate
    <3> QED BY <3>1, CrewRateAssumption
  <2>2. CASE ~Upsert(i)
    BY <1>2, <2>2 DEF PatchAction, SubmitRate, Succeed, Fail, ReadPrior, SelectDrafts, RepriceLine, Finish,
       Mishap, server
  <2> QED BY <2>1, <2>2
<1> QED BY <1>1, <1>2

LEMMA MarkStep == ASSUME CrewTypeOK, BringsRate, MarkInv, [Next]_vars PROVE MarkInv'
<1> USE CrewTypes
<1>1. CASE UNCHANGED ed
  BY <1>1, RateStays DEF MarkInv
<1>2. CASE OpenEditor \/ Reload \/ CloseEditor
  <2>1. ed'.sent = {} /\ ed'.draft = ed'.saved /\ ed'.live \in {NoRate, ed.live} /\ UNCHANGED rate
    <3>1. CASE OpenEditor BY <3>1 DEF OpenEditor, Closed, server
    <3>2. CASE Reload BY <3>2 DEF Reload, Closed, server
    <3>3. CASE CloseEditor BY <3>3 DEF CloseEditor, Closed, server
    <3> QED BY <1>2, <3>1, <3>2, <3>3
  <2> QED BY <2>1 DEF MarkInv
<1>3. CASE ReadLive
  BY <1>3 DEF ReadLive, MarkInv, EditorType, server
<1>4. CASE Save
  <2>1. /\ ed'.busy /\ ed'.open /\ ed'.sent \subseteq ed.touched /\ ed'.touched = ed.touched
        /\ ed'.live = ed.live /\ ed'.draft = ed.draft /\ ed'.saved = ed.saved /\ UNCHANGED rate
    BY <1>4 DEF Save, EditorType, server
  <2> QED BY <2>1 DEF MarkInv
<1>5. ASSUME NEW l \in Lines, AddLine(l) \/ TouchLine(l) \/ RemoveLine(l) PROVE MarkInv'
  <2>1. PICK price : Edit(l, price)
    BY <1>5 DEF AddLine, TouchLine, RemoveLine
  <2>2. /\ ed'.sent = ed.sent /\ ed'.open = ed.open /\ ed'.busy = ed.busy /\ ed'.error = ed.error
        /\ ed'.live = ed.live /\ ed'.touched = ed.touched \cup {l} /\ ed'.saved = ed.saved
        /\ \A k \in Lines \ {l} : ed'.draft[k] = ed.draft[k]
    BY <2>1 DEF Edit, EditorType
  <2>3. UNCHANGED rate
    BY <1>5 DEF AddLine, TouchLine, RemoveLine, server
  <2> QED BY <2>2, <2>3 DEF MarkInv
<1>6. ASSUME NEW l \in Lines, StoreLine(l) PROVE MarkInv'
  <2>1. /\ ed'.sent \subseteq ed.sent /\ ed'.open = ed.open /\ ed'.busy = ed.busy /\ ed'.error = ed.error
        /\ ed'.live = ed.live /\ ed'.touched = ed.touched /\ ed'.saved = ed.saved /\ ed'.draft = ed.draft
        /\ UNCHANGED rate
    BY <1>6 DEF StoreLine, EditorType
  <2> QED BY <2>1 DEF MarkInv
<1>7. ASSUME NEW l \in Lines, RefuseLine(l) PROVE MarkInv'
  <2>1. /\ ed'.sent \subseteq ed.sent /\ ed'.open = ed.open /\ ed'.error = ed.open /\ l \in ed.sent
        /\ ed'.live = ed.live /\ ed'.touched = ed.touched /\ ed'.saved = ed.saved /\ ed'.draft = ed.draft
        /\ UNCHANGED rate
    BY <1>7 DEF RefuseLine, EditorType, server
  <2> QED BY <2>1 DEF MarkInv
<1> QED BY <1>1, <1>2, <1>3, <1>4, <1>5, <1>6, <1>7 DEF Next, SubmitRate, Succeed, Fail, ReadPrior, Upsert,
       SelectDrafts, RepriceLine, Finish, Mishap, ServeSettings, ShowSettings, Start, Submit, vars

LEMMA RefusalMarks ==
  ASSUME CrewTypeOK, MarkInv, NEW l \in Lines, RefuseLine(l), ~ed.error, ed'.error
  PROVE  /\ ed'.marked # {}
         /\ \A k \in ed'.marked : KindOf[k] = "hours" /\ k \in ed.touched /\ ed.draft[k] = Blank
<1> USE CrewTypes
<1>1. /\ l \in ed.sent /\ l \in ed.touched /\ ed.busy
      /\ KindOf[l] = "hours" /\ rate = NoRate /\ ed.draft[l] = Blank
  BY DEF RefuseLine, Refused, MarkInv
<1>2. ed'.marked = IF ed.saved[l] # Absent THEN {l} ELSE UnsavedDerived(ed.saved, ed.draft, ed.live)
  BY <1>1 DEF RefuseLine, EditorType
<1>3. CASE ed.saved[l] # Absent
  BY <1>1, <1>2, <1>3
<1>4. CASE ed.saved[l] = Absent
  <2>1. ed.live = NoRate
    BY <1>1 DEF MarkInv
  <2>2. UnsavedDerived(ed.saved, ed.draft, ed.live) =
          {k \in Lines : /\ ed.saved[k] = Absent /\ ed.draft[k] # Absent /\ KindOf[k] = "hours"
                         /\ ed.draft[k] = Blank}
    BY <2>1 DEF UnsavedDerived
  <2>3. l \in UnsavedDerived(ed.saved, ed.draft, ed.live)
    BY <1>1, <1>4, <2>2, CrewRateAssumption
  <2> QED BY <1>2, <1>4, <2>2, <2>3 DEF MarkInv
<1> QED BY <1>3, <1>4

\* The lines marked after a refused save are touched ones that have no price of their
\* own and need the rate, and there is one: for any lines, and with any overlap.
THEOREM MarksAreRefused == Spec => MarkedAreRefused
<1>1. Init => CrewTypeOK /\ BringsRate /\ MarkInv
  <2>1. Init => ed = Closed
    BY DEF Init
  <2>2. ed = Closed => MarkInv
    BY DEF Closed, MarkInv
  <2> QED BY <2>1, <2>2, CrewInit
<1>2. CrewTypeOK /\ BringsRate /\ MarkInv /\ [Next]_vars => CrewTypeOK' /\ BringsRate' /\ MarkInv'
  BY CrewTypeStep, BringsRateStep, MarkStep
<1>3. CrewTypeOK /\ MarkInv /\ [Next]_vars =>
        [~ed.error /\ ed'.error =>
           /\ ed'.marked # {}
           /\ \A l \in ed'.marked : KindOf[l] = "hours" /\ l \in ed.touched /\ ed.draft[l] = Blank]_vars
  <2> SUFFICES ASSUME CrewTypeOK, MarkInv, [Next]_vars, ~ed.error, ed'.error
               PROVE  /\ ed'.marked # {}
                      /\ \A l \in ed'.marked : KindOf[l] = "hours" /\ l \in ed.touched /\ ed.draft[l] = Blank
    OBVIOUS
  <2> USE CrewTypes
  <2>1. CASE \E l \in Lines : RefuseLine(l)
    BY <2>1, RefusalMarks
  <2>2. CASE ~\E l \in Lines : RefuseLine(l)
    <3>1. ~(OpenEditor \/ Reload \/ CloseEditor \/ Save \/ ReadLive)
      <4>1. ~Closed.error
        BY DEF Closed
      <4>2. ~OpenEditor BY DEF OpenEditor, Closed
      <4>3. ~Reload BY DEF Reload, Closed
      <4>4. ~CloseEditor BY <4>1 DEF CloseEditor
      <4>5. ~Save BY DEF Save, EditorType
      <4>6. ~ReadLive BY DEF ReadLive, EditorType
      <4> QED BY <4>2, <4>3, <4>4, <4>5, <4>6
    <3>2. \A l \in Lines : ~(AddLine(l) \/ TouchLine(l) \/ RemoveLine(l) \/ StoreLine(l))
      BY DEF AddLine, TouchLine, RemoveLine, StoreLine, Edit, EditorType
    <3>3. UNCHANGED ed
      BY <2>2, <3>1, <3>2 DEF Next, SubmitRate, Succeed, Fail, ReadPrior, Upsert,
         SelectDrafts, RepriceLine, Finish, Mishap, ServeSettings, ShowSettings, Start, Submit, vars
    <3> QED BY <3>3
  <2> QED BY <2>1, <2>2
<1> QED BY <1>1, <1>2, <1>3, PTL DEF Spec, MarkedAreRefused

-----------------------------------------------------------------------------
(* A computed price is the formula's at the rate in force.                  *)

\* One PATCH is served at a time, and none while a save is.
Alone ==
  /\ \A i, j \in Ids : Serving(i) /\ Serving(j) => i = j
  /\ \A i \in Ids : Serving(i) => ed.sent = {} /\ ~ed.busy
  /\ \A i \in Ids : patches[i].at = "prior" => patches[i].prior = rate
  /\ \A i \in Ids : patches[i].at \in {"select", "reprice"} =>
       patches[i].prior \in Rates /\ rate = patches[i].new
  /\ \A i \in Ids : patches[i].at = "reprice" /\ patches[i].todo # {} => est.status \in Open

\* A PATCH that is not being served, or goes on being served.
LEMMA AloneKept ==
  ASSUME CrewTypeOK, Alone, NEW i \in Ids, Moves(i), UNCHANGED <<rate, ed, est>>,
         Serving(i)' => Serving(i),
         patches'[i].at # "prior",
         patches'[i].at \in {"select", "reprice"} => patches'[i].prior \in Rates /\ rate = patches'[i].new,
         patches'[i].at = "reprice" /\ patches'[i].todo # {} => est.status \in Open
  PROVE  Alone'
<1>1. \A j \in Ids : Serving(j)' => Serving(j)
  BY DEF Moves, Serving
<1>2. \A j \in Ids \ {i} : patches'[j] = patches[j]
  BY DEF Moves
<1>3. /\ \A j, k \in Ids : Serving(j)' /\ Serving(k)' => j = k
      /\ \A j \in Ids : Serving(j)' => ed'.sent = {} /\ ~ed'.busy
  BY <1>1 DEF Alone
<1> QED BY <1>2, <1>3 DEF Alone

LEMMA AlonePatches ==
  ASSUME ~Overlap, CrewTypeOK, BringsRate, Alone, NEW i \in Ids, PatchAction(i)
  PROVE  Alone'
<1> USE CrewTypes
<1>1. CASE \E n \in Rates : SubmitRate(i, n)
  <2>1. Moves(i) /\ patches'[i].at = "sent" /\ UNCHANGED <<rate, ed, est>>
    BY <1>1, SubmitStep DEF SubmitRate, server
  <2>2. ~Serving(i)'
    BY <2>1 DEF Serving
  <2> QED BY <2>1, <2>2, AloneKept
<1>2. CASE Succeed(i) \/ Fail(i) \/ Finish(i) \/ Mishap(i)
  <2>1. Moves(i) /\ patches'[i].at \in {"settled", "done", "failed"}
    BY <1>2, PatchSteps
  <2>2. UNCHANGED <<rate, ed, est>> /\ ~Serving(i)'
    BY <1>2, <2>1 DEF Succeed, Fail, Finish, Mishap, server, Serving
  <2> QED BY <2>1, <2>2, AloneKept
<1>3. CASE ReadPrior(i)
  <2>1. /\ Moves(i) /\ patches'[i].at = "prior" /\ patches'[i].prior = rate /\ UNCHANGED <<rate, ed, est>>
        /\ (\A j \in Ids : ~Serving(j)) /\ ~ed.busy /\ ed.sent = {}
    BY <1>3, PatchSteps DEF ReadPrior, Idle, server
  <2>2. \A j \in Ids : Serving(j)' => j = i
    BY <2>1 DEF Moves, Serving
  <2>3. \A j \in Ids \ {i} : patches'[j] = patches[j]
    BY <2>1 DEF Moves
  <2>4. \A j \in Ids : patches'[j].at \in {"select", "reprice", "prior"} => j = i
    BY <2>2 DEF Serving
  <2> QED BY <2>1, <2>2, <2>4 DEF Alone
<1>4. CASE Upsert(i)
  <2>1. /\ Moves(i) /\ patches[i].at = "prior" /\ rate' = patches[i].new /\ UNCHANGED <<ed, est>>
        /\ \/ patches'[i].at = "done"
           \/ /\ patches[i].prior # NoRate
              /\ patches'[i].at = "select" /\ patches'[i].todo = {}
              /\ patches'[i].new = patches[i].new /\ patches'[i].prior = patches[i].prior
    BY <1>4, PatchSteps DEF Upsert
  <2>2. Serving(i) /\ patches[i].prior \in Rate
    BY <2>1 DEF Serving, PatchType
  <2>3. \A j \in Ids : Serving(j)' => j = i
    BY <2>1, <2>2 DEF Moves, Serving, Alone
  <2>4. \A j \in Ids : patches'[j].at \in {"select", "reprice", "prior"} => j = i
    BY <2>3 DEF Serving
  <2>5. ed'.sent = {} /\ ~ed'.busy
    BY <2>1, <2>2 DEF Alone
  <2> QED BY <2>1, <2>2, <2>3, <2>4, <2>5 DEF Alone, Rate
<1>5. CASE SelectDrafts(i)
  <2>1. /\ Moves(i) /\ patches[i].at = "select" /\ patches'[i].at = "reprice" /\ UNCHANGED <<rate, ed, est>>
        /\ patches'[i].new = patches[i].new /\ patches'[i].prior = patches[i].prior
        /\ est.status \notin Open => patches'[i].todo = {}
    BY <1>5, PatchSteps DEF SelectDrafts, server
  <2>2. Serving(i)
    BY <2>1 DEF Serving
  <2>3. patches[i].prior \in Rates /\ rate = patches[i].new
    BY <2>1 DEF Alone
  <2> QED BY <2>1, <2>2, <2>3, AloneKept
<1>6. CASE RepriceLine(i)
  <2>1. PICK l \in patches[i].todo :
          /\ Moves(i) /\ patches[i].at = "reprice" /\ patches'[i].at = "reprice"
          /\ patches'[i].new = patches[i].new /\ patches'[i].prior = patches[i].prior
    BY <1>6, RepriceStep
  <2>2. UNCHANGED <<rate, ed, est>> /\ Serving(i)
    BY <1>6, <2>1 DEF RepriceLine, Serving
  <2>3. patches[i].prior \in Rates /\ rate = patches[i].new /\ est.status \in Open
    BY <2>1 DEF Alone
  <2> QED BY <2>1, <2>2, <2>3, AloneKept
<1> QED BY <1>1, <1>2, <1>3, <1>4, <1>5, <1>6 DEF PatchAction

LEMMA AloneStep == ASSUME ~Overlap, CrewTypeOK, BringsRate, Alone, [Next]_vars PROVE Alone'
<1> USE CrewTypes
<1>1. ASSUME \A i \in Ids : ~PatchAction(i), ed'.sent \subseteq ed.sent, ed'.busy => ed.busy, UNCHANGED est
      PROVE  Alone'
  <2>1. UNCHANGED <<patches, rate>>
    BY <1>1, OtherwiseUnchanged
  <2> QED BY <1>1, <2>1 DEF Alone, Serving
<1>2. ASSUME \A i \in Ids : ~PatchAction(i), \A i \in Ids : ~Serving(i) PROVE Alone'
  <2>1. UNCHANGED <<patches, rate>>
    BY <1>2, OtherwiseUnchanged
  <2>2. \A i \in Ids : patches[i].at \notin {"prior", "select", "reprice"}
    BY <1>2 DEF Serving
  <2> QED BY <1>2, <2>1, <2>2 DEF Alone, Serving
<1>3. CASE \E i \in Ids : PatchAction(i)
  BY <1>3, AlonePatches
<1>4. ASSUME \A i \in Ids : ~PatchAction(i) PROVE Alone'
  <2>1. CASE Start \/ Submit \/ Save
    BY <1>2, <1>4, <2>1 DEF Start, Submit, Save, Idle
  <2>2. CASE UNCHANGED <<ed, est>>
    BY <1>1, <1>4, <2>2
  <2>3. CASE OpenEditor \/ Reload \/ CloseEditor
    <3>1. ed'.sent = {} /\ ~ed'.busy /\ UNCHANGED est
      <4>1. CASE OpenEditor BY <4>1 DEF OpenEditor, Closed, server
      <4>2. CASE Reload BY <4>2 DEF Reload, Closed, server
      <4>3. CASE CloseEditor BY <4>3 DEF CloseEditor, Closed, server
      <4> QED BY <2>3, <4>1, <4>2, <4>3
    <3> QED BY <1>1, <1>4, <3>1
  <2>4. CASE ReadLive
    BY <1>1, <1>4, <2>4 DEF ReadLive, EditorType, server
  <2>5. ASSUME NEW l \in Lines, AddLine(l) \/ TouchLine(l) \/ RemoveLine(l) PROVE Alone'
    BY <1>1, <1>4, <2>5 DEF AddLine, TouchLine, RemoveLine, Edit, EditorType, server
  <2>6. ASSUME NEW l \in Lines, StoreLine(l) PROVE Alone'
    BY <1>1, <1>4, <2>6 DEF StoreLine, EditorType
  <2>7. ASSUME NEW l \in Lines, RefuseLine(l) PROVE Alone'
    BY <1>1, <1>4, <2>7 DEF RefuseLine, EditorType, server
  <2> QED BY <1>4, <2>1, <2>2, <2>3, <2>4, <2>5, <2>6, <2>7 DEF Next, PatchAction, ServeSettings, ShowSettings, server, vars
<1> QED BY <1>3, <1>4

\* The rate a computed price goes by.
InForce == IF est.status \in Open THEN rate ELSE Resolved(est.snap, rate)

\* While the drafts are repriced, the lines still to come are at the old rate.
PriceInv ==
  /\ \A l \in Lines : madeBy[l] = "rate" => KindOf[l] = "hours" /\ rate # NoRate
  /\ est.status = "in_progress" => est.snap = NoRate
  /\ est.status \notin Open /\ est.snap = NoRate => \A l \in Lines : madeBy[l] # "rate"
  /\ ~died => \A l \in Lines : madeBy[l] = "rate" =>
       /\ (\A i \in Ids : patches[i].at \notin {"select", "reprice"}) => row[l] = Sell(InForce)
       /\ \A i \in Ids : patches[i].at = "select" =>
            row[l] = Sell(IF est.status \in Open THEN patches[i].prior ELSE est.snap)
       /\ \A i \in Ids : patches[i].at = "reprice" /\ l \notin patches[i].todo => row[l] = Sell(InForce)
       /\ \A i \in Ids : patches[i].at = "reprice" /\ l \in patches[i].todo => row[l] # Absent

Repricing(i) == patches[i].at \in {"select", "reprice"}

\* Steps away from repricing that keep what prices go by.
LEMMA PriceKept ==
  ASSUME CrewTypeOK, PriceInv, UNCHANGED <<est, row, madeBy>>, rate' # rate => rate = NoRate,
         rate # NoRate => rate' # NoRate,
         died => died',
         \A i \in Ids : Repricing(i)' => Repricing(i) /\ patches'[i] = patches[i],
         \A i \in Ids : Repricing(i) => Repricing(i)' \/ died'
  PROVE  PriceInv'
<1>1. (\E l \in Lines : madeBy[l] = "rate") => rate' = rate
  BY DEF PriceInv
<1>2. rate' = rate => InForce' = InForce
  BY DEF InForce, Resolved
<1> QED BY <1>1, <1>2 DEF PriceInv, Repricing

\* Steps while nothing is repriced.
LEMMA PriceQuiet ==
  ASSUME CrewTypeOK, PriceInv, UNCHANGED <<patches, rate, died>>, \A i \in Ids : ~Repricing(i),
         est'.status = "in_progress" => est'.snap = NoRate,
         est'.status \notin Open /\ est'.snap = NoRate => \A l \in Lines : madeBy'[l] # "rate",
         \A l \in Lines : madeBy'[l] = "rate" => KindOf[l] = "hours" /\ rate # NoRate,
         ~died => \A l \in Lines : madeBy'[l] = "rate" => row'[l] = Sell(InForce)'
  PROVE  PriceInv'
  BY DEF PriceInv, Repricing

LEMMA PricePatches ==
  ASSUME CrewTypeOK, BringsRate, Alone, PriceInv, NEW i \in Ids, PatchAction(i)
  PROVE  PriceInv'
<1> USE CrewTypes
<1>1. CASE (\E n \in Rates : SubmitRate(i, n)) \/ Succeed(i) \/ Fail(i) \/ ReadPrior(i)
  <2>1. /\ Moves(i) /\ patches[i].at \in {"idle", "done", "failed", "sent"}
        /\ patches'[i].at \in {"sent", "settled", "prior"}
    BY <1>1, SubmitStep, PatchSteps
  <2>2. UNCHANGED <<rate, est, row, madeBy, died>>
    BY <1>1 DEF SubmitRate, Succeed, Fail, ReadPrior, server
  <2>3. \A j \in Ids : Repricing(j)' => Repricing(j) /\ patches'[j] = patches[j]
    BY <2>1 DEF Moves, Repricing
  <2>4. \A j \in Ids : Repricing(j) => Repricing(j)'
    BY <2>1 DEF Moves, Repricing
  <2> QED BY <2>2, <2>3, <2>4, PriceKept
<1>2. CASE Mishap(i)
  <2>1. /\ Moves(i) /\ patches'[i].at = "failed" /\ UNCHANGED <<rate, est, row, madeBy>>
        /\ died' = (died \/ Repricing(i))
    BY <1>2, PatchSteps DEF Mishap, server, Repricing
  <2>2. \A j \in Ids : Repricing(j)' => Repricing(j) /\ patches'[j] = patches[j]
    BY <2>1 DEF Moves, Repricing
  <2>3. \A j \in Ids : Repricing(j) => Repricing(j)' \/ died'
    BY <2>1 DEF Moves, Repricing
  <2> QED BY <2>1, <2>2, <2>3, PriceKept
<1>3. CASE Upsert(i)
  <2>1. /\ Moves(i) /\ patches[i].at = "prior" /\ rate' = patches[i].new /\ UNCHANGED <<est, row, madeBy, died>>
        /\ \/ /\ patches[i].prior \in {NoRate, patches[i].new} /\ patches'[i].at = "done"
           \/ /\ patches[i].prior \notin {NoRate, patches[i].new}
              /\ patches'[i].at = "select" /\ patches'[i].prior = patches[i].prior
    BY <1>3, PatchSteps DEF Upsert
  <2>2. patches[i].prior = rate /\ patches[i].new \in Rates /\ Serving(i)
    BY <2>1 DEF Alone, BringsRate, Serving
  <2>3. rate' # NoRate
    BY <2>1, <2>2, CrewRateAssumption
  <2>4. \A j \in Ids : ~Repricing(j)
    BY <2>1, <2>2 DEF Alone, Serving, Repricing
  <2>5. \A j \in Ids \ {i} : ~Repricing(j)'
    BY <2>1, <2>4 DEF Moves, Repricing
  <2>6. CASE patches'[i].at = "done"
    <3>1. \A j \in Ids : ~Repricing(j)'
      BY <2>5, <2>6 DEF Repricing
    <3> QED BY <2>1, <2>2, <2>3, <2>4, <2>6, <3>1, PriceKept
  <2>7. CASE patches'[i].at = "select" /\ patches'[i].prior = patches[i].prior
    <3>1. \A l \in Lines : ~died /\ madeBy[l] = "rate" =>
             row[l] = Sell(IF est.status \in Open THEN rate ELSE est.snap)
      BY <2>4 DEF PriceInv, InForce, Resolved, Repricing
    <3>2. \A j \in Ids : patches'[j].at \in {"select", "reprice"} => j = i
      BY <2>5 DEF Repricing
    <3> QED BY <2>1, <2>2, <2>3, <2>7, <3>1, <3>2 DEF PriceInv
  <2> QED BY <2>1, <2>6, <2>7
<1>4. CASE SelectDrafts(i)
  <2>1. /\ Moves(i) /\ patches[i].at = "select" /\ patches'[i].at = "reprice"
        /\ patches'[i].todo = IF est.status \notin Open THEN {}
               ELSE {l \in Lines : KindOf[l] = "hours" /\ row[l] = Sell(patches[i].prior)}
        /\ UNCHANGED <<rate, est, row, madeBy, died>>
    BY <1>4, PatchSteps DEF SelectDrafts, server
  <2>2. \A j \in Ids : patches'[j].at \in {"select", "reprice"} => j = i
    BY <2>1 DEF Moves, Alone, Serving
  <2>3. patches[i].prior \in Rates
    BY <2>1 DEF Alone
  <2>4. InForce' = InForce
    BY <2>1 DEF InForce, Resolved
  <2>5. ASSUME NEW l \in Lines, ~died, madeBy[l] = "rate"
        PROVE  IF est.status \in Open THEN l \in patches'[i].todo /\ row[l] # Absent
                                      ELSE row[l] = Sell(InForce)
    <3>1. KindOf[l] = "hours" /\ row[l] = Sell(IF est.status \in Open THEN patches[i].prior ELSE est.snap)
      BY <2>1, <2>5 DEF PriceInv
    <3>2. est.status \notin Open => est.snap # NoRate
      BY <2>5 DEF PriceInv
    <3> QED BY <2>1, <2>3, <3>1, <3>2, SellType DEF InForce, Resolved
  <2>6. ASSUME NEW l \in Lines, ~died', madeBy'[l] = "rate"
        PROVE  /\ l \notin patches'[i].todo => row'[l] = Sell(InForce')
               /\ l \in patches'[i].todo => row'[l] # Absent
    BY <2>1, <2>4, <2>5, <2>6
  <2> QED BY <2>1, <2>2, <2>6 DEF PriceInv
<1>5. CASE RepriceLine(i)
  <2>1. PICK l \in patches[i].todo :
          /\ Moves(i) /\ patches[i].at = "reprice" /\ patches'[i].at = "reprice"
          /\ patches'[i].todo = patches[i].todo \ {l}
          /\ row' = [row EXCEPT ![l] = IF @ = Absent THEN @ ELSE Sell(patches[i].new)]
    BY <1>5, RepriceStep
  <2>2. UNCHANGED <<rate, est, madeBy, died>> /\ l \in Lines
    BY <1>5, <2>1 DEF RepriceLine, PatchType
  <2>3. \A j \in Ids : patches'[j].at \in {"select", "reprice"} => j = i
    BY <2>1 DEF Moves, Alone, Serving
  <2>4. rate = patches[i].new /\ InForce = rate /\ rate \in Rates
    BY <2>1 DEF Alone, InForce, BringsRate
  <2>5. InForce' = InForce
    BY <2>2 DEF InForce, Resolved
  <2>6. ASSUME NEW k \in Lines, ~died', madeBy'[k] = "rate"
        PROVE  /\ k \notin patches'[i].todo => row'[k] = Sell(InForce)
               /\ k \in patches'[i].todo => row'[k] # Absent
    BY <2>1, <2>2, <2>4, <2>6 DEF PriceInv
  <2> QED BY <2>1, <2>2, <2>3, <2>5, <2>6 DEF PriceInv
<1>6. CASE Finish(i)
  <2>1. /\ Moves(i) /\ patches[i].at = "reprice" /\ patches[i].todo = {} /\ patches'[i].at = "done"
        /\ UNCHANGED <<rate, est, row, madeBy, died>>
    BY <1>6, PatchSteps DEF Finish, server
  <2>2. \A j \in Ids : ~Repricing(j)'
    BY <2>1 DEF Moves, Alone, Serving, Repricing
  <2>3. \A l \in Lines : ~died /\ madeBy[l] = "rate" => row[l] = Sell(InForce)
    BY <2>1 DEF PriceInv
  <2>4. InForce' = InForce
    BY <2>1 DEF InForce, Resolved
  <2> QED BY <2>1, <2>2, <2>3, <2>4 DEF PriceInv, Repricing
<1> QED BY <1>1, <1>2, <1>3, <1>4, <1>5, <1>6 DEF PatchAction

LEMMA PriceStep == ASSUME ~Overlap, CrewTypeOK, BringsRate, Alone, PriceInv, [Next]_vars PROVE PriceInv'
<1> USE CrewTypes
<1>1. CASE \E i \in Ids : PatchAction(i)
  BY <1>1, PricePatches
<1>2. ASSUME \A i \in Ids : ~PatchAction(i) PROVE PriceInv'
  <2>1. UNCHANGED <<patches, rate, died>>
    BY <1>2, OtherwiseUnchanged
  <2>2. ASSUME UNCHANGED <<est, row, madeBy>> PROVE PriceInv'
    BY <2>1, <2>2, PriceKept DEF Repricing
  <2>3. (\A i \in Ids : ~Serving(i)) => \A i \in Ids : ~Repricing(i)
    BY DEF Serving, Repricing
  <2>4. (\A i \in Ids : ~Repricing(i)) /\ ~died => \A l \in Lines : madeBy[l] = "rate" => row[l] = Sell(InForce)
    BY DEF PriceInv, Repricing
  <2>5. CASE Start
    <3>1. /\ est.status = "queued" /\ est'.status = "in_progress" /\ est'.snap = NoRate
          /\ UNCHANGED <<row, madeBy>> /\ \A i \in Ids : ~Repricing(i)
      BY <2>3, <2>5 DEF Start, Idle
    <3>2. InForce' = InForce
      BY <2>1, <3>1 DEF InForce, Open
    <3> QED BY <2>1, <2>4, <3>1, <3>2, PriceQuiet DEF PriceInv, Open
  <2>6. CASE Submit
    <3>1. /\ est.status = "in_progress" /\ est'.status = "pending_approval" /\ est.snap = NoRate
          /\ est'.snap = rate /\ UNCHANGED <<row, madeBy>> /\ \A i \in Ids : ~Repricing(i)
      BY <2>3, <2>6 DEF Submit, Idle, PriceInv
    <3>2. InForce' = InForce
      BY <2>1, <3>1 DEF InForce, Open, Resolved
    <3> QED BY <2>1, <2>4, <3>1, <3>2, PriceQuiet DEF PriceInv, Open
  <2>7. ASSUME NEW l \in Lines, StoreLine(l) PROVE PriceInv'
    <3>1. UNCHANGED est /\ l \in ed.sent
      BY <2>7 DEF StoreLine
    <3>2. \A i \in Ids : ~Repricing(i)
      BY <2>3, <3>1 DEF Alone
    <3>3. /\ \A k \in Lines \ {l} : row'[k] = row[k] /\ madeBy'[k] = madeBy[k]
          /\ madeBy'[l] = "rate" =>
               KindOf[l] = "hours" /\ rate # NoRate /\ est.status \in Open /\ row'[l] = Sell(rate)
      BY <2>7, StoreTypes
    <3>4. InForce' = InForce /\ (est.status \in Open => InForce = rate)
      BY <2>1, <3>1 DEF InForce, Resolved
    <3>5. ~died => \A k \in Lines : madeBy'[k] = "rate" => row'[k] = Sell(InForce)
      BY <2>4, <3>2, <3>3, <3>4
    <3>6. \A k \in Lines : madeBy'[k] = "rate" => KindOf[k] = "hours" /\ rate # NoRate
      BY <3>3 DEF PriceInv
    <3>7. est.status \notin Open /\ est.snap = NoRate => \A k \in Lines : madeBy'[k] # "rate"
      BY <3>3 DEF PriceInv
    <3>8. est.status = "in_progress" => est.snap = NoRate
      BY DEF PriceInv
    <3> QED BY <2>1, <3>1, <3>2, <3>4, <3>5, <3>6, <3>7, <3>8, PriceQuiet
  <2>8. CASE ~Start /\ ~Submit /\ \A l \in Lines : ~StoreLine(l)
    <3>1. UNCHANGED <<est, row, madeBy>>
      BY <1>2, <2>8 DEF Next, PatchAction, ServeSettings, ShowSettings, OpenEditor, ReadLive, Save, Reload,
         CloseEditor, AddLine, TouchLine, RemoveLine, RefuseLine, server, vars
    <3> QED BY <2>2, <3>1
  <2> QED BY <2>5, <2>6, <2>7, <2>8
<1> QED BY <1>1, <1>2

\* Where the server works on one request at a time, a price it computed is, once no
\* repricing runs, the formula's at the branch's rate while the estimate is open and at
\* its frozen rate under review, for every line, rate and number of rate changes.
THEOREM PricesFollow == ASSUME ~Overlap PROVE Spec => []PricesFollowRate
<1> DEFINE CrewInv == CrewTypeOK /\ BringsRate /\ Alone /\ PriceInv
<1>1. Init => CrewInv
  <2> SUFFICES ASSUME Init PROVE Alone /\ PriceInv
    BY CrewInit
  <2>1. \A i \in Ids : patches[i].at = "idle"
    BY DEF Init, NoOne
  <2>2. Alone
    BY <2>1 DEF Alone, Serving
  <2>3. est.status = "queued" /\ est.snap = rate
    BY DEF Init
  <2>4. \A l \in Lines : madeBy[l] = "rate" => KindOf[l] = "hours" /\ rate # NoRate /\ row[l] = Sell(rate)
    BY DEF Init
  <2>5. InForce = rate
    BY <2>3 DEF InForce, Open
  <2> QED BY <2>1, <2>2, <2>3, <2>4, <2>5 DEF PriceInv, Open
<1>2. CrewInv /\ [Next]_vars => CrewInv'
  BY CrewTypeStep, BringsRateStep, AloneStep, PriceStep
<1>3. CrewInv => PricesFollowRate
  <2> SUFFICES ASSUME CrewInv, Settled, ~died, NEW l \in Lines, madeBy[l] = "rate" PROVE row[l] = Sell(InForce)
    BY DEF PricesFollowRate, InForce
  <2>1. \A i \in Ids : patches[i].at \notin {"select", "reprice"}
    BY DEF Settled, Serving
  <2> QED BY <2>1 DEF PriceInv
<1> QED BY <1>1, <1>2, <1>3, PTL DEF Spec

===============================================================================
