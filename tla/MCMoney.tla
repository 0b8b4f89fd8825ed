-------------------------------- MODULE MCMoney --------------------------------
(* The places where numbers are entered and computed, side by side: a run        *)
(* explores one of them.  A ladder of three tiers, as migration 065 seeds it, in *)
(* small numbers, with deals that end inside, on and across the tier boundaries; *)
(* a bid of two lines in two sections; the takeoff tab, its scan, its cells and  *)
(* its panel apart; the discrepancy review; the materials calculator.            *)
EXTENDS CommissionYear, TLC

CONSTANTS
  \* the bid
  Slots, SquareFeet, Kits, Defaults, Sells, Costs, Quantities, CrewRate, Others, None, Overlap, MaxEdits,
  \* the takeoff tab
  Scans, Numbers, Negative, window, MaxUploads, MaxVisits, MaxClicks, MaxFaults,
  \* the discrepancy review and the materials calculator
  Lines, Amounts, Percents, Default, Materials, BuiltIn, Configured, Depths, Measures, Overshoot, MaxKeys, MaxInputs,
  \* model values
  d1, d2, d3, plan, redrawn, l1, l2, rock, mulch, fabric, soil

VARIABLES
  scene,     \* what is explored
  type, lines, memo, stored, recompute, project, edits,
  estimate, onFile, openEstimate, draft, scan, load, uploads, uploadState, patches, requests, jobs, panel,
  late, touched, mishaps,
  tableStored, tableLines, threshold, sent, typed, keys, failures, rows, inputs

Bid == INSTANCE BidMoney

Tab == INSTANCE TakeoffTab WITH
  Blank <- None, Windows <- {window}, Overlap <- TRUE, MaxEdits <- MaxVisits, MaxMishaps <- MaxFaults

Review == INSTANCE QuantityReview WITH
  Quantities <- Amounts, MaxMishaps <- MaxFaults, stored <- tableStored, lines <- tableLines, mishaps <- failures

ASSUME MoneyAssumption == Bid!BidAssumption /\ Tab!TabAssumption /\ Review!ReviewAssumption
ASSUME CardsAssumption == Review!CardsAgree

MCDeals == {d1, d2, d3}
MCValue == d1 :> 3 @@ d2 :> 4 @@ d3 :> 6
MCTiers == {[min |-> 0, max |-> 4, rate |-> 4],
            [min |-> 4, max |-> 8, rate |-> 8],
            [min |-> 8, max |-> NoCeiling, rate |-> 12]}
MCSquareFeet == <<1, 3>>
MCKits == {[irrigation |-> TRUE, quotes |-> <<1, 2>>, sell |-> 3, hours |-> None],
           [irrigation |-> FALSE, quotes |-> <<>>, sell |-> 1, hours |-> 3]}
\* Four of the seeded materials: by the table, by the cubic yard, by the roll, compacted.
MCRow == [compute |-> "div", depth |-> 0, size |-> 300, table |-> <<>>, compaction |-> 0, sell |-> 2]
MCRock(depth) == [MCRow EXCEPT !.compute = "aggregate", !.depth = depth, !.table = 2 :> 120 @@ 3 :> 80, !.sell = 3]
MCYard(depth, compaction) == [MCRow EXCEPT !.compute = "yard", !.depth = depth, !.compaction = compaction]
MCBuiltIn == rock :> MCRock(2) @@ mulch :> MCYard(2, 0)
MCConfigured == rock :> MCRock(3) @@ fabric :> MCRow @@ soil :> MCYard(6, 15)
\* The entries of this instance for which binary64 ends above a whole number of units:
\* 3000 * 1.1 / 300 = 11.000000000000002, and 3240 * 1.1 * d / 324 for d = 2, 3 and 5.
MCOvershoot == {<<3000, 10, [of |-> 300, per |-> 1, compaction |-> 0]>>} \cup
               {<<3240, 10, [of |-> 324, per |-> d, compaction |-> 0]>> : d \in {2, 3, 5}}
MCDefaults == {<<>>, <<[kind |-> "labor", qty |-> 3, cost |-> 1], [kind |-> "labor", qty |-> 1, cost |-> 1],
                      [kind |-> "material", qty |-> 3, cost |-> 2]>>}
MCOthers == {[total |-> 5, ls |-> 2, ir |-> 3, rebid |-> TRUE, lsEstimator |-> "ann", irrEstimator |-> None]}

bid == <<type, lines, memo, stored, recompute, project, edits>>
tab == <<estimate, onFile, openEstimate, draft, scan, load, uploads, uploadState, patches, requests, jobs, panel,
         late, touched, mishaps>>
review == <<tableStored, tableLines, threshold, sent, typed, keys, failures, rows, inputs>>

\* What an install estimate, and what an approved one, has to do with a scene.
MoneyInit ==
  /\ YearInit /\ Bid!Init /\ Tab!Init /\ Review!Init
  /\ scene \in {"commissions", "bid", "scan", "cells", "panel", "table", "cards"}
  /\ scene # "bid" => type = "install"
  /\ scene \notin {"scan", "cells"} => estimate.status = "approved"
  /\ scene # "scan" => onFile = <<>>

HandOff == \E s \in 1..2 : Tab!AttachHandOff(s) \/ Tab!Execute(s) \/ Tab!Answered(s) \/ Tab!PatchFails(s)
MoneyNext ==
  /\ UNCHANGED scene
  /\ \/ scene = "commissions" /\ YearNext /\ UNCHANGED <<bid, tab, review>>
     \/ scene = "bid" /\ Bid!Next /\ UNCHANGED <<yearVars, tab, review>>
     \/ /\ UNCHANGED <<yearVars, bid, review>>
        /\ \/ scene = "scan" /\ (Tab!ScanStep \/ HandOff)
           \/ scene = "cells" /\ Tab!PatchStep
           \/ scene = "panel" /\ Tab!PanelStep
     \/ /\ UNCHANGED <<yearVars, bid, tab>>
        /\ \/ scene = "table" /\ Review!TableStep
           \/ scene = "cards" /\ Review!CardStep
MoneySpec == MoneyInit /\ [][MoneyNext]_<<scene, yearVars, bid, tab, review>>

\* The editor, the margin panel and the contract say the same of one estimate, no cent is
\* lost when a sum is taken apart, and the tracker splits the lines that are stored.
BidIsTrue == Bid!ViewsAgree /\ Bid!PartsAddUp /\ Bid!TrackerFollowsLines
\* What was typed into the takeoff tab and the review is what is stored, and a window pays
\* for one takeoff, once, but for drafts that come late and orders that cross or break off.
EntriesAreStored ==
  Tab!SavedScanIsStored /\ Tab!TypedOnceIsStored /\ Review!KeystrokesLand /\ Tab!OneTakeoffPaid
\* What is ordered covers what was measured, by less than a unit but for what doubles add.
OrdersCover == Review!OrdersCover
================================================================================
