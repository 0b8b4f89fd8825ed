---------------------------- MODULE ApprovalReview ----------------------------
(***************************************************************************)
(* Approving an estimate: the approval queue with its review drawer, the   *)
(* handoff tab, the approval ladder an administrator edits, and the server *)
(* that stores the levers, their audit rows and the hand-back.             *)
(*                                                                         *)
(* An approver looks at a copy of the estimate and of the ladder, both     *)
(* read once.  Saving is a series of requests (value and margin, one audit *)
(* row per lever, the approval), each committed by itself; the server      *)
(* checks the ceiling of the approver at the last of them only.            *)
(***************************************************************************)
EXTENDS Integers, Sequences, FiniteSets

CONSTANTS
  Desks,         \* approvers at their screens
  RoleOf,        \* users.role of each
  Canonical,     \* APPROVAL_ROLE_ORDER
  Tabs,          \* ROLE_TABS, the roles the queue can be viewed as
  Order, Floor,  \* tier_order and min_value_cents of each role
  SeedCeiling,   \* max_value_cents of each role, or Unbounded
  Unbounded,
  Types, Type,   \* estimate types; the one of the estimate
  Amounts,       \* ceilings an administrator types
  Complexities, Margins,  \* slider positions, in percent
  Drafted,       \* the estimate as first drafted
  Prices,        \* contract values an estimator arrives at later
  Overlap,       \* whether approvers and the estimator get in each other's way
  MaxEdits,      \* bound: ceilings edited and estimates reworked
  MaxSaves,      \* bound: series of requests sent
  MaxMishaps     \* bound: requests that fail or whose answer is lost

Roles == {Canonical[i] : i \in DOMAIN Canonical}

LastOrder == 2147483647  \* tier_order INT
Ceilings == Nat \cup {Unbounded}
Tiers == [Roles -> Ceilings]
EstimateType ==
  [status : {"in_progress", "pending_approval", "handed_back"}, value : Nat,
   margin : 0..99, comp : 0..100]

ASSUME ApprovalAssumption ==
  /\ Canonical \in Seq(Roles) /\ RoleOf \in [Desks -> Roles] /\ Tabs \subseteq Roles
  /\ Overlap \in BOOLEAN
  /\ Unbounded \notin Nat /\ "none" \notin Roles
  /\ \E other \in Types : Types = {Type, other}
  /\ SeedCeiling \in Tiers /\ Amounts \subseteq Nat
  /\ Drafted \in EstimateType /\ Drafted.status = "in_progress"
  /\ Prices \subseteq Nat /\ Complexities \subseteq 0..100 /\ Margins \subseteq 0..99

\* The floors and orders that migrations 007 and 068 give the rows, and the form leaves
\* alone: the tabs are the canonical ladder, their floors rise from zero with their order,
\* and the rows that are no tab come after it.
ASSUME LadderAssumption ==
  /\ Order \in [Roles -> 0..LastOrder] /\ Floor \in [Roles -> Nat]
  /\ \A r \in Tabs, q \in Roles : Order[q] <= Order[r] => q \in Tabs /\ Floor[q] <= Floor[r]
  /\ \A r, q \in Tabs : Order[q] = Order[r] => q = r
  /\ \E r \in Tabs : Floor[r] = 0

VARIABLES
  est,      \* the estimate: status, contract value, target margin, complexity of its services
  ladder,   \* approval_tiers: the ceiling of each type and role
  trail,    \* estimate_adjustments, the margin rows
  desk,     \* what each approver has in front of them
  calls,    \* the requests still to be sent by the handler that is running
  form,     \* PATCHes of tiers under way
  covered,  \* ghost: the ceiling checked by the last approval
  mishap,   \* ghost: the worst that happened to a request
  edits, saves, mishaps

database == <<est, ladder, trail, covered>>
bounds == <<mishap, edits, saves, mishaps>>
vars == <<database, desk, calls, form, bounds>>

None == "none"
Nothing == [status |-> None, value |-> 0, margin |-> 0, comp |-> 0]

-----------------------------------------------------------------------------
(* The ladder                                                                *)

\* compareApprovalTiers: the order of the row, then the canonical rank.
Rank(r) == CHOOSE i \in DOMAIN Canonical : Canonical[i] = r
Before(r, q) ==
  Order[r] < Order[q] \/ (Order[r] = Order[q] /\ Rank(r) <= Rank(q))

InBand(v, tiers, r) == Floor[r] <= v /\ IF tiers[r] = Unbounded THEN TRUE ELSE v < tiers[r]

\* Mutant of TierForValue: the row the API returned first.
TierAnyOrder(v, tiers) ==
  LET fit == {r \in Roles : InBand(v, tiers, r)}
  IN  IF fit = {} THEN None ELSE CHOOSE r \in fit : \A q \in fit : Before(q, r)

\* tierForValue: the first tier with min <= value < max.
TierForValue(v, tiers) ==
  LET fit == {r \in Roles : InBand(v, tiers, r)}
  IN  IF fit = {} THEN None ELSE CHOOSE r \in fit : \A q \in fit : Before(r, q)

\* approval_ceiling_cents: the top of the highest band over both types.
ServerCeiling(r) ==
  LET tops == {ladder[t][r] : t \in Types}
  IN  IF Unbounded \in tops THEN Unbounded ELSE CHOOSE c \in tops : \A d \in tops : d <= c
Covers(ceiling, v) == IF ceiling = Unbounded THEN TRUE ELSE v <= ceiling

-----------------------------------------------------------------------------
(* The drawer                                                                *)

\* Math.round of a / b, for naturals.
Round(a, b) == (2 * a + b) \div (2 * b)

\* reviewBaseline: what the levers start from.
CostOf(e) == Round(e.value * (100 - e.margin), 100)

\* computeReview: the value the levers make of it.
LiveValue(e, comp, margin) ==
  Round(Round(CostOf(e) * (100 + comp - e.comp), 100) * 100, 100 - margin)

Changed(d) == d.comp # d.item.comp \/ d.margin # d.item.margin

\* Mutant of IsOverCeiling: the next tier up still counts as one's own.
OverCeilingByTwo(live, own) ==
  live # None /\ own # None /\ Order[live] > Order[own] + 1

\* isOverCeiling: the live tier outranks the approver's.
IsOverCeiling(live, own) == live # None /\ own # None /\ Order[live] > Order[own]

OverCeiling(d) == IsOverCeiling(TierForValue(LiveValue(d.item, d.comp, d.margin), d.tiers), d.tab)

\* Mutant of Records: the margin is audited only if it goes up.
RecordsOfRaises(d) ==
  IF d.margin > d.item.margin
    THEN <<[do |-> "adjust", from |-> d.item.margin, to |-> d.margin]>> ELSE <<>>

\* buildAdjustmentRecords: a row per changed lever; the one of the margin is kept.
Records(d) ==
  IF d.margin # d.item.margin
    THEN <<[do |-> "adjust", from |-> d.item.margin, to |-> d.margin]>> ELSE <<>>

\* applyApproverAdjustments: the PATCH carries both effects, whichever lever moved.
Adjustments(d) ==
  <<[do |-> "patch", value |-> LiveValue(d.item, d.comp, d.margin), margin |-> d.margin]>>
    \o Records(d)

Approval == <<[do |-> "approve"]>>

\* queueForRole of routeApprovalQueue: the card is in the tab the desk looks at.
Shown(d) == d.item.status = "pending_approval" /\ TierForValue(d.item.value, d.tiers) = d.tab

Approvable == {"in_progress", "pending_approval"}

-----------------------------------------------------------------------------

Away == [at |-> "away", tab |-> CHOOSE r \in Tabs : \A q \in Tabs : Before(r, q),
         tiers |-> SeedCeiling, item |-> Nothing, comp |-> 0, margin |-> 0,
         fresh |-> Nothing, offer |-> {}]

Init ==
  /\ est = Drafted
  /\ ladder = [t \in Types |-> SeedCeiling] /\ trail = <<>>
  /\ desk = [s \in Desks |-> Away] /\ calls = [s \in Desks |-> <<>>]
  /\ form = {} /\ covered = Unbounded
  /\ mishap = None /\ edits = 0 /\ saves = 0 /\ mishaps = 0

Busy(s) == calls[s] # <<>>
Alone(s) == Overlap \/ \A t \in Desks \ {s} : desk[t].at = "away" /\ ~Busy(t)

\* The queue is opened: the pending estimates are listed, once.
OpenQueue(s) ==
  /\ desk[s].at = "away" /\ ~Busy(s) /\ Alone(s)
  /\ desk' = [desk EXCEPT ![s].at = "queue",
                          ![s].item = IF est.status = "pending_approval" THEN est ELSE Nothing]
  /\ UNCHANGED <<database, calls, form, bounds>>

\* The handoff tab of the estimate.
OpenHandoff(s) ==
  /\ desk[s].at = "away" /\ ~Busy(s) /\ Alone(s)
  /\ desk' = [desk EXCEPT ![s].at = "handoff", ![s].item = est]
  /\ UNCHANGED <<database, calls, form, bounds>>

\* The view is left; a handler that is running goes on.
Leave(s) ==
  /\ desk[s].at # "away" /\ (Overlap \/ ~Busy(s))
  /\ desk' = [desk EXCEPT ![s] = [Away EXCEPT !.tiers = desk[s].tiers]]
  /\ UNCHANGED <<database, calls, form, bounds>>

\* useEstimatingConfig answers, or is fetched again after five minutes; the seed until then.
FetchConfig(s) ==
  /\ desk[s].at # "away" /\ desk[s].tiers # ladder[Type]
  /\ desk' = [desk EXCEPT ![s].tiers = ladder[Type]]
  /\ UNCHANGED <<database, calls, form, bounds>>

\* Viewing as: the drawer closes.
ViewAs(s, r) ==
  /\ desk[s].at \in {"queue", "drawer", "panel"} /\ desk[s].tab # r
  /\ desk' = [desk EXCEPT ![s].tab = r, ![s].at = "queue", ![s].comp = 0, ![s].margin = 0]
  /\ UNCHANGED <<database, calls, form, bounds>>

\* A card is opened, for review or to be sent back: the levers stand at the baseline.
Review(s, at) ==
  /\ desk[s].at = "queue" /\ Shown(desk[s])
  /\ desk' = [desk EXCEPT ![s].at = at, ![s].comp = desk[s].item.comp,
                          ![s].margin = desk[s].item.margin]
  /\ UNCHANGED <<database, calls, form, bounds>>

Close(s) ==
  /\ desk[s].at \in {"drawer", "panel"}
  /\ desk' = [desk EXCEPT ![s].at = "queue", ![s].comp = 0, ![s].margin = 0]
  /\ UNCHANGED <<database, calls, form, bounds>>

\* Send back and Back inside the drawer.
TogglePanel(s) ==
  /\ desk[s].at \in {"drawer", "panel"}
  /\ desk' = [desk EXCEPT ![s].at = IF @ = "drawer" THEN "panel" ELSE "drawer"]
  /\ UNCHANGED <<database, calls, form, bounds>>

\* The sliders and their Reset.
MoveLevers(s, comp, margin) ==
  /\ desk[s].at \in {"drawer", "panel"} /\ Shown(desk[s])
  /\ <<comp, margin>> # <<desk[s].comp, desk[s].margin>>
  /\ desk' = [desk EXCEPT ![s].comp = comp, ![s].margin = margin]
  /\ UNCHANGED <<database, calls, form, bounds>>

\* A handler starts: busy until its last request is answered.
Send(s, requests) ==
  /\ ~Busy(s) /\ saves < MaxSaves /\ saves' = saves + 1
  /\ calls' = [calls EXCEPT ![s] = requests]
  /\ desk' = [desk EXCEPT ![s].offer =
       IF Shown(desk[s]) /\ desk[s].tab = RoleOf[s] /\ desk[s].item = est
         THEN {desk[s].tiers} ELSE {}]
  /\ UNCHANGED <<database, form, mishap, edits, mishaps>>

\* handleApprove from the card.
ApproveCard(s) ==
  /\ desk[s].at \in {"queue", "drawer", "panel"} /\ Shown(desk[s])
  /\ Send(s, Approval)

\* Mutant of Primary: approved before the adjustment is saved.
PrimaryApprovesFirst(s) ==
  /\ desk[s].at = "drawer" /\ Shown(desk[s])
  /\ IF OverCeiling(desk[s]) THEN Send(s, Adjustments(desk[s]))
     ELSE Send(s, Approval \o IF Changed(desk[s]) THEN Adjustments(desk[s]) ELSE <<>>)

\* handlePrimary: Save adjustment over the ceiling, else (Save adjustment &) approve.
Primary(s) ==
  /\ desk[s].at = "drawer" /\ Shown(desk[s])
  /\ IF OverCeiling(desk[s]) THEN Send(s, Adjustments(desk[s]))
     ELSE Send(s, (IF Changed(desk[s]) THEN Adjustments(desk[s]) ELSE <<>>) \o Approval)

\* handleSendBack, a reason being picked.
SendBack(s) ==
  /\ desk[s].at = "panel" /\ Shown(desk[s])
  /\ Send(s, <<[do |-> "back"]>>)

\* Approve & hand back to Sales on the handoff tab, for any status that may be approved.
ApproveHandoff(s) ==
  /\ desk[s].at = "handoff" /\ desk[s].item.status \in Approvable
  /\ Send(s, Approval)

-----------------------------------------------------------------------------
(* The server                                                                *)

\* The head request was answered with the estimate e.
Answered(s, e) ==
  /\ calls' = [calls EXCEPT ![s] = Tail(@)]
  /\ desk' = [desk EXCEPT ![s] =
       IF Tail(calls[s]) # <<>> THEN [@ EXCEPT !.fresh = e]
       ELSE IF @.at = "away" THEN [@ EXCEPT !.fresh = Nothing, !.offer = {}]
       ELSE [@ EXCEPT !.item = e, !.fresh = Nothing, !.offer = {},
                      !.at = IF desk[s].at = "handoff" THEN "handoff" ELSE "queue",
                      !.comp = 0, !.margin = 0]]
  /\ UNCHANGED <<form, bounds>>

\* The handler throws: nothing is replaced, the drawer stays open.
Thrown(s) ==
  /\ calls' = [calls EXCEPT ![s] = <<>>]
  /\ desk' = [desk EXCEPT ![s].fresh = Nothing, ![s].offer = {}]

\* PATCH contractValue and targetMargin: no look at the status.
ServePatch(s) ==
  /\ Busy(s) /\ Head(calls[s]).do = "patch"
  /\ est' = [est EXCEPT !.value = Head(calls[s]).value, !.margin = Head(calls[s]).margin]
  /\ Answered(s, est') /\ UNCHANGED <<ladder, trail, covered>>

\* POST adjustments.
ServeAdjust(s) ==
  /\ Busy(s) /\ Head(calls[s]).do = "adjust"
  /\ trail' = Append(trail, [from |-> Head(calls[s]).from, to |-> Head(calls[s]).to])
  /\ Answered(s, desk[s].fresh) /\ UNCHANGED <<est, ladder, covered>>

Permitted(s) == Covers(ServerCeiling(RoleOf[s]), est.value) /\ est.status \in Approvable

\* approve-handback reads the estimate and checks the authority...
CheckAuthority(s) ==
  /\ Busy(s) /\ Head(calls[s]).do = "approve" /\ Permitted(s)
  /\ covered' = ServerCeiling(RoleOf[s])
  /\ calls' = [calls EXCEPT ![s] = <<[do |-> "handback"]>> \o Tail(@)]
  /\ UNCHANGED <<est, ladder, trail, desk, form, bounds>>

\* ... or answers 403 or 409 ...
Refuse(s) ==
  /\ Busy(s) /\ Head(calls[s]).do = "approve" /\ ~Permitted(s)
  /\ Thrown(s) /\ mishap' = IF mishap = "lost" THEN mishap ELSE "cut"
  /\ UNCHANGED <<database, form, edits, saves, mishaps>>

\* ... and then writes the status.
HandBack(s) ==
  /\ Busy(s) /\ Head(calls[s]).do = "handback"
  /\ est' = [est EXCEPT !.status = "handed_back"]
  /\ Answered(s, est') /\ UNCHANGED <<ladder, trail, covered>>

\* PATCH status: in_progress, if the transition is legal or already made.
ServeBack(s) ==
  /\ Busy(s) /\ Head(calls[s]).do = "back" /\ est.status \in Approvable
  /\ est' = [est EXCEPT !.status = "in_progress"]
  /\ Answered(s, est') /\ UNCHANGED <<ladder, trail, covered>>

RefuseBack(s) ==
  /\ Busy(s) /\ Head(calls[s]).do = "back" /\ est.status \notin Approvable
  /\ Thrown(s)
  /\ UNCHANGED <<database, form, bounds>>

\* The head request does not reach the server.
Unreached(s) ==
  /\ Busy(s) /\ Head(calls[s]).do # "handback" /\ mishaps < MaxMishaps
  /\ Thrown(s) /\ mishaps' = mishaps + 1 /\ mishap' = IF mishap = "lost" THEN mishap ELSE "cut"
  /\ UNCHANGED <<database, form, edits, saves>>

\* The status was written and the answer is lost.
AnswerLost(s) ==
  /\ Busy(s) /\ Head(calls[s]).do = "handback" /\ mishaps < MaxMishaps
  /\ est' = [est EXCEPT !.status = "handed_back"]
  /\ Thrown(s) /\ mishaps' = mishaps + 1 /\ mishap' = "lost"
  /\ UNCHANGED <<ladder, trail, covered, form, edits, saves>>

-----------------------------------------------------------------------------
(* The others                                                                *)

\* The authority is checked and the status not yet written.
Checked(s) == Busy(s) /\ Head(calls[s]).do = "handback"

\* The estimator works on an estimate in progress and submits it.
Rework(v, c) ==
  /\ est.status = "in_progress" /\ (Overlap \/ \A s \in Desks : ~Checked(s))
  /\ edits < MaxEdits /\ edits' = edits + 1
  /\ est' = [est EXCEPT !.value = v, !.comp = c]
  /\ UNCHANGED <<ladder, trail, covered, desk, calls, form, mishap, saves, mishaps>>

Submit ==
  /\ est.status = "in_progress" /\ est' = [est EXCEPT !.status = "pending_approval"]
  /\ UNCHANGED <<ladder, trail, covered, desk, calls, form, bounds>>

\* Save of a card of the ladder form: one PATCH per type, the floor of no row.
SaveCeiling(r, amount) ==
  /\ edits < MaxEdits /\ edits' = edits + 1
  /\ \E t \in Types : ladder[t][r] # amount
  /\ form' = form \cup {<<t, r, amount>> : t \in Types}
  /\ UNCHANGED <<database, desk, calls, mishap, saves, mishaps>>

PatchTier(p) ==
  /\ p \in form /\ form' = form \ {p}
  /\ ladder' = [ladder EXCEPT ![p[1]][p[2]] = p[3]]
  /\ UNCHANGED <<est, trail, covered, desk, calls, bounds>>

PatchTierFails(p) ==
  /\ p \in form /\ form' = form \ {p} /\ mishaps < MaxMishaps /\ mishaps' = mishaps + 1
  /\ UNCHANGED <<database, desk, calls, mishap, edits, saves>>

Screen(s) ==
  \/ OpenQueue(s) \/ OpenHandoff(s) \/ Leave(s) \/ FetchConfig(s)
  \/ \E r \in Tabs : ViewAs(s, r)
  \/ Review(s, "drawer") \/ Review(s, "panel") \/ Close(s) \/ TogglePanel(s)
  \/ \E c \in Complexities, m \in Margins : MoveLevers(s, c, m)
  \/ ApproveCard(s) \/ Primary(s) \/ SendBack(s) \/ ApproveHandoff(s)

Serve(s) ==
  \/ ServePatch(s) \/ ServeAdjust(s) \/ CheckAuthority(s) \/ Refuse(s) \/ HandBack(s)
  \/ ServeBack(s) \/ RefuseBack(s) \/ Unreached(s) \/ AnswerLost(s)

Others ==
  \/ \E v \in Prices, c \in Complexities : Rework(v, c)
  \/ Submit
  \/ \E r \in Roles, a \in Amounts : SaveCeiling(r, a)
  \/ \E p \in form : PatchTier(p) \/ PatchTierFails(p)

Next == Others \/ \E s \in Desks : Screen(s) \/ Serve(s)

Spec == Init /\ [][Next]_vars

-----------------------------------------------------------------------------
(* Properties                                                                *)

Idle == \A s \in Desks : ~Busy(s)

\* "a manager cannot approve a >$100k estimate": what was handed back has a value that the
\* ceiling of its approver covered, whatever the levers did before and after, if approvers
\* take turns, the estimator does not reprice between check and write, and no approval was
\* stored without its answer.
ApprovedValueIsCovered ==
  est.status = "handed_back" /\ mishap # "lost" /\ Idle => Covers(covered, est.value)

\* "every change (and every revert back to the original) persists a from/to row": the last
\* row says what the target margin is, if every series of requests went through.
MarginIsAudited ==
  mishap = None /\ Idle /\ trail # <<>> => trail[Len(trail)].to = est.margin

\* The bands of the tabs leave no gap.
NoGap(tiers) ==
  \A r \in Tabs : \/ tiers[r] = Unbounded
                  \/ \E q \in Tabs : Order[q] = Order[r] + 1 /\ Floor[q] <= tiers[r]

\* Every value is in some band: no gap, or a row for everything.
EveryValueHasTier(tiers) == NoGap(tiers) \/ \E r \in Roles : Floor[r] = 0 /\ tiers[r] = Unbounded

\* The drawer offers "approve" only where the server will not refuse: an approver who looks
\* at their own tab, at the ladder and estimate as they are, is not answered 403.
OfferAccepted ==
  \A s \in Desks : Refuse(s) /\ EveryValueHasTier(ladder[Type]) =>
    ladder[Type] \notin desk[s].offer \/ est.status \notin Approvable

\* No pending estimate is missing from every tab of the queue, as long as the bands of the
\* tabs leave no gap.
SomeTabShowsIt ==
  est.status = "pending_approval" /\ NoGap(ladder[Type]) =>
    TierForValue(est.value, ladder[Type]) \in Tabs

\* An estimate that waits for approval gets there: some tab shows it, and what a tab offers
\* to do with it is not refused.
QueueLeadsOn == [][OfferAccepted /\ SomeTabShowsIt']_vars

\* "re-routes the estimate to the correct queue automatically" (ApprovalQueue): without the
\* condition.  The form moves a ceiling and never the floor above it.
AlwaysInSomeTab ==
  est.status = "pending_approval" => TierForValue(est.value, ladder[Type]) \in Tabs
=============================================================================
